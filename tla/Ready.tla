--------------------------------- MODULE Ready --------------------------------
(***************************************************************************)
(* jQuery's ready handlers: the pages hand their start-up code to              *)
(* $(document).ready while the document loads.  The browser's events, a        *)
(* fallback, timers of jQuery's own and whoever holds the ready event back      *)
(* all call jQuery.ready, and the first of them that may runs the handlers.    *)
(*                                                                         *)
(* The list of handlers is a deferred: once it is resolved a handler that is    *)
(* added is called at once (module Deferreds).                               *)
(***************************************************************************)
EXTENDS Integers, Sequences, FiniteSets

CONSTANTS Handlers,   \* functions given to ready
          MaxHolds,   \* bound: calls of holdReady(true)
          OldIE       \* is the browser one without addEventListener?

ReadyAssumption == MaxHolds \in Nat /\ OldIE \in BOOLEAN

VARIABLES
  dom,        \* document.readyState, and the events that went with it
  body,       \* does document.body exist?
  listening,  \* are completed's listeners attached?
  readyWait, isReady,
  readyList,  \* "none", "pending" or "resolved"
  timers,     \* setTimeout( jQuery.ready ) calls to come
  scrolling,  \* is a doScrollCheck to come? (old IE)
  waiting,    \* handlers of the pending list
  called,     \* history: handlers that were called
  held, holds \* history: holds that were not released; all of them

vars == <<dom, body, listening, readyWait, isReady, readyList, timers, scrolling,
          waiting, called, held, holds>>

(* What the browser goes through: the elements are parsed, DOMContentLoaded    *)
(* is sent (by new browsers), everything is loaded, load is sent. *)
Phases == <<"loading", "interactive", "content", "complete", "loaded">>

TypeOK ==
  /\ dom \in 1..Len(Phases) /\ body \in BOOLEAN
  /\ listening \in BOOLEAN /\ isReady \in BOOLEAN /\ scrolling \in BOOLEAN
  /\ readyWait \in 0..(MaxHolds + 1)
  /\ readyList \in {"none", "pending", "resolved"}
  /\ timers \in 0..(IF OldIE THEN 2 ELSE 1)
  /\ waiting \subseteq Handlers /\ called \subseteq Handlers
  /\ held \in 0..MaxHolds /\ holds \in 0..MaxHolds

Init ==
  /\ dom = 1 /\ body = FALSE /\ listening = FALSE
  /\ readyWait = 1 /\ isReady = FALSE
  /\ readyList = "none" /\ timers = 0 /\ scrolling = FALSE
  /\ waiting = {} /\ called = {} /\ held = 0 /\ holds = 0

(***************************************************************************)
(* jQuery.ready.                                                           *)
(***************************************************************************)

Unready == UNCHANGED <<isReady, readyList, waiting, called>>

RunHandlers ==
  /\ readyList' = "resolved"
  /\ called' = called \cup waiting
  /\ waiting' = {}

(* Variant: a body that is missing is not waited for again. *)
ReadyOnce(due) ==
  /\ timers' = due
  /\ IF isReady \/ ~body THEN UNCHANGED readyWait /\ Unready
     ELSE /\ isReady' = TRUE
          /\ readyWait' = readyWait - 1
          /\ IF readyWait - 1 > 0 THEN UNCHANGED <<readyList, waiting, called>>
             ELSE RunHandlers

(* ready() with "due" timers left: by an event or a timer. *)
ready(due) ==
  IF isReady THEN timers' = due /\ UNCHANGED readyWait /\ Unready
  ELSE IF ~body THEN timers' = due + 1 /\ UNCHANGED readyWait /\ Unready
  ELSE /\ isReady' = TRUE
       /\ readyWait' = readyWait - 1
       /\ timers' = due
       /\ IF readyWait - 1 > 0 THEN UNCHANGED <<readyList, waiting, called>>
          ELSE RunHandlers

(* ready(true): the end of a hold. *)
readyTrue ==
  /\ readyWait' = readyWait - 1
  /\ IF readyWait - 1 # 0 THEN UNCHANGED timers /\ Unready
     ELSE IF ~body THEN timers' = timers + 1 /\ Unready
     ELSE isReady' = TRUE /\ UNCHANGED timers /\ RunHandlers

(***************************************************************************)
(* The pages' calls.                                                       *)
(***************************************************************************)

(* ready.promise(): the first call makes the list and sees to it that ready    *)
(* will be called; doScrollCheck is first made at once, by old IE.            *)
AddHandler(h) ==
  /\ h \notin waiting \cup called
  /\ IF readyList = "resolved"
     THEN called' = called \cup {h} /\ UNCHANGED waiting
     ELSE waiting' = waiting \cup {h} /\ UNCHANGED called
  /\ IF readyList # "none" THEN UNCHANGED <<readyList, timers, listening, scrolling>>
     ELSE /\ readyList' = "pending"
          /\ IF dom >= 4
             THEN timers' = timers + 1 /\ UNCHANGED <<listening, scrolling>>
             ELSE listening' = TRUE /\ scrolling' = OldIE /\ UNCHANGED timers
  /\ UNCHANGED <<dom, body, readyWait, isReady, held, holds>>

(* holdReady(true), by a script that delays the others *)
Hold ==
  /\ holds < MaxHolds
  /\ readyWait' = readyWait + 1
  /\ held' = held + 1 /\ holds' = holds + 1
  /\ UNCHANGED <<dom, body, listening, isReady, readyList, timers, scrolling,
                 waiting, called>>

(* holdReady(false), once for each hold *)
Unhold ==
  /\ held > 0
  /\ held' = held - 1
  /\ readyTrue
  /\ UNCHANGED <<dom, body, listening, scrolling, holds>>

(***************************************************************************)
(* The browser.                                                            *)
(***************************************************************************)

(* The body is parsed before the document is interactive, in most browsers;    *)
(* old IE may tell of the document before it has a body.                     *)
ParseBody ==
  /\ ~body
  /\ dom = 1 \/ OldIE
  /\ body' = TRUE
  /\ UNCHANGED <<dom, listening, readyWait, isReady, readyList, timers, scrolling,
                 waiting, called, held, holds>>

(* completed: the listeners go, and ready is called. *)
completed ==
  IF listening
  THEN listening' = FALSE /\ ready(timers)
  ELSE UNCHANGED <<listening, timers, readyWait, isReady, readyList, waiting, called>>

(* The next phase.  New browsers send DOMContentLoaded and load; old IE sends  *)
(* readystatechange, which counts once the document is complete, and load.     *)
Load ==
  /\ dom < Len(Phases)
  /\ dom = 1 => body \/ OldIE
  /\ dom = 4 => body
  /\ dom' = dom + 1
  /\ IF Phases[dom + 1] = "loaded"
        \/ Phases[dom + 1] = (IF OldIE THEN "complete" ELSE "content")
     THEN completed
     ELSE UNCHANGED <<listening, timers, readyWait, isReady, readyList, waiting, called>>
  /\ UNCHANGED <<body, scrolling, held, holds>>

Timer ==
  /\ timers > 0
  /\ ready(timers - 1)
  /\ UNCHANGED <<dom, body, listening, scrolling, held, holds>>

(* doScrollCheck: until the document can be scrolled, every 50 ms. *)
ScrollCheck ==
  /\ scrolling
  /\ IF isReady
     THEN scrolling' = FALSE
          /\ UNCHANGED <<listening, timers, readyWait, isReady, readyList, waiting, called>>
     ELSE /\ dom >= 2
          /\ scrolling' = FALSE /\ listening' = FALSE
          /\ ready(timers)
  /\ UNCHANGED <<dom, body, held, holds>>

Next ==
  \/ \E h \in Handlers : AddHandler(h)
  \/ Hold \/ Unhold
  \/ ParseBody \/ Load \/ Timer \/ ScrollCheck

Spec == Init /\ [][Next]_vars

(***************************************************************************)
(* Correctness.                                                            *)
(***************************************************************************)

(* The hold count stays in step with the calls: one for each hold that was not *)
(* released, and one for the document until it is ready.                     *)
HoldsCounted == readyWait = held + (IF isReady THEN 0 ELSE 1)

(* The handlers are run when the document has been read and has its body,         *)
(* whichever of the calls comes last.                                       *)
RunWhenReady == readyList = "resolved" => body /\ dom >= 2 /\ isReady

(* A handler that is added is called, however late or early it is added: none      *)
(* waits when the document is loaded, nothing is to come and nobody holds it.    *)
HandlersRun ==
  dom = Len(Phases) /\ timers = 0 /\ ~scrolling /\ held = 0 => waiting = {}

(* Ready handlers run when they may: see the parts. *)
HandlersAreRight == TypeOK /\ HoldsCounted /\ RunWhenReady /\ HandlersRun

===============================================================================
