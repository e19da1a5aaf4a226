--------------------------------- MODULE Ajax ---------------------------------
(***************************************************************************)
(* jQuery.ajax: requests from the call to their completion.  A request is        *)
(* completed by its answer, its timeout, an exception or an abort, whichever    *)
(* comes first, and the page's functions that are called on the way may abort    *)
(* requests and make new ones.  jQuery.active counts the requests under way,     *)
(* for the global events ajaxStart and ajaxStop.                              *)
(*                                                                         *)
(* There is one thread.  The stack holds the calls of ajax and of done that      *)
(* have not returned, each with the place at which the page's function is       *)
(* running.                                                                *)
(***************************************************************************)
EXTENDS Integers, Sequences, FiniteSets

CONSTANTS Requests,
          Timed,       \* requests with a timeout
          Sync,        \* requests with async: false
          AbortsInSend \* whether a request is aborted while its ajaxSend is handled

AjaxAssumption ==
  /\ IsFiniteSet(Requests) /\ Timed \subseteq Requests /\ Sync \subseteq Requests
  /\ AbortsInSend \in BOOLEAN

VARIABLES
  stack,     \* of calls, the innermost last
  called,    \* requests made
  state,     \* jqXHR's state: 0, 1 when sent, 2 when done
  installed, \* whether the page's callbacks are installed
  transport, \* whether ajax holds the transport
  xhr,       \* the browser's request
  timer,     \* timeoutTimer
  result,    \* of the jqXHR's deferred
  active,    \* jQuery.active
  starts,    \* history: calls of ajaxStart, less those of ajaxStop
  dones      \* history: completions of a request

vars == <<stack, called, state, installed, transport, xhr, timer, result,
          active, starts, dones>>

CallPlaces == {"prefilter", "ajaxStart", "beforeSend", "ajaxSend"}
DonePlaces == {"settle", "complete", "ajaxStop"}

TypeOK ==
  /\ \A i \in DOMAIN stack : stack[i].req \in called /\ stack[i].at \in CallPlaces \cup DonePlaces
  /\ called \subseteq Requests
  /\ state \in [Requests -> 0..2]
  /\ installed \in [Requests -> BOOLEAN]
  /\ transport \in [Requests -> BOOLEAN] /\ timer \in [Requests -> BOOLEAN]
  /\ xhr \in [Requests -> {"none", "open", "over"}]
  /\ result \in [Requests -> {"pending", "success", "error"}]
  /\ active \in 0..Cardinality(Requests) /\ starts \in 0..1
  /\ dones \in [Requests -> Nat]

Init ==
  /\ stack = <<>> /\ called = {}
  /\ state = [r \in Requests |-> 0]
  /\ installed = [r \in Requests |-> FALSE] /\ transport = [r \in Requests |-> FALSE]
  /\ xhr = [r \in Requests |-> "none"] /\ timer = [r \in Requests |-> FALSE]
  /\ result = [r \in Requests |-> "pending"]
  /\ active = 0 /\ starts = 0 /\ dones = [r \in Requests |-> 0]

Top == stack[Len(stack)]
Outer == SubSeq(stack, 1, Len(stack) - 1)
At(r, place) == Append(Outer, [req |-> r, at |-> place])
Inside(r, place) == \E i \in DOMAIN stack : stack[i] = [req |-> r, at |-> place]
Running(place) == stack # <<>> /\ Top.at = place

(***************************************************************************)
(* done.                                                                   *)
(***************************************************************************)

(* done, for a state that is not 2 yet, up to the first callbacks. *)
BeginDone(r, outcome, below) ==
  /\ state' = [state EXCEPT ![r] = 2]
  /\ timer' = [timer EXCEPT ![r] = FALSE]
  /\ transport' = [transport EXCEPT ![r] = FALSE]
  /\ result' = [result EXCEPT ![r] = IF @ = "pending" THEN outcome ELSE @]
  /\ dones' = [dones EXCEPT ![r] = @ + 1]
  /\ stack' = Append(below, [req |-> r, at |-> "settle"])

(* The callbacks of success or error, of the status and ajaxSuccess or           *)
(* ajaxError have returned, and those of complete come. *)
Settled ==
  /\ Running("settle")
  /\ stack' = At(Top.req, "complete")
  /\ UNCHANGED <<called, state, installed, transport, xhr, timer, result, active,
                 starts, dones>>

(* Variant: ajaxStop for the last callback, not for the last request. *)
CompleteOutermost ==
  /\ Running("complete")
  /\ active' = active - 1
  /\ IF Outer = <<>>
     THEN /\ stack' = At(Top.req, "ajaxStop")
          /\ starts' = starts - 1
     ELSE /\ stack' = Outer
          /\ UNCHANGED starts
  /\ UNCHANGED <<called, state, installed, transport, xhr, timer, result, dones>>

(* A request that was aborted in a prefilter has not been counted. *)
Complete ==
  /\ Running("complete")
  /\ IF Inside(Top.req, "prefilter")
     THEN stack' = Outer /\ UNCHANGED <<active, starts>>
     ELSE /\ active' = active - 1
          /\ IF active = 1
             THEN /\ stack' = At(Top.req, "ajaxStop")
                  /\ starts' = starts - 1
             ELSE /\ stack' = Outer
                  /\ UNCHANGED starts
  /\ UNCHANGED <<called, state, installed, transport, xhr, timer, result, dones>>

AjaxStopped ==
  /\ Running("ajaxStop")
  /\ stack' = Outer
  /\ UNCHANGED <<called, state, installed, transport, xhr, timer, result, active,
                 starts, dones>>

(***************************************************************************)
(* ajax.                                                                   *)
(***************************************************************************)

Ajax(r) ==
  /\ r \notin called
  /\ called' = called \cup {r}
  /\ stack' = Append(stack, [req |-> r, at |-> "prefilter"])
  /\ UNCHANGED <<state, installed, transport, xhr, timer, result, active, starts,
                 dones>>

(* The prefilters have returned. *)
Prefiltered ==
  LET r == Top.req
  IN  /\ Running("prefilter")
      /\ IF state[r] = 2
         THEN stack' = Outer /\ UNCHANGED <<active, starts>>
         ELSE /\ active' = active + 1
              /\ starts' = IF active = 0 THEN starts + 1 ELSE starts
              /\ stack' = At(r, IF active = 0 THEN "ajaxStart" ELSE "beforeSend")
      /\ UNCHANGED <<called, state, installed, transport, xhr, timer, result, dones>>

AjaxStarted ==
  /\ Running("ajaxStart")
  /\ stack' = At(Top.req, "beforeSend")
  /\ UNCHANGED <<called, state, installed, transport, xhr, timer, result, active,
                 starts, dones>>

(* beforeSend has returned, and not FALSE if goesOn.  A request without          *)
(* beforeSend goes on; that one is not aborted by a handler of ajaxStart. *)
BeforeSent(goesOn) ==
  LET r == Top.req
  IN  /\ Running("beforeSend")
      /\ CASE state[r] = 2 ->
                /\ stack' = Outer
                /\ UNCHANGED <<state, timer, transport, result, dones, installed>>
           [] state[r] # 2 /\ ~goesOn ->
                BeginDone(r, "error", Outer) /\ UNCHANGED <<installed>>
           [] OTHER ->
                /\ installed' = [installed EXCEPT ![r] = TRUE]
                /\ transport' = [transport EXCEPT ![r] = TRUE]
                /\ stack' = At(r, "ajaxSend")
                /\ UNCHANGED <<state, timer, result, dones>>
      /\ UNCHANGED <<called, xhr, active, starts>>

(* There is no transport for the request. *)
NoTransport ==
  LET r == Top.req
  IN  /\ Running("beforeSend") /\ state[r] # 2
      /\ installed' = [installed EXCEPT ![r] = TRUE]
      /\ BeginDone(r, "error", Outer)
      /\ UNCHANGED <<called, xhr, active, starts>>

(* The handlers of ajaxSend have returned: the timer is set and the transport    *)
(* sends the request, or throws, which it does if an abort has taken it. *)
Send(throws) ==
  LET r == Top.req
      timed == r \in Timed \ Sync
  IN  /\ Running("ajaxSend")
      /\ r \in Sync => throws
      /\ IF throws \/ ~transport[r]
         THEN BeginDone(r, "error", Outer) /\ UNCHANGED xhr
         ELSE /\ state' = [state EXCEPT ![r] = 1]
              /\ timer' = [timer EXCEPT ![r] = timed]
              /\ xhr' = [xhr EXCEPT ![r] = "open"]
              /\ stack' = Outer
              /\ UNCHANGED <<transport, result, dones>>
      /\ UNCHANGED <<called, installed, active, starts>>

(* Without async the answer comes before send returns. *)
SendSync(outcome) ==
  LET r == Top.req
  IN  /\ Running("ajaxSend")
      /\ r \in Sync /\ transport[r]
      /\ xhr' = [xhr EXCEPT ![r] = "over"]
      /\ BeginDone(r, outcome, Outer)
      /\ UNCHANGED <<called, installed, active, starts>>

(***************************************************************************)
(* Ends of a request.                                                      *)
(***************************************************************************)

(* jqXHR.abort, for a state that is not 2 yet *)
Abort(r) ==
  /\ r \in called /\ state[r] # 2
  /\ xhr' = [xhr EXCEPT ![r] = IF transport[r] /\ @ = "open" THEN "over" ELSE @]
  /\ BeginDone(r, "error", stack)
  /\ UNCHANGED <<called, installed, active, starts>>

(* The page aborts a request. *)
PageAborts(r) ==
  /\ ~AbortsInSend => ~Inside(r, "ajaxSend")
  /\ Abort(r)

(* The timeout *)
Expire(r) ==
  /\ stack = <<>> /\ timer[r]
  /\ Abort(r)

(* The browser's request is over: with an answer that can be converted, or not. *)
Answer(r, outcome) ==
  /\ stack = <<>> /\ xhr[r] = "open"
  /\ xhr' = [xhr EXCEPT ![r] = "over"]
  /\ IF state[r] = 2
     THEN UNCHANGED <<state, timer, transport, result, dones, stack>>
     ELSE BeginDone(r, outcome, stack)
  /\ UNCHANGED <<called, installed, active, starts>>

Outcomes == {"success", "error"}

(* What goes on by itself: the page's functions return. *)
Returns ==
  \/ Settled \/ Complete \/ AjaxStopped \/ Prefiltered \/ AjaxStarted \/ NoTransport
  \/ \E b \in BOOLEAN : BeforeSent(b) \/ Send(b)
  \/ \E o \in Outcomes : SendSync(o)

Next ==
  \/ Returns
  \/ \E r \in Requests :
       \/ Ajax(r) \/ PageAborts(r) \/ Expire(r)
       \/ \E o \in Outcomes : Answer(r, o)

Spec == Init /\ [][Next]_vars

(***************************************************************************)
(* Correctness.                                                            *)
(***************************************************************************)

(* "Called once": a request is completed once, whatever it is completed by. *)
DoneOnce == \A r \in Requests : dones[r] <= 1

(* jQuery.active counts the requests that have been begun and whose end has not  *)
(* been told: one that a prefilter has aborted never is. *)
ActiveIsRight ==
  active = Cardinality({r \in called :
                          /\ ~Inside(r, "prefilter")
                          /\ \/ state[r] # 2
                             \/ Inside(r, "settle") \/ Inside(r, "complete")})

(* ajaxStart is triggered when there is something under way, and ajaxStop when   *)
(* there is no more: the two alternate. *)
StartedWhileActive == (starts = 1) <=> (active > 0)

(* When a request is done, the browser does not go on with it, and its timer     *)
(* does not go off. *)
NothingGoesOn == \A r \in Requests : state[r] = 2 => xhr[r] # "open" /\ ~timer[r]

(* Requests are completed and counted once: see the parts. *)
CountIsRight == TypeOK /\ DoneOnce /\ ActiveIsRight /\ StartedWhileActive /\ NothingGoesOn

===============================================================================
