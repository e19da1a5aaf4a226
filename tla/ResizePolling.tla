----------------------------- MODULE ResizePolling ----------------------------
(***************************************************************************)
(* jquery-resize.js, by which the log and the file set learn that their pages  *)
(* have grown: a loop of timers compares the size of every element that has a  *)
(* handler with the size it had before, and triggers "resize" if they differ.   *)
(* A handler may bind and unbind other handlers, in the middle of the loop.     *)
(***************************************************************************)
EXTENDS Integers, FiniteSets

CONSTANTS N,          \* the elements are 1..N, in document order
          Sizes,      \* what an element may measure
          Reentrant,  \* do handlers bind and unbind?
          MaxLoops    \* bound: loops under way at once

ElementsAssumption == N \in Nat /\ 0 \notin Sizes /\ MaxLoops \in Nat

Elements == 1..N
NoData == 0           \* the element has no data of this plug-in

VARIABLES
  size,     \* what an element measures
  elems,    \* the elements with a handler
  data,     \* the size each of them is known to have
  latest,   \* is the timer timeout_id names still to come?
  older,    \* timers to come that it does not name
  running,  \* is the loop running?
  todo,     \* the elements it has not come to
  inside    \* the element whose handler is called, or 0

vars == <<size, elems, data, latest, older, running, todo, inside>>

TypeOK ==
  /\ size \in [Elements -> Sizes]
  /\ elems \subseteq Elements /\ data \in [Elements -> Sizes \cup {NoData}]
  /\ latest \in BOOLEAN /\ older \in 0..MaxLoops
  /\ running \in BOOLEAN /\ todo \subseteq Elements /\ inside \in Elements \cup {0}

Init ==
  /\ size \in [Elements -> Sizes]
  /\ elems = {} /\ data = [e \in Elements |-> NoData]
  /\ latest = FALSE /\ older = 0
  /\ running = FALSE /\ todo = {} /\ inside = 0

(* Loops there are: timers to come, and the round that is running. *)
Loops == (IF latest THEN 1 ELSE 0) + older + (IF running THEN 1 ELSE 0)

(* The page's turn: from outside the loop, or in a handler that it calls. *)
Turn == ~running \/ (Reentrant /\ inside # 0)

(* loopy(): a new timer, which timeout_id names from now on. *)
loopy ==
  /\ latest' = TRUE
  /\ older' = IF latest THEN older + 1 ELSE older

(* setup: the first handler of an element. *)
Setup(e) ==
  /\ Turn
  /\ e \notin elems
  /\ Loops < MaxLoops
  /\ elems' = elems \cup {e}
  /\ data' = [data EXCEPT ![e] = size[e]]
  /\ IF elems = {} THEN loopy ELSE UNCHANGED <<latest, older>>
  /\ UNCHANGED <<size, running, todo, inside>>

(* Variant: the data stay with the element. *)
TeardownKeepingData(e) ==
  /\ Turn
  /\ e \in elems
  /\ elems' = elems \ {e}
  /\ latest' = (latest /\ elems # {e})
  /\ UNCHANGED <<size, data, older, running, todo, inside>>

(* teardown: the last handler of an element goes. *)
Teardown(e) ==
  /\ Turn
  /\ e \in elems
  /\ elems' = elems \ {e}
  /\ data' = [data EXCEPT ![e] = NoData]
  /\ latest' = (latest /\ elems # {e})
  /\ UNCHANGED <<size, older, running, todo, inside>>

(* new_handler, when the page triggers the event itself. *)
Trigger(e) ==
  /\ ~running
  /\ e \in elems
  /\ data' = [data EXCEPT ![e] = size[e]]
  /\ UNCHANGED <<size, elems, latest, older, running, todo, inside>>

Resize(e) ==
  /\ ~running
  /\ \E s \in Sizes \ {size[e]} : size' = [size EXCEPT ![e] = s]
  /\ UNCHANGED <<elems, data, latest, older, running, todo, inside>>

(***************************************************************************)
(* The loop.                                                               *)
(***************************************************************************)

(* A timer: the round is over the elements there are now. *)
Timer ==
  /\ ~running
  /\ \/ latest /\ latest' = FALSE /\ UNCHANGED older
     \/ older > 0 /\ older' = older - 1 /\ UNCHANGED latest
  /\ running' = TRUE
  /\ todo' = elems
  /\ UNCHANGED <<size, elems, data, inside>>

Polled == CHOOSE e \in todo : \A f \in todo : e <= f

(* An element that was unbound in this round has no data: reading its width    *)
(* throws, and the loop ends without a timer. *)
PollUnbound ==
  /\ running /\ inside = 0 /\ todo # {}
  /\ data[Polled] = NoData
  /\ running' = FALSE /\ todo' = {}
  /\ UNCHANGED <<size, elems, data, latest, older, inside>>

(* The size is noted before the handlers are called. *)
Poll ==
  /\ running /\ inside = 0 /\ todo # {}
  /\ data[Polled] # NoData
  /\ todo' = todo \ {Polled}
  /\ inside' = IF data[Polled] # size[Polled] THEN Polled ELSE 0
  /\ data' = [data EXCEPT ![Polled] = size[Polled]]
  /\ UNCHANGED <<size, elems, latest, older, running>>

Return ==
  /\ inside # 0
  /\ inside' = 0
  /\ UNCHANGED <<size, elems, data, latest, older, running, todo>>

(* The round is over, and the next timer is set. *)
Again ==
  /\ running /\ inside = 0 /\ todo = {}
  /\ running' = FALSE
  /\ loopy
  /\ UNCHANGED <<size, elems, data, todo, inside>>

Next ==
  \/ \E e \in Elements : Setup(e) \/ Teardown(e) \/ Trigger(e) \/ Resize(e)
  \/ Timer \/ PollUnbound \/ Poll \/ Return \/ Again

Spec == Init /\ [][Next]_vars

(***************************************************************************)
(* Correctness.                                                            *)
(***************************************************************************)

(* The elements that are watched are those whose size is known, also while      *)
(* handlers come and go in the middle of a round.                             *)
WatchedIsKnown == \A e \in Elements : e \in elems <=> data[e] # NoData

(* "this single polling loop is shared across all elements": one loop at most, *)
(* and none that the plug-in could not stop.                                 *)
OneLoop == Loops <= 1 /\ older = 0

(* "If this is the last element removed, stop the polling loop." *)
StopsWithLast == elems = {} /\ ~running => Loops = 0

(* While elements are watched the loop goes on. *)
WatchedByLoop == elems # {} => Loops > 0

(* The loop is sound; handlers that bind and unbind in a round may start a second   *)
(* one, or end it.                                                            *)
PollingIsSound ==
  /\ TypeOK /\ WatchedIsKnown
  /\ ~Reentrant => OneLoop /\ StopsWithLast /\ WatchedByLoop

===============================================================================
