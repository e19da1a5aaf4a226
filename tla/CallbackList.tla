----------------------------- MODULE CallbackList -----------------------------
(***************************************************************************)
(* The object that jQuery.Callbacks(options) makes: a list of functions that   *)
(* are called together, and that may change the list while they are called.    *)
(* Ready handlers, deferreds and the queues of animations are built from it.   *)
(*                                                                         *)
(* The variables of its closure are the fields of a record; a method is an     *)
(* operator from one record to the next.  "list" and "stack" are undefined      *)
(* when "alive" and "open" are FALSE.  Fields index and length are             *)
(* firingIndex and firingLength.  Its users take the loop of fire step by      *)
(* step: BeginFire, then AfterCall for each function, then EndFire.            *)
(***************************************************************************)
EXTENDS Integers, Sequences, FiniteSets

(* memory when there is none: undefined or false *)
NoData == 0

NewList(options) ==
  [options |-> options, alive |-> TRUE, list |-> <<>>,
   open |-> ~options.once, stack |-> <<>>,
   memory |-> NoData, fired |-> FALSE,
   firing |-> FALSE, data |-> NoData, index |-> 0, length |-> 0]

(* The head of fire(data): the functions from start on will be called. *)
BeginFire(l, data, start) ==
  [l EXCEPT !.memory = IF l.options.memory THEN data ELSE NoData,
            !.fired = TRUE, !.firing = TRUE, !.data = data,
            !.index = start, !.length = Len(l.list)]

(* The loop is over: no function is left, or the list was disabled.  What      *)
(* stopOnFalse ends early is at its end too.                                 *)
AtEnd(l) == ~l.alive \/ l.index >= l.length

disable(l) ==
  [l EXCEPT !.alive = FALSE, !.list = <<>>, !.open = FALSE, !.stack = <<>>,
            !.memory = NoData]

(* The end of fire: the next fire that waits, or the end of a list that fires  *)
(* once. *)
EndFire(l) ==
  LET idle == [l EXCEPT !.firing = FALSE, !.data = NoData, !.index = 0, !.length = 0]
  IN  IF ~l.alive THEN idle
      ELSE IF l.open
      THEN IF l.stack = <<>> THEN idle
           ELSE BeginFire([idle EXCEPT !.stack = Tail(@)], Head(l.stack), 0)
      ELSE IF l.memory # NoData THEN [idle EXCEPT !.list = <<>>]
      ELSE disable(idle)

(* A function has returned; false ends the loop if the options say so. *)
AfterCall(l, returnsFalse) ==
  IF returnsFalse /\ l.options.stopOnFalse
  THEN EndFire([l EXCEPT !.memory = NoData])
  ELSE [l EXCEPT !.index = @ + 1]

has(l, f) == \E i \in DOMAIN l.list : l.list[i] = f

(* A function added while the list is firing joins the batch; one added after  *)
(* a list with memory was fired is called at once.                           *)
add(l, f) ==
  LET added == IF l.options.unique /\ has(l, f) THEN l
               ELSE [l EXCEPT !.list = Append(@, f)]
  IN  IF ~l.alive THEN l
      ELSE IF l.firing THEN [added EXCEPT !.length = Len(added.list)]
      ELSE IF l.memory # NoData THEN BeginFire(added, l.memory, Len(l.list))
      ELSE added

(* A sequence without the occurrences of f *)
Without(s, f) ==
  LET left == {i \in DOMAIN s : s[i] # f}
      Place(n) == CHOOSE i \in left : Cardinality({j \in left : j <= i}) = n
  IN  [n \in 1..Cardinality(left) |-> s[Place(n)]]

(* Variant: the index is left as it is. *)
RemoveKeepingIndex(l, f) ==
  IF ~l.alive THEN l
  ELSE LET kept == Without(l.list, f)
       IN  [l EXCEPT !.list = kept, !.length = IF l.firing THEN Len(kept) ELSE @]

(* Every occurrence goes; those up to the one that is being called move the    *)
(* index back, even to -1.                                                  *)
remove(l, f) ==
  LET gone(n) == {i \in DOMAIN l.list : i <= n /\ l.list[i] = f}
  IN  IF ~l.alive THEN l
      ELSE [l EXCEPT
              !.list = Without(@, f),
              !.length = IF l.firing THEN @ - Cardinality(gone(Len(l.list))) ELSE @,
              !.index = IF l.firing THEN @ - Cardinality(gone(@ + 1)) ELSE @]

(* Also revives a disabled list; the index is left as it is. *)
empty(l) == [l EXCEPT !.alive = TRUE, !.list = <<>>, !.length = 0]

lock(l) ==
  LET closed == [l EXCEPT !.open = FALSE, !.stack = <<>>]
  IN  IF l.memory = NoData THEN disable(closed) ELSE closed

(* A fire during another waits for it, unless the list fires once. *)
fireWith(l, data) ==
  IF ~l.alive \/ (l.fired /\ ~l.open) THEN l
  ELSE IF l.firing THEN [l EXCEPT !.stack = Append(@, data)]
  ELSE BeginFire(l, data, 0)

===============================================================================
