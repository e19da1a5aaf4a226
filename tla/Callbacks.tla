------------------------------- MODULE Callbacks ------------------------------
(***************************************************************************)
(* One CallbackList and its user, who calls its methods when the list is idle  *)
(* and from within the functions that it calls.                             *)
(*                                                                         *)
(* An exception of a function leaves fire() in the middle: "firing" stays      *)
(* TRUE for ever, and what is added or fired afterwards is never called.       *)
(***************************************************************************)
EXTENDS CallbackList

CONSTANTS Fns,      \* functions
          Data,     \* what the list is fired with
          Options,  \* sets of options to try
          MaxCalls, \* bound: calls of add for each function
          MaxFires, \* bound: fires
          MayThrow  \* may a function throw?

OptionsAssumption ==
  Options \subseteq [once : BOOLEAN, memory : BOOLEAN,
                     unique : BOOLEAN, stopOnFalse : BOOLEAN]
DataAssumption == Data \subseteq Nat \ {NoData}

VARIABLES
  l,       \* the list
  called,  \* is a function of the list being called?
  dead,    \* has a function thrown?
  rest,    \* history: the functions the batch still has to call
  asked,   \* history: the data of the fires accepted, the oldest first
  begun,   \* history: how many of them were begun
  adds,    \* history: how often each function was added
  calls,   \* history: how often each was called
  plain,   \* history: nothing but add, fire and has was called
  emptied  \* history: empty() was called in this batch

history == <<rest, asked, begun, adds, calls, plain, emptied>>
vars == <<l, called, dead, history>>

TypeOK ==
  /\ l.options \in Options
  /\ l.alive \in BOOLEAN /\ l.open \in BOOLEAN /\ l.fired \in BOOLEAN
  /\ l.firing \in BOOLEAN
  /\ l.list \in Seq(Fns) /\ l.stack \in Seq(Data)
  /\ l.memory \in Data \cup {NoData} /\ l.data \in Data \cup {NoData}
  /\ l.index \in Int /\ l.length \in Nat
  /\ called \in BOOLEAN /\ dead \in BOOLEAN /\ plain \in BOOLEAN
  /\ emptied \in BOOLEAN
  /\ rest \in Seq(Fns) /\ asked \in Seq(Data) /\ begun \in Nat
  /\ adds \in [Fns -> Nat] /\ calls \in [Fns -> Nat]

Init ==
  /\ \E o \in Options : l = NewList(o)
  /\ called = FALSE /\ dead = FALSE
  /\ rest = <<>> /\ asked = <<>> /\ begun = 0
  /\ adds = [f \in Fns |-> 0] /\ calls = [f \in Fns |-> 0]
  /\ plain = TRUE /\ emptied = FALSE

(* The user's turn. *)
Turn == ~l.firing \/ called \/ dead

(***************************************************************************)
(* The methods.                                                            *)
(***************************************************************************)

Add(f) ==
  LET new == l.alive /\ ~(l.options.unique /\ has(l, f))
  IN  /\ Turn
      /\ adds[f] < MaxCalls
      /\ l' = add(l, f)
      /\ adds' = IF new THEN [adds EXCEPT ![f] = @ + 1] ELSE adds
      /\ rest' = IF ~new THEN rest
                 ELSE IF l.firing THEN Append(rest, f)
                 ELSE IF l.memory # NoData THEN <<f>>
                 ELSE rest
      /\ UNCHANGED <<called, dead, asked, begun, calls, plain, emptied>>

Remove(f) ==
  /\ Turn /\ has(l, f)
  /\ l' = remove(l, f)
  /\ rest' = Without(rest, f)
  /\ plain' = FALSE
  /\ UNCHANGED <<called, dead, asked, begun, adds, calls, emptied>>

Empty ==
  /\ Turn
  /\ l' = empty(l)
  /\ rest' = <<>>
  /\ plain' = FALSE /\ emptied' = l.firing
  /\ UNCHANGED <<called, dead, asked, begun, adds, calls>>

Disable ==
  /\ Turn
  /\ l' = disable(l)
  /\ rest' = <<>>
  /\ plain' = FALSE
  /\ UNCHANGED <<called, dead, asked, begun, adds, calls, emptied>>

Lock ==
  /\ Turn
  /\ l' = lock(l)
  /\ rest' = IF l'.alive THEN rest ELSE <<>>
  /\ plain' = FALSE
  /\ UNCHANGED <<called, dead, asked, begun, adds, calls, emptied>>

Fire(d) ==
  /\ Turn
  /\ Len(asked) < MaxFires
  /\ l' = fireWith(l, d)
  /\ asked' = IF l' = l THEN asked ELSE Append(asked, d)
  /\ IF l' # l /\ ~l.firing
     THEN rest' = l.list /\ begun' = begun + 1
     ELSE UNCHANGED <<rest, begun>>
  /\ UNCHANGED <<called, dead, adds, calls, plain, emptied>>

(***************************************************************************)
(* The loop.                                                               *)
(***************************************************************************)

Looping == l.firing /\ ~called /\ ~dead

Call ==
  /\ Looping /\ ~AtEnd(l)
  /\ called' = TRUE
  /\ calls' = [calls EXCEPT ![l.list[l.index + 1]] = @ + 1]
  /\ rest' = IF rest = <<>> THEN rest ELSE Tail(rest)
  /\ UNCHANGED <<l, dead, asked, begun, adds, plain, emptied>>

(* The batch is over; that of a waiting fire may begin. *)
NextBatch ==
  /\ emptied' = FALSE
  /\ IF l'.firing THEN rest' = l'.list /\ begun' = begun + 1
                  ELSE rest' = <<>> /\ begun' = begun

Return ==
  /\ called
  /\ called' = FALSE
  /\ l' = AfterCall(l, FALSE)
  /\ UNCHANGED <<dead, history>>

ReturnFalse ==
  /\ called
  /\ l.options.stopOnFalse
  /\ called' = FALSE
  /\ l' = AfterCall(l, TRUE)
  /\ NextBatch
  /\ plain' = FALSE
  /\ UNCHANGED <<dead, asked, adds, calls>>

Throw ==
  /\ MayThrow
  /\ called
  /\ called' = FALSE /\ dead' = TRUE
  /\ rest' = <<>> /\ plain' = FALSE
  /\ UNCHANGED <<l, asked, begun, adds, calls, emptied>>

Finish ==
  /\ Looping /\ AtEnd(l)
  /\ l' = EndFire(l)
  /\ NextBatch
  /\ UNCHANGED <<called, dead, asked, adds, calls, plain>>

Next ==
  \/ \E f \in Fns : Add(f) \/ Remove(f)
  \/ Empty \/ Disable \/ Lock
  \/ \E d \in Data : Fire(d)
  \/ Call \/ Return \/ ReturnFalse \/ Throw \/ Finish

Spec == Init /\ [][Next]_vars

(***************************************************************************)
(* Correctness.                                                            *)
(***************************************************************************)

(* The loop calls what the batch owes, in order and to the end, although its   *)
(* functions add to the list, remove from it and disable it meanwhile.        *)
LoopPaysBatch ==
  IF AtEnd(l) THEN rest = <<>>
  ELSE rest # <<>> /\ l.list[l.index + 1] = Head(rest)

BatchKept == Looping /\ ~emptied => LoopPaysBatch

(* Fires are begun in the order they were asked for, and a function that is    *)
(* added late gets the data of the last one begun.                           *)
FiresInOrder == l.firing => begun > 0 /\ l.data = asked[begun]

(* While the list is idle no fire waits: each was begun. *)
AllFiresBegun == plain /\ ~l.firing => begun = Len(asked)

(* A list that fires once is never fired with a second value: a deferred keeps *)
(* the first.                                                              *)
FiresOnce == l.options.once => Len(asked) <= 1

(* Whoever adds a function to a list that fires once and has memory has it     *)
(* called exactly once, before, during or after the fire.                     *)
ExactlyOnce ==
  l.options.once /\ l.options.memory /\ plain /\ l.fired /\ ~l.firing =>
    calls = adds

(* A list with "unique" holds no function twice. *)
UniqueKept ==
  l.options.unique =>
    \A i, j \in DOMAIN l.list : l.list[i] = l.list[j] => i = j

(* A list calls whom it owes a call: see the parts. *)
ListIsRight ==
  /\ TypeOK /\ BatchKept /\ FiresInOrder /\ AllFiresBegun /\ FiresOnce /\ ExactlyOnce
  /\ UniqueKept

===============================================================================
