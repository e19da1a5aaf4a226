------------------------------ MODULE Deferreds -------------------------------
(***************************************************************************)
(* jQuery.Deferred: three CallbackLists and a state.  jQuery.when and then      *)
(* make further deferreds follow the first ones.  Everything runs on one       *)
(* thread, but a function that is called may resolve, notify or extend any      *)
(* deferred, so that the loops of several lists are under way, one inside      *)
(* the other.                                                              *)
(*                                                                         *)
(* In this module "master" is when(first, second) and "next" is first.then     *)
(* with filters that return a value or a promise of second.                  *)
(***************************************************************************)
EXTENDS Integers, Sequences, FiniteSets, CallbackList

CONSTANTS Users,       \* functions of the program
          MaxAdds,     \* bound: functions added by the program
          MaxFires     \* bound: calls of resolve, reject and notify

BoundsAssumption == MaxAdds \in Nat /\ MaxFires \in Nat

Own == {"first", "second"}              \* the deferreds the program resolves
Deferreds == Own \cup {"next", "master"}
Kinds == {"done", "fail", "progress"}
ListOf(action) == CASE action = "resolve" -> "done"
                    [] action = "reject" -> "fail"
                    [] action = "notify" -> "progress"

VARIABLES
  lists,      \* the lists of each deferred
  state,      \* its state
  active,     \* what is under way, the innermost last
  remaining,  \* of when: the subordinates that are not resolved
  wired,      \* have then and when been called?
  follows,    \* a filter of "next" has returned second's promise
  adds, fires \* bounded: calls made by the program

vars == <<lists, state, active, remaining, wired, follows, adds, fires>>

(* What is under way: the loop of a list, which may be inside a call to the    *)
(* program, or a chain of .done().fail().progress().                        *)
Loop(d, k) == [type |-> "loop", dfd |-> d, kind |-> k, inside |-> FALSE, chain |-> <<>>]
Chain(links) == [type |-> "chain", dfd |-> "first", kind |-> "done",
                 inside |-> FALSE, chain |-> links]

(* A function in a list: an internal one, or one of the program. *)
Fn(what, dfd, arg) == [what |-> what, dfd |-> dfd, arg |-> arg]
User(u) == Fn("user", "first", u)
Act(dfd, action) == Fn("act", dfd, action)
Then(action) == Fn("then", "next", action)
Part == Fn("part", "master", "resolve")

OnceMemory == [once |-> TRUE, memory |-> TRUE, unique |-> FALSE, stopOnFalse |-> FALSE]
Memory == [OnceMemory EXCEPT !.once = FALSE]

(* The lists of a new deferred; the first three functions of done and fail     *)
(* set the state, disable the opposite list and lock the progress list.       *)
NewLists(d) ==
  [k \in Kinds |->
     IF k = "progress" THEN NewList(Memory)
     ELSE [NewList(OnceMemory) EXCEPT !.list =
             << Fn("state", d, IF k = "done" THEN "resolved" ELSE "rejected"),
                Fn("disable", d, IF k = "done" THEN "fail" ELSE "done"),
                Fn("lock", d, "progress") >>]]

TypeOK ==
  /\ \A d \in Deferreds, k \in Kinds :
       LET l == lists[d][k]
       IN  /\ l.alive \in BOOLEAN /\ l.firing \in BOOLEAN
           /\ l.memory \in 0..1 /\ l.index \in 0..Len(l.list)
           /\ l.length \in 0..Len(l.list)
  /\ state \in [Deferreds -> {"pending", "resolved", "rejected"}]
  /\ \A i \in DOMAIN active :
       /\ active[i].type \in {"loop", "chain"} /\ active[i].inside \in BOOLEAN
       /\ active[i].dfd \in Deferreds /\ active[i].kind \in Kinds
  /\ follows \in BOOLEAN
  /\ remaining \in 0..2
  /\ wired \subseteq {"next", "master"}
  /\ adds \in 0..MaxAdds /\ fires \in 0..MaxFires

Init ==
  /\ lists = [d \in Deferreds |-> NewLists(d)]
  /\ state = [d \in Deferreds |-> "pending"]
  /\ active = <<>>
  /\ remaining = 2 /\ wired = {} /\ follows = FALSE
  /\ adds = 0 /\ fires = 0

Top == active[Len(active)]

Turn == active # <<>> => Top.inside

Outer == SubSeq(active, 1, Len(active) - 1)

(* The list k of d becomes l in ls; its loop is entered if it has begun. *)
Put(ls, frames, d, k, l) ==
  /\ lists' = [ls EXCEPT ![d][k] = l]
  /\ active' = IF l.firing /\ ~lists[d][k].firing
               THEN Append(frames, Loop(d, k)) ELSE frames

(***************************************************************************)
(* The program's calls, from outside or from within its functions.            *)
(***************************************************************************)

(* done, fail and progress *)
Add(d, k, u) ==
  /\ Turn
  /\ adds < MaxAdds
  /\ Put(lists, active, d, k, add(lists[d][k], User(u)))
  /\ adds' = adds + 1
  /\ UNCHANGED <<state, remaining, wired, follows, fires>>

(* resolve, reject and notify *)
Fire(d, action) ==
  LET k == ListOf(action)
  IN  /\ Turn
      /\ fires < MaxFires
      /\ Put(lists, active, d, k, fireWith(lists[d][k], 1))
      /\ fires' = fires + 1
      /\ UNCHANGED <<state, remaining, wired, follows, adds>>

Link(d, k, f) == [dfd |-> d, kind |-> k, fn |-> f]

(* first.then(...) *)
CallThen ==
  /\ Turn
  /\ "next" \notin wired
  /\ active' = Append(active, Chain(<< Link("first", "done", Then("resolve")),
                                       Link("first", "fail", Then("reject")),
                                       Link("first", "progress", Then("notify")) >>))
  /\ wired' = wired \cup {"next"}
  /\ UNCHANGED <<lists, state, remaining, follows, adds, fires>>

(* What when adds to a subordinate. *)
WhenLinks(d) ==
  << Link(d, "done", Part), Link(d, "fail", Act("master", "reject")),
     Link(d, "progress", Act("master", "notify")) >>

(* when(first, second) *)
CallWhen ==
  /\ Turn
  /\ "master" \notin wired
  /\ active' = Append(active, Chain(WhenLinks("first") \o WhenLinks("second")))
  /\ wired' = wired \cup {"master"}
  /\ UNCHANGED <<lists, state, remaining, follows, adds, fires>>

(***************************************************************************)
(* What is under way.                                                      *)
(***************************************************************************)

Linking == active # <<>> /\ Top.type = "chain"

(* The next link of the chain, or its end. *)
StepChain ==
  /\ Linking
  /\ IF Top.chain = <<>> THEN active' = Outer /\ UNCHANGED lists
     ELSE LET link == Head(Top.chain)
          IN  Put(lists, Append(Outer, [Top EXCEPT !.chain = Tail(@)]),
                  link.dfd, link.kind, add(lists[link.dfd][link.kind], link.fn))
  /\ UNCHANGED <<state, remaining, wired, follows, adds, fires>>

Looping == active # <<>> /\ Top.type = "loop" /\ ~Top.inside

List == lists[Top.dfd][Top.kind]
Current == List.list[List.index + 1]
Calls(what) == Looping /\ ~AtEnd(List) /\ Current.what = what

Returned == [lists EXCEPT ![Top.dfd][Top.kind] = AfterCall(@, FALSE)]

(* An action of d within the call that is under way, which returns after it.   *)
ReturnAndFire(d, action) ==
  Put(Returned, active, d, ListOf(action), fireWith(Returned[d][ListOf(action)], 1))

CallInternal ==
  /\ \/ /\ Calls("state")
        /\ state' = [state EXCEPT ![Top.dfd] = Current.arg]
        /\ lists' = Returned
     \/ /\ Calls("disable")
        /\ lists' = [Returned EXCEPT ![Top.dfd][Current.arg] = disable(@)]
        /\ UNCHANGED state
     \/ /\ Calls("lock")
        /\ lists' = [Returned EXCEPT ![Top.dfd]["progress"] = lock(@)]
        /\ UNCHANGED state
  /\ UNCHANGED <<active, remaining, wired, follows, adds, fires>>

CallUser ==
  /\ Calls("user")
  /\ active' = Append(Outer, [Top EXCEPT !.inside = TRUE])
  /\ UNCHANGED <<lists, state, remaining, wired, follows, adds, fires>>

ReturnUser ==
  /\ active # <<>> /\ Top.inside
  /\ active' = Append(Outer, [Top EXCEPT !.inside = FALSE])
  /\ lists' = Returned
  /\ UNCHANGED <<state, remaining, wired, follows, adds, fires>>

(* reject, notify or resolve of a deferred as a function of another's list. *)
CallAct ==
  /\ Calls("act")
  /\ ReturnAndFire(Current.dfd, Current.arg)
  /\ UNCHANGED <<state, remaining, wired, follows, adds, fires>>

(* Variant: the first subordinate resolves the master. *)
CallPartAtOnce ==
  /\ Calls("part")
  /\ remaining' = remaining - 1
  /\ ReturnAndFire("master", "resolve")
  /\ UNCHANGED <<state, wired, follows, adds, fires>>

(* updateFunc: the last subordinate resolves the master. *)
CallPart ==
  /\ Calls("part")
  /\ remaining' = remaining - 1
  /\ IF remaining = 1 THEN ReturnAndFire("master", "resolve")
     ELSE lists' = Returned /\ UNCHANGED active
  /\ UNCHANGED <<state, wired, follows, adds, fires>>

(* A filter of then: "next" gets what it returned, or follows the promise that  *)
(* it returned.                                                            *)
CallFilter ==
  /\ Calls("then")
  /\ \/ /\ ReturnAndFire("next", Current.arg)
        /\ UNCHANGED follows
     \/ /\ ~follows
        /\ lists' = Returned
        /\ active' = Append(active, Chain(<<
             Link("second", "done", Act("next", "resolve")),
             Link("second", "fail", Act("next", "reject")),
             Link("second", "progress", Act("next", "notify")) >>))
        /\ follows' = TRUE
  /\ UNCHANGED <<state, remaining, wired, adds, fires>>

(* The loop is over, unless a notification waits; what began it goes on. *)
Finish ==
  LET l == EndFire(List)
  IN  /\ Looping /\ AtEnd(List)
      /\ lists' = [lists EXCEPT ![Top.dfd][Top.kind] = l]
      /\ active' = IF l.firing THEN active ELSE Outer
      /\ UNCHANGED <<state, remaining, wired, follows, adds, fires>>

Next ==
  \/ \E d \in Own : \/ \E action \in {"resolve", "reject", "notify"} : Fire(d, action)
  \/ \E d \in Deferreds, k \in Kinds, u \in Users : Add(d, k, u)
  \/ CallThen \/ CallWhen
  \/ StepChain \/ CallInternal \/ CallUser \/ ReturnUser
  \/ CallAct \/ CallPart \/ CallFilter \/ Finish

Spec == Init /\ [][Next]_vars

(***************************************************************************)
(* Correctness.                                                            *)
(***************************************************************************)

Settled(d) == state[d] # "pending"

(* A function of the program finds the deferred in the state it was added for; *)
(* progress functions are not called by what comes after the end.             *)
CalledInState ==
  \A i \in DOMAIN active :
    active[i].inside =>
      CASE active[i].kind = "done" -> state[active[i].dfd] = "resolved"
        [] active[i].kind = "fail" -> state[active[i].dfd] = "rejected"
        [] OTHER -> TRUE

(* Nothing is notified any more once the lists of a settled deferred have come *)
(* to rest: no notification waits, and none is accepted.                      *)
NoLateNotify ==
  \A d \in Deferreds :
    LET l == lists[d]["progress"]
    IN  Settled(d) /\ active = <<>> => fireWith(l, 1) = l /\ l.stack = <<>>

(* "next" is settled with what it follows and not before: first, or the promise   *)
(* of second once a filter has returned it; a progress filter may do so, too.  *)
ThenFollows ==
  /\ Settled("next") => Settled("first") \/ (follows /\ Settled("second"))
  /\ active = <<>> /\ "next" \in wired /\ Settled("first") =>
       (~follows \/ Settled("second") => Settled("next"))
  /\ active = <<>> /\ Settled("next") /\ ~follows => state["next"] = state["first"]

(* when is resolved by the last of its subordinates and rejected by the first  *)
(* that is rejected; its counter agrees with their states.                   *)
WhenWaits ==
  /\ state["master"] = "resolved" => \A d \in Own : state[d] = "resolved"
  /\ state["master"] = "rejected" => \E d \in Own : state[d] = "rejected"
  /\ active = <<>> /\ "master" \in wired =>
       /\ remaining = Cardinality({d \in Own : state[d] # "resolved"})
       /\ (\E d \in Own : state[d] = "rejected") => state["master"] = "rejected"
       /\ (\A d \in Own : state[d] = "resolved") => state["master"] = "resolved"

(* Deferreds are settled as those that they follow: see the parts. *)
DeferredsAreRight == TypeOK /\ CalledInState /\ NoLateNotify /\ ThenFollows /\ WhenWaits

===============================================================================
