-------------------------------- MODULE Events --------------------------------
(***************************************************************************)
(* jQuery's events: the handlers of an element, the listener by which the       *)
(* browser reaches them, and dispatch and trigger, which call them.  The pages  *)
(* bind, unbind and trigger from within handlers.                            *)
(*                                                                         *)
(* The document is a list and an item in it.  A handler of the list may have    *)
(* a selector, by which it is called for the item.  Clicks have a default       *)
(* action, the element's own method, by which the browser sends the event       *)
(* once more.                                                              *)
(***************************************************************************)
EXTENDS Integers, Sequences, FiniteSets

CONSTANTS Types,      \* of events
          Fns,        \* functions of the page
          Namespaces, \* of events, besides the empty one
          Nested,     \* who may send an event in the middle of another: handlers
                      \* that "trigger", the "browser" in a default action
          MaxBinds,   \* bound: calls of on
          MaxOffs,    \* bound: calls of off and remove
          MaxEvents   \* bound: events

EventsAssumption ==
  /\ Types \subseteq {"click", "change"}
  /\ Nested \subseteq {"trigger", "browser"}
  /\ MaxBinds \in Nat /\ MaxOffs \in Nat /\ MaxEvents \in Nat

Nodes == {"item", "list"}
Path(n) == IF n = "item" THEN <<"item", "list">> ELSE <<"list">>
HasDefault(t) == t = "click"
AllNames == Namespaces \cup {""}

(* What is bound: a function, the namespace, whether there is a selector, and   *)
(* whether it is to be called once. *)
Handlers == [fn : Fns, ns : AllNames, sel : BOOLEAN, one : BOOLEAN]
NoHandler == [fn |-> "none", ns |-> "", sel |-> FALSE, one |-> FALSE]

VARIABLES
  events,     \* the handlers of an element, by type, and how many have a selector
  attached,   \* the types for which an element has a listener of the browser's
  triggered,  \* jQuery.event.triggered
  active,     \* the events under way, the innermost last
  ons, offs, sent,  \* bounded: calls of on and of off, and events so far
  ones        \* history: handlers bound by one(), less the calls of such ones

vars == <<events, attached, triggered, active, ons, offs, sent, ones>>

(* An event under way, by trigger ("jq") or by the browser: where it goes yet,   *)
(* the handlers found at the element it has come to, the one that is being       *)
(* called and its element, and where it was stopped. *)
NewEvent(kind, n, t, ns, only) ==
  [kind |-> kind, type |-> t, ns |-> ns, only |-> only, target |-> n, path |-> Path(n),
   node |-> n, groups |-> <<>>, inside |-> NoHandler, elem |-> n,
   stopped |-> "no", prevented |-> FALSE, default |-> FALSE]

Top == active[Len(active)]
SetTop(f) == [active EXCEPT ![Len(active)] = f]
Outer == SubSeq(active, 1, Len(active) - 1)

TypeOK ==
  /\ \A n \in Nodes, t \in Types :
       LET hs == events[n][t]
       IN  hs.list \in Seq(Handlers) /\ hs.delegates \in 0..Len(hs.list)
  /\ attached \in [Nodes -> SUBSET Types]
  /\ triggered \in Types \cup {"none"}
  /\ \A i \in DOMAIN active : active[i].inside \in Handlers \cup {NoHandler}
  /\ ons \in 0..MaxBinds /\ offs \in 0..MaxOffs /\ sent \in 0..MaxEvents /\ ones \in Int

Init ==
  /\ events = [n \in Nodes |-> [t \in Types |-> [list |-> <<>>, delegates |-> 0]]]
  /\ attached = [n \in Nodes |-> {}]
  /\ triggered = "none" /\ active = <<>> /\ ons = 0 /\ offs = 0 /\ sent = 0 /\ ones = 0

(* The page's turn: outside all handlers, or in the innermost one. *)
Turn == active # <<>> => Top.inside # NoHandler

(***************************************************************************)
(* on and off.                                                             *)
(***************************************************************************)

InsertAt(s, i, x) == SubSeq(s, 1, i) \o <<x>> \o SubSeq(s, i + 1, Len(s))

(* Delegates go in front. *)
Added(hs, h) ==
  IF h.sel THEN [list |-> InsertAt(hs.list, hs.delegates, h), delegates |-> hs.delegates + 1]
  ELSE [list |-> Append(hs.list, h), delegates |-> hs.delegates]

(* jQuery.event.add: the first handler brings the browser's listener. *)
On(n, t, h) ==
  /\ Turn
  /\ ons < MaxBinds
  /\ h.sel => n = "list"
  /\ events' = [events EXCEPT ![n][t] = Added(@, h)]
  /\ attached' = [attached EXCEPT ![n] = @ \cup {t}]
  /\ ons' = ons + 1
  /\ ones' = IF h.one THEN ones + 1 ELSE ones
  /\ UNCHANGED <<triggered, active, offs, sent>>

Matches(h, fn, ns, sel) ==
  h.fn = fn /\ (ns = "" \/ h.ns = ns) /\ (sel => h.sel)

Removed(hs, fn, ns, sel) ==
  LET Goes(i) == Matches(hs.list[i], fn, ns, sel)
  IN  [list |-> SelectSeq(hs.list, LAMBDA h : ~Matches(h, fn, ns, sel)),
       delegates |-> hs.delegates -
                       Cardinality({i \in DOMAIN hs.list : Goes(i) /\ hs.list[i].sel})]

(* jQuery.event.remove: the last handler takes the listener along. *)
Remove(n, t, fn, ns, sel) ==
  /\ events' = [events EXCEPT ![n][t] = Removed(@, fn, ns, sel)]
  /\ attached' = [attached EXCEPT ![n] =
                    IF events'[n][t].list = <<>> THEN @ \ {t} ELSE @]

Off(n, t, fn, ns, sel) ==
  /\ Turn
  /\ offs < MaxOffs
  /\ \E i \in DOMAIN events[n][t].list : Matches(events[n][t].list[i], fn, ns, sel)
  /\ Remove(n, t, fn, ns, sel)
  /\ offs' = offs + 1
  /\ UNCHANGED <<triggered, active, ons, sent, ones>>

(* jQuery.cleanData, when the element is removed from the document *)
CleanData(n) ==
  /\ Turn
  /\ offs < MaxOffs
  /\ attached[n] # {}
  /\ events' = [events EXCEPT ![n] = [t \in Types |-> [list |-> <<>>, delegates |-> 0]]]
  /\ attached' = [attached EXCEPT ![n] = {}]
  /\ offs' = offs + 1
  /\ UNCHANGED <<triggered, active, ons, sent, ones>>

(***************************************************************************)
(* Events begin.                                                           *)
(***************************************************************************)

(* trigger and triggerHandler *)
Trigger(n, t, ns, only) ==
  /\ Turn
  /\ active # <<>> => "trigger" \in Nested
  /\ sent < MaxEvents
  /\ active' = Append(active,
       [NewEvent("jq", n, t, ns, only) EXCEPT !.path = IF only THEN <<n>> ELSE @])
  /\ sent' = sent + 1
  /\ UNCHANGED <<events, attached, triggered, ons, offs, ones>>

(* The user's events, and those the browser sends in a default action. *)
BrowserEvent(n, t) ==
  /\ IF active = <<>> THEN TRUE
     ELSE "browser" \in Nested /\ Top.default /\ Top.type # t /\ Top.inside = NoHandler
  /\ sent < MaxEvents
  /\ active' = Append(active, NewEvent("browser", n, t, "", FALSE))
  /\ sent' = sent + 1
  /\ UNCHANGED <<events, attached, triggered, ons, offs, ones>>

(***************************************************************************)
(* Dispatch.                                                               *)
(***************************************************************************)

Group(elem, list) == IF list = <<>> THEN <<>> ELSE <<[elem |-> elem, list |-> list]>>

(* jQuery.event.handlers: a copy of the lists; delegates of the item first. *)
handlers(n, t, target) ==
  LET hs == events[n][t]
  IN  Group("item", IF n # target THEN SubSeq(hs.list, 1, hs.delegates) ELSE <<>>)
      \o Group(n, SubSeq(hs.list, hs.delegates + 1, Len(hs.list)))

AtNode == active # <<>> /\ Top.inside = NoHandler /\ Top.groups # <<>>
Between == active # <<>> /\ Top.inside = NoHandler /\ Top.groups = <<>>

(* The handle of an element: it leaves out what trigger has already bubbled. *)
Reaches(f, n) ==
  /\ triggered # f.type
  /\ IF f.kind = "jq" THEN events[n][f.type].list # <<>> ELSE f.type \in attached[n]

(* The next element of the path. *)
Bubble ==
  LET n == Head(Top.path)
  IN  /\ Between /\ Top.path # <<>>
      /\ active' = SetTop([Top EXCEPT !.path = Tail(@), !.node = n,
                             !.groups = IF Reaches(Top, n)
                                        THEN handlers(n, Top.type, Top.target) ELSE <<>>])
      /\ UNCHANGED <<events, attached, triggered, ons, offs, sent, ones>>

(* What is left of the groups after the first handler of the first one. *)
Rest(groups) == Group(groups[1].elem, Tail(groups[1].list)) \o Tail(groups)

(* A handler of another namespace is passed over. *)
PassOver ==
  LET h == Head(Top.groups[1].list)
  IN  /\ AtNode
      /\ Top.ns # "" /\ h.ns # Top.ns
      /\ active' = SetTop([Top EXCEPT !.groups = Rest(@)])
      /\ UNCHANGED <<events, attached, triggered, ons, offs, sent, ones>>

(* A handler is called; that of one() is taken away first, with all that are    *)
(* bound to the same function, type and namespace. *)
Call ==
  LET h == Head(Top.groups[1].list)
  IN  /\ AtNode
      /\ Top.ns = "" \/ h.ns = Top.ns
      /\ active' = SetTop([Top EXCEPT !.groups = Rest(@), !.inside = h,
                             !.elem = Top.groups[1].elem])
      /\ IF h.one THEN Remove(Top.node, Top.type, h.fn, h.ns, h.sel)
         ELSE UNCHANGED <<events, attached>>
      /\ ones' = IF h.one THEN ones - 1 ELSE ones
      /\ UNCHANGED <<triggered, ons, offs, sent>>

Results == {"nothing", "prevent", "stop", "false", "immediate"}

(* Variant: handlers of other elements that were found before are called. *)
ReturnGoingOn(result) ==
  LET stops == result \in {"stop", "false", "immediate"}
  IN  /\ active # <<>> /\ Top.inside # NoHandler
      /\ active' = SetTop([Top EXCEPT
           !.inside = NoHandler,
           !.stopped = IF stops THEN Top.elem ELSE @,
           !.prevented = @ \/ result \in {"prevent", "false"},
           !.path = IF stops THEN <<>> ELSE @])
      /\ UNCHANGED <<events, attached, triggered, ons, offs, sent, ones>>

(* It returns, or it has called a method of the event.  stopPropagation leaves   *)
(* the handlers of the same element to be called. *)
Return(result) ==
  LET stops == result \in {"stop", "false", "immediate"}
      same == IF Top.groups # <<>> /\ Top.groups[1].elem = Top.elem
              THEN <<Top.groups[1]>> ELSE <<>>
  IN  /\ active # <<>> /\ Top.inside # NoHandler
      /\ active' = SetTop([Top EXCEPT
           !.inside = NoHandler,
           !.stopped = IF stops THEN Top.elem ELSE @,
           !.prevented = @ \/ result \in {"prevent", "false"},
           !.groups = IF result = "immediate" THEN <<>> ELSE IF stops THEN same ELSE @,
           !.path = IF stops THEN <<>> ELSE @])
      /\ UNCHANGED <<events, attached, triggered, ons, offs, sent, ones>>

(* The event is over.  After a triggered one comes the default action, in which  *)
(* the browser's event of the same type is to be left out. *)
End ==
  /\ Between /\ Top.path = <<>>
  /\ IF Top.kind = "jq" /\ ~Top.only /\ ~Top.prevented /\ HasDefault(Top.type)
     THEN /\ triggered' = Top.type
          /\ active' = SetTop([NewEvent("browser", Top.target, Top.type, "", FALSE)
                                 EXCEPT !.default = TRUE])
     ELSE /\ active' = Outer
          /\ triggered' = IF Top.default THEN "none" ELSE triggered
  /\ UNCHANGED <<events, attached, ons, offs, sent, ones>>

Next ==
  \/ \E n \in Nodes, t \in Types :
       \/ \E h \in Handlers : On(n, t, h)
       \/ \E fn \in Fns, ns \in AllNames, sel \in BOOLEAN : Off(n, t, fn, ns, sel)
       \/ \E ns \in AllNames, only \in BOOLEAN : Trigger(n, t, ns, only)
       \/ BrowserEvent(n, t)
  \/ \E n \in Nodes : CleanData(n)
  \/ \E result \in Results : Return(result)
  \/ Bubble \/ PassOver \/ Call \/ End

Spec == Init /\ [][Next]_vars

(***************************************************************************)
(* Correctness.                                                            *)
(***************************************************************************)

(* dispatch takes the first handlers of a list for those with a selector: they  *)
(* are, whatever is bound and unbound in between.                            *)
DelegatesFirst ==
  \A n \in Nodes, t \in Types :
    LET hs == events[n][t]
    IN  \A i \in DOMAIN hs.list : hs.list[i].sel <=> i <= hs.delegates

(* The browser reaches an element for the types it has handlers for, and no      *)
(* listener is left behind when they are gone.                               *)
ListenersMatch ==
  \A n \in Nodes, t \in Types : t \in attached[n] <=> events[n][t].list # <<>>

(* "Prevent re-triggering of the same event, since we already bubbled it above": *)
(* the browser's copy of a triggered event calls no handler.                    *)
CopyIsLeftOut ==
  \A i \in DOMAIN active : active[i].default => active[i].inside = NoHandler

(* Outside of all events the browser's next one is listened to. *)
NothingLeftOut == active = <<>> => triggered = "none"

(* A function given to one() is called once, although handlers are bound and     *)
(* unbound while events are under way. *)
OneIsCalledOnce == ones >= 0

(* A handler that stops an event stops the handlers of all other elements, those *)
(* that were found before it was called included. *)
StopsForOthers ==
  \A i \in DOMAIN active :
    active[i].inside # NoHandler /\ active[i].stopped # "no" =>
      active[i].elem = active[i].stopped

(* The handlers of an element and those that are called are right: see the parts.  *)
(* A browser that sends another event in a default action makes jQuery forget that *)
(* the copy is to be left out, and a trigger within a handler may call one of      *)
(* one() again.                                                             *)
EventsAreRight ==
  /\ TypeOK /\ DelegatesFirst /\ ListenersMatch /\ NothingLeftOut /\ StopsForOthers
  /\ "browser" \notin Nested => CopyIsLeftOut
  /\ Nested = {} => OneIsCalledOnce

===============================================================================
