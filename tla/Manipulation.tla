------------------------------ MODULE Manipulation ------------------------------
(***************************************************************************)
(* jQuery's DOM manipulation: append, prepend, before, after and replaceWith all go     *)
(* through domManip.  It collects the content in a fragment, gives every target but the  *)
(* last a clone of it, and evaluates the scripts that have got into the document for      *)
(* the first time; the type of the scripts is masked meanwhile, so that the browser      *)
(* does not, and what has been evaluated is remembered in the data of the scripts.        *)
(*                                                                         *)
(* 0 is the document; the fragment is a node as well.                                *)
(***************************************************************************)
EXTENDS Integers, Sequences, SequencesExt, FiniteSets

CONSTANTS
  MaxNode,   \* bound: nodes are 1..MaxNode, 0 and the fragment
  Page,      \* what the page begins with: functions from nodes to their children
  Scripts,   \* of these nodes, the scripts
  Html,      \* the trees html may stand for: sequences of "div" and "script" in a div
  Targets,   \* sequences of nodes that operations are called on
  Contents,  \* sequences of nodes that are inserted
  Methods,   \* of "append", "prepend", "before", "after", "replaceWith"
  MaxOps     \* bound

Fragment == -1
None == -2
Nodes == 1..MaxNode

ManipulationAssumption ==
  /\ DOMAIN Page \subseteq Nodes \cup {0} /\ 0 \in DOMAIN Page
  /\ Methods \subseteq {"append", "prepend", "before", "after", "replaceWith"}
  /\ \A t \in Targets : IsInjective(t)
  /\ \A c \in Contents : IsInjective(c)

VARIABLES
  childNodes,  \* of all nodes
  used,        \* the number of nodes there are
  scripts,     \* the nodes that are scripts
  masked, globalEval,             \* scripts
  evaluations, copies, forgotten, \* how often they ran; history
  op, ops                         \* the operation that goes on; bound

vars == <<childNodes, used, scripts, masked, globalEval, evaluations, copies, forgotten, op, ops>>

Idle == [method |-> "none", set |-> <<>>, content |-> <<>>, i |-> 0, hasScripts |-> <<>>, args |-> <<>>,
         made |-> <<>>]

(***************************************************************************)
(* Trees                                                                   *)
(***************************************************************************)

ParentIn(kids, n) ==
  LET above == {p \in DOMAIN kids : n \in ToSet(kids[p])}
  IN  IF above = {} THEN None ELSE CHOOSE p \in above : TRUE

(* The node and all below it, in document order: getAll *)
RECURSIVE Tree(_, _)
Tree(kids, n) == <<n>> \o FlattenSeq([k \in DOMAIN kids[n] |-> Tree(kids, kids[n][k])])
Trees(kids, list) == FlattenSeq([k \in DOMAIN list |-> Tree(kids, list[k])])
Below(kids, n) == ToSet(Tree(kids, n))

RemoveFrom(kids, gone) ==
  LET Stays(n) == n \notin gone
  IN  [p \in DOMAIN kids |-> SelectSeq(kids[p], Stays)]

(* insertBefore; next is None for the end *)
InsertBefore(kids, p, list, next) ==
  LET freed == RemoveFrom(kids, ToSet(list))
      k == IF next = None THEN Len(freed[p]) + 1 ELSE CHOOSE j \in DOMAIN freed[p] : freed[p][j] = next
  IN  [freed EXCEPT ![p] = SubSeq(@, 1, k - 1) \o list \o SubSeq(@, k, Len(@))]

NextSibling(kids, n) ==
  LET p == ParentIn(kids, n)
      k == CHOOSE j \in DOMAIN kids[p] : kids[p][j] = n
  IN  IF p = None \/ k = Len(kids[p]) THEN None ELSE kids[p][k + 1]

InDocument(n) == n \in Below(childNodes, 0)

Init ==
  /\ childNodes = [n \in Nodes \cup {0, Fragment} |-> IF n \in DOMAIN Page THEN Page[n] ELSE <<>>]
  /\ used = Cardinality(DOMAIN Page) - 1
  /\ scripts = Scripts /\ masked = {} /\ globalEval = {}
  /\ evaluations = [n \in Nodes |-> IF n \in Scripts /\ InDocument(n) THEN 1 ELSE 0]
  /\ copies = {} /\ forgotten = {} /\ op = Idle /\ ops = 0

TypeOK ==
  /\ used \in 0..MaxNode /\ scripts \subseteq 1..used
  /\ masked \subseteq scripts /\ globalEval \subseteq scripts
  /\ \A n \in 1..used : Cardinality({p \in DOMAIN childNodes : n \in ToSet(childNodes[p])}) <= 1
  /\ op.i \in 0..Len(op.set)

(***************************************************************************)
(* The beginning of domManip                                                *)
(***************************************************************************)

(* What html is made into: new nodes from used + 1 on *)
NewKids(html) ==
  [n \in DOMAIN childNodes |-> IF html = "script" /\ n = used + 1 THEN <<used + 2>> ELSE childNodes[n]]
NewCount(html) == IF html = "script" THEN 2 ELSE 1

(* buildFragment puts the content into the fragment.  Scripts that were in the document      *)
(* have been evaluated.                                                          *)
Build(kids, content, selection) ==
  LET Taken(n) == n \notin selection
      nodes == SelectSeq(content, Taken)
      history == {n \in scripts : n \in Below(kids, 0) /\ \E k \in DOMAIN nodes : n \in Below(kids, nodes[k])}
  IN  [kids |-> [RemoveFrom(kids, ToSet(nodes)) EXCEPT ![Fragment] = nodes], evaluated |-> history]

(* domManip up to the first target.  replaceWith has noted where the targets are. *)
Begin(method, set, content, kids, count, newScripts) ==
  LET built == Build(kids, content, IF method = "replaceWith" THEN {} ELSE ToSet(set))
      nodes == built.kids[Fragment]
      IsScript(n) == n \in scripts \cup newScripts
      found == SelectSeq(Trees(built.kids, nodes), IsScript)
      args == [k \in DOMAIN set |-> [next |-> NextSibling(childNodes, set[k]), parent |-> ParentIn(childNodes, set[k])]]
  IN  /\ childNodes' = built.kids
      /\ used' = used + count /\ scripts' = scripts \cup newScripts
      /\ globalEval' = globalEval \cup built.evaluated
      /\ masked' = ToSet(found)
      /\ op' = IF nodes = <<>> THEN Idle
               ELSE [method |-> method, set |-> set, content |-> nodes, i |-> 0, hasScripts |-> found,
                     args |-> args, made |-> <<>>]
      /\ ops' = ops + 1
      /\ UNCHANGED <<evaluations, copies, forgotten>>

(* No target is in what is inserted, and no node of this in another. *)
Fits(method, set, content) ==
  /\ \A a \in ToSet(content), b \in ToSet(set) : b \in Below(childNodes, a) => a = b
  /\ \A a, b \in ToSet(content) : b \in Below(childNodes, a) => a = b
  /\ method = "replaceWith" => \A a, b \in ToSet(set) : b \in Below(childNodes, a) => a = b

(* What an operation has left in its fragment is the target of none: every operation has a    *)
(* fragment of its own.                                                          *)
Reachable(set) == \A t \in ToSet(set) : t <= used /\ ParentIn(childNodes, t) # Fragment

(* Nodes are inserted. *)
Insert(method, set, content) ==
  /\ op = Idle /\ ops < MaxOps
  /\ Fits(method, set, content) /\ Reachable(set)
  /\ Begin(method, set, content, childNodes, 0, {})

(* Html is inserted. *)
InsertHtml(method, set, html) ==
  /\ op = Idle /\ ops < MaxOps /\ used + NewCount(html) <= MaxNode /\ Reachable(set)
  /\ Begin(method, set, <<used + 1>>, NewKids(html), NewCount(html),
           IF html = "script" THEN {used + 2} ELSE {})

(***************************************************************************)
(* The targets                                                             *)
(***************************************************************************)

(* jQuery.clone(node, true, true): copies of the nodes in the fragment, with their data *)
CopyOf(n, order) == used + (CHOOSE k \in DOMAIN order : order[k] = n)
CopyAll(list, order) == [k \in DOMAIN list |-> CopyOf(list[k], order)]
CopyKids(order) ==
  [n \in DOMAIN childNodes |-> IF n \in used + 1..used + Len(order)
                               THEN CopyAll(childNodes[order[n - used]], order) ELSE childNodes[n]]
CopySet(S, order) == S \cup {CopyOf(n, order) : n \in S \cap ToSet(order)}

(* The original goes to the last target. *)
IsOriginal == op.i + 1 = Len(op.set)

(* What is inserted for the next target, and the trees with the copies *)
Node ==
  LET order == Trees(childNodes, op.content)
  IN  IF IsOriginal THEN [list |-> op.content, kids |-> childNodes, order |-> <<>>]
      ELSE [list |-> CopyAll(op.content, order), kids |-> CopyKids(order), order |-> order]

Copied(order) ==
  /\ used' = used + Len(order)
  /\ scripts' = CopySet(scripts, order) /\ masked' = CopySet(masked, order)
  /\ copies' = copies \cup (used + 1..used + Len(order))

Placed(list, kids) ==
  /\ childNodes' = kids
  /\ op' = [op EXCEPT !.i = @ + 1, !.made = Append(@, list)]

(* The callbacks of append and prepend *)
Inside ==
  LET node == Node t == op.set[op.i + 1]
      next == IF op.method = "append" \/ node.kids[t] = <<>> THEN None ELSE Head(node.kids[t])
  IN  /\ op.method \in {"append", "prepend"} /\ op.i < Len(op.set)
      /\ used + Len(node.order) <= MaxNode
      /\ Placed(node.list, InsertBefore(node.kids, t, node.list, next))
      /\ Copied(node.order)
      /\ globalEval' = CopySet(globalEval, node.order)
      /\ UNCHANGED <<evaluations, forgotten, ops>>

(* Of before and after: a target without a parent gets nothing. *)
Beside ==
  LET node == Node t == op.set[op.i + 1] p == ParentIn(childNodes, t)
      next == IF op.method = "before" THEN t ELSE NextSibling(childNodes, t)
  IN  /\ op.method \in {"before", "after"} /\ op.i < Len(op.set)
      /\ used + Len(node.order) <= MaxNode
      /\ IF p = None THEN Placed(<<>>, node.kids)
         ELSE Placed(node.list, InsertBefore(node.kids, p, node.list, next))
      /\ Copied(node.order)
      /\ globalEval' = CopySet(globalEval, node.order)
      /\ UNCHANGED <<evaluations, forgotten, ops>>

(* Of replaceWith: the target is removed with its data.  What is in the fragment of several   *)
(* nodes by then is inserted; a single node is inserted wherever it is.                   *)
Replace ==
  LET node == Node t == op.set[op.i + 1] args == op.args[op.i + 1]
      moved == args.next # None /\ ParentIn(childNodes, args.next) # args.parent
      next == IF moved THEN NextSibling(childNodes, t) ELSE args.next
      removed == RemoveFrom(node.kids, {t})
      Stays(n) == n # t
      list == IF Len(node.list) > 1 THEN SelectSeq(node.list, Stays) ELSE node.list
      cleaned == Below(childNodes, t)
  IN  /\ op.method = "replaceWith" /\ op.i < Len(op.set)
      /\ used + Len(node.order) <= MaxNode
      /\ next = None \/ ParentIn(removed, next) = args.parent \* or insertBefore fails
      /\ IF args.parent = None THEN Placed(<<>>, node.kids) /\ globalEval' = CopySet(globalEval, node.order)
         ELSE /\ Placed(node.list, InsertBefore(removed, args.parent, list, next))
              /\ globalEval' = CopySet(globalEval, node.order) \ cleaned
      /\ Copied(node.order)
      /\ forgotten' = IF args.parent = None \/ t \in ToSet(op.content) THEN forgotten ELSE forgotten \cup cleaned
      /\ UNCHANGED <<evaluations, ops>>

(***************************************************************************)
(* The scripts                                                             *)
(***************************************************************************)

(* The types get their values back, and those of the originals that are in the document now   *)
(* and have not been evaluated are.                                                *)
RunScripts ==
  LET runs == {n \in ToSet(op.hasScripts) : n \notin globalEval /\ InDocument(n)}
  IN  /\ op # Idle /\ op.i = Len(op.set)
      /\ masked' = {}
      /\ evaluations' = [n \in Nodes |-> IF n \in runs THEN evaluations[n] + 1 ELSE evaluations[n]]
      /\ op' = Idle
      /\ UNCHANGED <<childNodes, used, scripts, globalEval, copies, forgotten, ops>>

(***************************************************************************)
(* Other operations                                                        *)
(***************************************************************************)

(* Variant: what has been evaluated is not remembered. *)
DetachForgetting(n) ==
  /\ op = Idle /\ ops < MaxOps /\ ParentIn(childNodes, n) # None
  /\ childNodes' = RemoveFrom(childNodes, {n})
  /\ ops' = ops + 1
  /\ UNCHANGED <<used, scripts, masked, globalEval, evaluations, copies, forgotten, op>>

(* remove(selector, true) *)
Detach(n) ==
  /\ op = Idle /\ ops < MaxOps /\ ParentIn(childNodes, n) # None
  /\ globalEval' = IF InDocument(n) THEN globalEval \cup (Below(childNodes, n) \cap scripts) ELSE globalEval
  /\ childNodes' = RemoveFrom(childNodes, {n})
  /\ ops' = ops + 1
  /\ UNCHANGED <<used, scripts, masked, evaluations, copies, forgotten, op>>

RemoveNode(n) ==
  /\ op = Idle /\ ops < MaxOps /\ ParentIn(childNodes, n) # None
  /\ globalEval' = globalEval \ Below(childNodes, n)
  /\ forgotten' = forgotten \cup Below(childNodes, n)
  /\ childNodes' = RemoveFrom(childNodes, {n})
  /\ ops' = ops + 1
  /\ UNCHANGED <<used, scripts, masked, evaluations, copies, op>>

Empty(n) ==
  LET below == Below(childNodes, n) \ {n}
  IN  /\ op = Idle /\ ops < MaxOps /\ childNodes[n] # <<>>
      /\ globalEval' = globalEval \ below
      /\ forgotten' = forgotten \cup below
      /\ childNodes' = [childNodes EXCEPT ![n] = <<>>]
      /\ ops' = ops + 1
      /\ UNCHANGED <<used, scripts, masked, evaluations, copies, op>>

(* html(value) for one element: the children are removed with their data; innerHTML, or      *)
(* append where there are scripts.                                                *)
SetHtml(n, html) ==
  LET below == Below(childNodes, n) \ {n}
      emptied == [NewKids(html) EXCEPT ![n] = <<>>]
  IN  /\ op = Idle /\ ops < MaxOps /\ used + NewCount(html) <= MaxNode
      /\ used' = used + NewCount(html) /\ ops' = ops + 1
      /\ globalEval' = globalEval \ below
      /\ forgotten' = forgotten \cup below
      /\ IF html = "script"
         THEN /\ childNodes' = [emptied EXCEPT ![Fragment] = <<used + 1>>]
              /\ scripts' = scripts \cup {used + 2} /\ masked' = {used + 2}
              /\ op' = [Idle EXCEPT !.method = "append", !.set = <<n>>, !.content = <<used + 1>>,
                                    !.hasScripts = <<used + 2>>]
         ELSE /\ childNodes' = [emptied EXCEPT ![n] = <<used + 1>>]
              /\ UNCHANGED <<scripts, masked, op>>
      /\ UNCHANGED <<evaluations, copies>>

Next ==
  \/ \E method \in Methods, set \in Targets : \E content \in Contents : Insert(method, set, content)
  \/ \E method \in Methods, set \in Targets, html \in Html : InsertHtml(method, set, html)
  \/ Inside \/ Beside \/ Replace \/ RunScripts
  \/ \E n \in DOMAIN Page \ {0} : Detach(n) \/ RemoveNode(n) \/ Empty(n) \/ \E html \in Html : SetHtml(n, html)

Spec == Init /\ [][Next]_vars

(***************************************************************************)
(* Correctness.                                                            *)
(***************************************************************************)

(* domManip leaves no script masked, clones included. *)
NoneMasked == op = Idle => masked = {}

(* A script is evaluated once, whatever it is moved, detached and copied afterwards, unless the *)
(* page removes it with its data.                                                *)
EvaluatedOnce == \A n \in scripts \ forgotten : evaluations[n] <= 1

(* Scripts that are in the document have been evaluated, but for copies made for several    *)
(* targets.                                                                  *)
EvaluatedInPage == op = Idle => \A n \in scripts \ copies : InDocument(n) => evaluations[n] >= 1

(* When all targets have been served, each has its own copy of the content in one piece at its *)
(* place, and the last one the content itself.                                         *)
EachHasContent ==
  op # Idle /\ op.i = Len(op.set) =>
    \A k \in DOMAIN op.set :
      LET t == op.set[k] made == op.made[k]
          p == IF op.method \in {"append", "prepend"} THEN t
               ELSE IF op.method = "replaceWith" THEN op.args[k].parent ELSE ParentIn(childNodes, t)
          at(j) == SubSeq(childNodes[p], j, j + Len(made) - 1) = made
      IN  /\ k = Len(op.set) /\ made # <<>> => made = op.content
          /\ made # <<>> => \E j \in DOMAIN childNodes[p] :
               /\ at(j)
               /\ CASE op.method = "append" -> j + Len(made) - 1 = Len(childNodes[p])
                    [] op.method = "prepend" -> j = 1
                    [] op.method = "before" -> childNodes[p][j + Len(made)] = t
                    [] op.method = "after" -> j > 1 /\ childNodes[p][j - 1] = t
                    [] op.method = "replaceWith" -> t \in ToSet(made) \/ t \notin ToSet(childNodes[p])

(* Content and scripts are where they should be. *)
ContentIsRight ==
  TypeOK /\ NoneMasked /\ EvaluatedOnce /\ EvaluatedInPage /\ EachHasContent

===============================================================================
