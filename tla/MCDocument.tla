----------------------------- MODULE MCDocument -----------------------------
(***************************************************************************)
(* The document of a page, for TLC: jQuery's selectors, the counting of children,  *)
(* the order of what is found, positions, the insertion of content and the cache   *)
(* of what belongs to an element; and the list of bits that the file set input      *)
(* keeps in it.  They share no state, so each behaviour is one of a single           *)
(* component, which "part" names; they take turns to use v1 .. v10.               *)
(***************************************************************************)
EXTENDS Integers, Sequences, TLC

CONSTANTS Owners   \* of data

VARIABLES part, v1, v2, v3, v4, v5, v6, v7, v8, v9, v10

Idle == "idle"
everything == <<part, v1, v2, v3, v4, v5, v6, v7, v8, v9, v10>>

(* The elements are not told apart. *)
Symmetry == Permutations(Owners)

(***************************************************************************)
(* Selectors: documents with a root and three elements below it, in document      *)
(* order, and queries of two kinds.                                          *)
(***************************************************************************)

Trees ==
  {f \in [1..4 -> 0..3] :
     /\ f[1] = 0
     /\ \A e \in 2..4 : f[e] \in 1..(e - 1)
     /\ \A e \in 3..4 : \/ f[e] \in {e - 1, f[e - 1]}
                        \/ f[e - 1] # 0 /\ f[e] = f[f[e - 1]]
                        \/ f[e - 1] # 0 /\ f[f[e - 1]] # 0 /\ f[e] = f[f[f[e - 1]]]}
DocumentsOf(nested) ==
  {[parent |-> f, p |-> ps, flags |-> fl] :
     f \in Trees, ps \in {2..4, {3, 4}}, fl \in IF nested THEN {{4}, {2, 3}} ELSE {{}}}

Query(compounds, combinators) == [compounds |-> compounds, combinators |-> combinators]
P == <<"p">>
Cls == <<"cls">>
Each == <<>>

(* .cls p   .cls > x p   .cls ~ p   .cls p + x   p ~ .cls x   .cls x, .cls ~ p *)
Walking ==
  {<<Query(<<Cls, P>>, <<" ">>)>>, <<Query(<<Cls, Each, P>>, <<">", " ">>)>>,
   <<Query(<<Cls, P>>, <<"~">>)>>, <<Query(<<Cls, P, Each>>, <<" ", "+">>)>>,
   <<Query(<<P, Cls, Each>>, <<"~", " ">>)>>,
   <<Query(<<Cls, Each>>, <<" ">>), Query(<<Cls, P>>, <<"~">>)>>}
(* :not(.cls x) p   .cls p:not(.cls x) ~ x   p:has(:flag) ~ x   :has(:flag) p   and a group *)
Nesting ==
  {<<Query(<<<<"not">>, P>>, <<" ">>)>>, <<Query(<<Cls, <<"p", "not">>, Each>>, <<"~", "~">>)>>,
   <<Query(<<<<"p", "has">>, Each>>, <<"~">>)>>, <<Query(<<<<"has">>, P>>, <<" ">>)>>,
   <<Query(<<Cls, <<"not">>, Each>>, <<">", " ">>), Query(<<<<"has">>, P>>, <<">">>)>>}

(***************************************************************************)
(* NthChild: 2 and -n+2 in two runs; the other arguments and filters in one.      *)
(***************************************************************************)

Linear(n, sign, x, y) == [form |-> "linear", n |-> n, sign |-> sign, x |-> x, y |-> y]
Omitted == -1
NodeNames(twice) ==
  IF twice THEN [n1 |-> "p", n2 |-> "p", n3 |-> "#text"]
  ELSE [n1 |-> "p", n2 |-> "a", n3 |-> "p"]
CountArguments(twice) ==
  IF twice THEN {Linear(FALSE, 1, 0, 2), Linear(TRUE, -1, Omitted, 2)}
  ELSE {[form |-> "none"], [form |-> "even"], Linear(TRUE, 1, Omitted, -1),
        Linear(TRUE, -1, 2, 3)}

(***************************************************************************)
(* DocumentOrder: <1><2/><3/></1> in the document and one other tree or two, or      *)
(* <1><2><3/><4/></2><5/></1> and one other node.                                *)
(***************************************************************************)

Small == 0 :> -1 @@ 1 :> 0 @@ 2 :> 1 @@ 3 :> 1
Forests ==
  {Small @@ 4 :> -1 @@ 5 :> 4 @@ 6 :> 4, Small @@ 4 :> -1 @@ 5 :> 4 @@ 6 :> -1,
   0 :> -1 @@ 1 :> 0 @@ 2 :> 1 @@ 3 :> 2 @@ 4 :> 2 @@ 5 :> 1 @@ 6 :> -1}

(***************************************************************************)
(* Positional: .a:p   :p   .a:p.b   .a:p:q   :p.b:q   .a:p .b   .a:p .b:q          *)
(* and groups; what comes after a position in one of several is only applied to   *)
(* what follows a class.                                                     *)
(***************************************************************************)

C(name) == [type |-> "class", name |-> name]
At(name, argument) == [type |-> "position", name |-> name, argument |-> argument]
In == [type |-> "in"]
Positions ==
  {At("first", 0), At("last", 0), At("eq", 1), At("eq", -2), At("even", 0), At("odd", 0),
   At("lt", 2), At("lt", -1), At("gt", 0), At("gt", -3)}
Groups ==
  {<<t>> : t \in {<<C("a"), p>> : p \in Positions} \cup {<<p>> : p \in Positions}
            \cup {<<C("a"), p, C("b")>> : p \in Positions}
            \cup {<<C("a"), p, q>> : p \in Positions, q \in {At("first", 0), At("gt", 0)}}
            \cup {<<p, C("b"), q>> : p \in Positions, q \in {At("last", 0), At("odd", 0)}}
            \cup {<<C("a"), p, In, C("b")>> : p \in Positions}
            \cup {<<C("a"), p, In, C("b"), q>> :
                    p \in Positions, q \in {At("first", 0), At("gt", 0)}}}
  \cup {<<<<C("b")>>, <<C("a"), p>>>> : p \in Positions}
  \cup {<<<<C("a"), In, C("b")>>, <<p>>, <<C("b"), At("first", 0)>>>> : p \in Positions}
  \cup {<<<<C("a"), p, C("b")>>, <<At("last", 0)>>>> : p \in Positions}
  \cup {<<<<C("a"), p, In, C("b")>>, <<C("a"), At("first", 0)>>, <<C("b")>>>> : p \in Positions}
SomeClasses ==
  {[a |-> x, b |-> y] : x \in {{1, 2, 4}, {2, 3, 5}, 1..5}, y \in {{3, 5}, {1, 2, 5}, {3, 4, 5}}}

(***************************************************************************)
(* Manipulation: <1/> <2><script 3/></2> in the document; <4><script 5/></4>.       *)
(***************************************************************************)

ThePage == 0 :> <<1, 2>> @@ 1 :> <<>> @@ 2 :> <<3>> @@ 3 :> <<>> @@ 4 :> <<5>> @@ 5 :> <<>>
TargetsOf(replaces) == {<<1>>, <<1, 2>>, <<2, 1>>, IF replaces THEN <<2>> ELSE <<4, 1>>}
ContentsOf(replaces) == {<<4>>, <<5, 3>>, <<3>>, IF replaces THEN <<5>> ELSE <<4, 2>>}

SelectPart(nested) == IF nested THEN "nesting" ELSE "walking"
CountPart(twice) == IF twice THEN "twice" ELSE "arguments"
InsertPart(replaces) == IF replaces THEN "replacing" ELSE "inserting"
CachePart(old) == IF old THEN "oldcache" ELSE "cache"

Select(nested) == INSTANCE Selectors WITH
  Documents <- DocumentsOf(nested),
  Classes <- IF nested THEN SUBSET (1..4) ELSE {{1}, {2}, {1, 3}, {2, 3}},
  Queries <- IF nested THEN Nesting ELSE Walking, Contexts <- {0, 2},
  MaxQueries <- IF nested THEN 1 ELSE 2, document <- v1, classed <- v2,
  query <- v3, context <- v4, elems <- v5, results <- v6, sizzle <- v7,
  queries <- v8

Count(twice) == INSTANCE NthChild WITH
  Name <- NodeNames(twice),
  Types <- IF twice THEN {"nth", "nth-last"} ELSE {"first", "only", "nth"},
  Arguments <- CountArguments(twice), MaxRuns <- IF twice THEN 2 ELSE 1,
  childNodes <- v1, dirruns <- v2, outer <- v3, parentCache <- v4,
  cache <- v5, asked <- v6, runs <- v7

Order == INSTANCE DocumentOrder WITH
  Forests <- Forests, Inputs <- UNION {[1..k -> 1..6] : k \in 2..3},
  Supports <- [compare : BOOLEAN, sortStable : BOOLEAN, detectDuplicates : BOOLEAN],
  parentNode <- v1, support <- v2, input <- v3, sorting <- v4, results <- v5,
  hasDuplicate <- v6

Place == INSTANCE Positional WITH
  Parents <- <<0, 1, 2, 1, 4>>, Classes <- SomeClasses, Groups <- Groups,
  Seeds <- {<<0>>, <<>>, <<1, 2, 3, 4, 5>>, <<5, 3, 1>>, <<2, 4>>, <<4, 2, 5, 3>>},
  class <- v1, group <- v2, seed <- v3, results <- v4, unmatched <- v5,
  setMatched <- v6, next <- v7

Insert(replaces) == INSTANCE Manipulation WITH
  MaxNode <- 12, Page <- ThePage, Scripts <- {3, 5},
  Html <- {"div", "script"}, Targets <- TargetsOf(replaces),
  Contents <- ContentsOf(replaces),
  Methods <- IF replaces THEN {"replaceWith"} ELSE {"append", "prepend", "before", "after"},
  MaxOps <- 2, childNodes <- v1, used <- v2, scripts <- v3, masked <- v4,
  globalEval <- v5, evaluations <- v6, copies <- v7, forgotten <- v8,
  op <- v9, ops <- v10

Cache(old) == INSTANCE DataCache WITH
  Elements <- Owners, Types <- IF old THEN {"click"} ELSE {"click", "resize"},
  OldIE <- old, heap <- v1, here <- v2, attr <- v3, read <- v4

Input == INSTANCE FilesetInput WITH
  Names <- {"f"}, MaxBoxes <- 2, MaxBits <- 6, MaxQueue <- 1, s <- v1,
  area <- v2, queue <- v3

ASSUME Assumptions ==
  /\ Input!BoundsAssumption
  /\ Order!OrderAssumption /\ Place!PositionalAssumption
  /\ \A b \in BOOLEAN :
       /\ Select(b)!SelectorsAssumption /\ Count(b)!NthChildAssumption
       /\ Insert(b)!ManipulationAssumption /\ Cache(b)!DataCacheAssumption

Init ==
  \/ \E nested \in BOOLEAN :
       /\ part = SelectPart(nested) /\ Select(nested)!Init
       /\ v9 = Idle /\ v10 = Idle
  \/ \E twice \in BOOLEAN :
       /\ part = CountPart(twice) /\ Count(twice)!Init
       /\ v8 = Idle /\ v9 = Idle /\ v10 = Idle
  \/ /\ part = "order" /\ Order!Init
     /\ v7 = Idle /\ v8 = Idle /\ v9 = Idle /\ v10 = Idle
  \/ /\ part = "place" /\ Place!Init
     /\ v8 = Idle /\ v9 = Idle /\ v10 = Idle
  \/ \E replaces \in BOOLEAN :
       /\ part = InsertPart(replaces) /\ Insert(replaces)!Init
  \/ \E old \in BOOLEAN :
       /\ part = CachePart(old) /\ Cache(old)!Init
       /\ v5 = Idle /\ v6 = Idle /\ v7 = Idle /\ v8 = Idle /\ v9 = Idle
       /\ v10 = Idle
  \/ /\ part = "input" /\ Input!Init
     /\ v4 = Idle /\ v5 = Idle /\ v6 = Idle /\ v7 = Idle /\ v8 = Idle
     /\ v9 = Idle /\ v10 = Idle

(* Steps of a component. *)
OfSelect(nested, A) ==
  /\ part = SelectPart(nested) /\ A
  /\ UNCHANGED <<part, v9, v10>>
OfCount(twice, A) ==
  /\ part = CountPart(twice) /\ A
  /\ UNCHANGED <<part, v8, v9, v10>>
OfOrder(A) == part = "order" /\ A /\ UNCHANGED <<part, v7, v8, v9, v10>>
OfPlace(A) == part = "place" /\ A /\ UNCHANGED <<part, v8, v9, v10>>
OfInsert(replaces, A) == part = InsertPart(replaces) /\ A /\ UNCHANGED part
OfCache(old, A) ==
  /\ part = CachePart(old) /\ A
  /\ UNCHANGED <<part, v5, v6, v7, v8, v9, v10>>
OfInput(A) ==
  part = "input" /\ A /\ UNCHANGED <<part, v4, v5, v6, v7, v8, v9, v10>>

Next ==
  \/ \E nested \in BOOLEAN : OfSelect(nested, Select(nested)!Next)
  \/ \E twice \in BOOLEAN : OfCount(twice, Count(twice)!Next)
  \/ OfOrder(Order!Next)
  \/ OfPlace(Place!Next)
  \/ \E replaces \in BOOLEAN : OfInsert(replaces, Insert(replaces)!Next)
  \/ \E old \in BOOLEAN : OfCache(old, Cache(old)!Next)
  \/ OfInput(Input!Next)

Spec == Init /\ [][Next]_everything

------------------------------------------------------------------------------
(* Selectors!QueryIsRight and NthChild!CountIsRight: a query finds what its selectors *)
(* mean, whatever earlier and nested ones have left in the elements' caches, and an    *)
(* index that was kept is right when it is used.                                       *)
QueryIsRight ==
    \A b \in BOOLEAN : /\ part = SelectPart(b) => Select(b)!QueryIsRight
                       /\ part = CountPart(b) => Count(b)!CountIsRight

(* DocumentOrder!OrderIsRight: the list is in document order, each element once. *)
OrderIsRight == part = "order" => Order!OrderIsRight

(* Positional!PositionsAreRight: positions count as the selectors are read. *)
PositionsAreRight == part = "place" => Place!PositionsAreRight

(* Manipulation!ContentIsRight: content is at its place, and a script runs once. *)
ContentIsRight == \A b \in BOOLEAN : part = InsertPart(b) => Insert(b)!ContentIsRight

(* DataCache!CacheIsSound: the cache and the elements agree. *)
CacheIsSound == \A b \in BOOLEAN : part = CachePart(b) => Cache(b)!CacheIsSound

(* FilesetInput!InputIsSound: there is a place to type, and the page and the         *)
(* property agree. *)
InputIsSound == part = "input" => Input!InputIsSound
==============================================================================
