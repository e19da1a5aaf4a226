------------------------------- MODULE NthChild -------------------------------
(***************************************************************************)
(* Sizzle's filter for :first-child, :nth-last-child(2n+1), :only-of-type and the    *)
(* like.  :nth-child keeps at the parent where the last element it was asked for     *)
(* stands, and goes on from there; :nth-last-child keeps the count at every element    *)
(* it passes.  What is kept is good for one run (dirruns); nested selectors have runs   *)
(* of their own in between.                                                      *)
(***************************************************************************)
EXTENDS Integers, Sequences, SequencesExt, FiniteSets

CONSTANTS
  Name,       \* the nodes: their nodeName, "#text" for what is no element
  Types,      \* of "first", "last", "only", "nth", "nth-last"
  Arguments,  \* of the filter: None, or what the expression has caught
  MaxRuns     \* bound

Nodes == DOMAIN Name
None == [form |-> "none"]

NthChildAssumption ==
  /\ Types \subseteq {"first", "last", "only", "nth", "nth-last"}
  /\ \A a \in Arguments : a.form \in {"none", "even", "odd", "linear"}
  /\ MaxRuns \in Nat

VARIABLES
  childNodes,     \* of the parent; the other nodes have none
  dirruns, outer, \* the run, and the one around a nested run or NoRun
  parentCache,    \* outerCache["nth"] of the parent: [run, index, diff]
  cache,          \* outerCache["nth-last"] of the nodes: [run, diff]
  asked,          \* the last call of the filter and what it has answered
  runs            \* bound

vars == <<childNodes, dirruns, outer, parentCache, cache, asked, runs>>

NoRun == -1
Unasked == [type |-> "nth", ofType |-> FALSE, argument |-> None, node |-> CHOOSE n \in Nodes : TRUE,
            answer |-> "error"]
Attached == ToSet(childNodes)
IsElement(n) == Name[n] # "#text"
Position(n) == CHOOSE k \in DOMAIN childNodes : childNodes[k] = n
(* The child at k is one that is counted for the node n. *)
Counts(ofType, n, k) == IF ofType THEN Name[childNodes[k]] = Name[n] ELSE IsElement(childNodes[k])
CountIn(ofType, n, positions) == Cardinality({k \in positions : Counts(ofType, n, k)})
UpTo(n) == 1..Position(n)
DownTo(n) == Position(n)..Len(childNodes)

Init ==
  /\ \E S \in SUBSET Nodes : childNodes \in SetToSeqs(S)
  /\ dirruns = 0 /\ outer = NoRun
  /\ parentCache = [run |-> NoRun, index |-> 0, diff |-> 0]
  /\ cache = [n \in Nodes |-> [run |-> NoRun, diff |-> 0]]
  /\ asked = Unasked /\ runs = 0

TypeOK ==
  /\ Attached \subseteq Nodes /\ IsInjective(childNodes)
  /\ dirruns \in 0..MaxRuns /\ outer \in NoRun..MaxRuns /\ outer < dirruns
  /\ parentCache.index \in 0..Cardinality(Nodes) /\ parentCache.diff \in 0..Cardinality(Nodes)
  /\ \A n \in Nodes : cache[n].diff \in 0..Cardinality(Nodes)
  /\ asked.answer \in {"yes", "no", "error"}

(***************************************************************************)
(* The argument                                                            *)
(***************************************************************************)

Omitted == -1 \* the number before n

(* The x and y of xn+y *)
PreFilter(a) ==
  [first |-> IF a.form = "linear" THEN (IF a.n THEN a.sign * (IF a.x = Omitted THEN 1 ELSE a.x) ELSE 0) ELSE 2,
   last |-> IF a.form = "linear" THEN a.y ELSE IF a.form = "odd" THEN 1 ELSE 0]

IsNth(type) == type \in {"nth", "nth-last"}

(* Sizzle.error *)
Refused(type, a) == IsNth(type) = (a.form = "none")

(* diff === first || diff % first === 0 && diff / first >= 0, after the offset *)
InCycle(count, f) ==
  LET diff == count - f.last
      size == IF f.first < 0 THEN -f.first ELSE f.first
  IN  diff = f.first \/ (IF size = 0 THEN FALSE ELSE diff % size = 0 /\ diff * f.first >= 0)

(***************************************************************************)
(* The filter                                                              *)
(***************************************************************************)

(* No sibling on one side, or on either *)
Simple(type, ofType, n) ==
  /\ type \in {"first", "only"} => CountIn(ofType, n, UpTo(n) \ {Position(n)}) = 0
  /\ type \in {"last", "only"} => CountIn(ofType, n, DownTo(n) \ {Position(n)}) = 0

(* The next of the children is looked at; at the end the search begins once more, at the  *)
(* first.  Positions count from one, nodeIndex from zero; 0 is no node.               *)
RECURSIVE Seek(_, _, _, _, _)
Seek(n, k, nodeIndex, diff, started) ==
  LET found(at, index, d) ==
        IF childNodes[at] = n THEN [index |-> index, diff |-> d] ELSE Seek(n, at, index, d, at = 1 \/ started)
      one(at) == IF IsElement(childNodes[at]) THEN 1 ELSE 0
  IN  IF k # 0 /\ k < Len(childNodes) THEN found(k + 1, nodeIndex + 1, diff + one(k + 1))
      ELSE IF started THEN [index |-> 0, diff |-> 0]
      ELSE found(1, 0, one(1))

Run(type, ofType, a, n, answer) ==
  asked' = [type |-> type, ofType |-> ofType, argument |-> a, node |-> n, answer |-> answer]
Answer(yes) == IF yes THEN "yes" ELSE "no"

(* An expression the filter refuses, an element without a parent, and what is asked      *)
(* without counting                                                             *)
AskSimple(type, ofType, a, n) ==
  LET f == PreFilter(a)
      every == IsNth(type) /\ f.first = 1 /\ f.last = 0
  IN  /\ Refused(type, a) \/ n \notin Attached \/ ~IsNth(type) \/ every
      /\ Run(type, ofType, a, n, IF Refused(type, a) THEN "error"
                                 ELSE Answer(n \in Attached /\ (every \/ Simple(type, ofType, n))))
      /\ UNCHANGED <<childNodes, dirruns, outer, parentCache, cache, runs>>

Counting(type, a, n) ==
  LET f == PreFilter(a)
  IN  ~Refused(type, a) /\ n \in Attached /\ IsNth(type) /\ ~(f.first = 1 /\ f.last = 0)

(* Variant: the index of another run is used. *)
AskNthStale(a, n) ==
  LET from == parentCache
      found == IF from.index = 0 THEN Seek(n, 0, 0, 0, FALSE)
               ELSE Seek(n, from.index + 1, from.index, from.diff, FALSE)
  IN  /\ Counting("nth", a, n)
      /\ parentCache' = [run |-> dirruns, index |-> found.index, diff |-> found.diff]
      /\ Run("nth", FALSE, a, n, Answer(InCycle(found.diff, PreFilter(a))))
      /\ UNCHANGED <<childNodes, dirruns, outer, cache, runs>>

(* :nth-child goes on from the element of the last call. *)
AskNth(a, n) ==
  LET from == IF parentCache.run = dirruns THEN parentCache ELSE [parentCache EXCEPT !.index = 0]
      found == IF from.index = 0 THEN Seek(n, 0, 0, 0, FALSE)
               ELSE Seek(n, from.index + 1, from.index, from.diff, FALSE)
  IN  /\ Counting("nth", a, n)
      /\ parentCache' = [run |-> dirruns, index |-> found.index, diff |-> found.diff]
      /\ Run("nth", FALSE, a, n, Answer(InCycle(found.diff, PreFilter(a))))
      /\ UNCHANGED <<childNodes, dirruns, outer, cache, runs>>

(* :nth-last-child keeps the count of every element on the way. *)
AskNthLast(a, n) ==
  LET known == cache[n].run = dirruns
      diff == IF known THEN cache[n].diff ELSE CountIn(FALSE, n, DownTo(n))
      Met(x) == IsElement(x) /\ x \in Attached /\ Position(x) >= Position(n)
  IN  /\ Counting("nth-last", a, n)
      /\ cache' = IF known THEN cache
                  ELSE [x \in Nodes |-> IF x \in Attached /\ Met(x)
                                        THEN [run |-> dirruns, diff |-> CountIn(FALSE, x, DownTo(x))]
                                        ELSE cache[x]]
      /\ Run("nth-last", FALSE, a, n, Answer(InCycle(diff, PreFilter(a))))
      /\ UNCHANGED <<childNodes, dirruns, outer, parentCache, runs>>

(* Of a type: nothing is kept. *)
AskOfType(type, a, n) ==
  /\ Counting(type, a, n)
  /\ Run(type, TRUE, a, n, Answer(InCycle(CountIn(TRUE, n, IF type = "nth" THEN UpTo(n) ELSE DownTo(n)),
                                          PreFilter(a))))
  /\ UNCHANGED <<childNodes, dirruns, outer, parentCache, cache, runs>>

(***************************************************************************)
(* Runs                                                                    *)
(***************************************************************************)

(* A query, or one from within a query: the end of that gives dirruns its value back. *)
BeginRun ==
  /\ runs < MaxRuns /\ outer = NoRun
  /\ runs' = runs + 1 /\ dirruns' = runs + 1
  /\ outer' \in IF dirruns = 0 THEN {NoRun} ELSE {NoRun, dirruns}
  /\ UNCHANGED <<childNodes, parentCache, cache, asked>>

EndNestedRun ==
  /\ outer # NoRun
  /\ dirruns' = outer /\ outer' = NoRun
  /\ UNCHANGED <<childNodes, parentCache, cache, asked, runs>>

(* The page changes the children, and begins another run. *)
Change(n, k) ==
  /\ runs < MaxRuns /\ outer = NoRun
  /\ childNodes' = IF n \in Attached THEN RemoveAt(childNodes, Position(n)) ELSE InsertAt(childNodes, k, n)
  /\ asked' = Unasked
  /\ runs' = runs + 1 /\ dirruns' = runs + 1
  /\ UNCHANGED <<outer, parentCache, cache>>

Next ==
  \/ \E n \in {x \in Nodes : IsElement(x)}, a \in Arguments :
       /\ dirruns > 0
       /\ \/ \E type \in Types, ofType \in BOOLEAN : AskSimple(type, ofType, a, n)
          \/ "nth" \in Types /\ AskNth(a, n)
          \/ "nth-last" \in Types /\ AskNthLast(a, n)
          \/ \E type \in Types : AskOfType(type, a, n)
  \/ BeginRun \/ EndNestedRun
  \/ \E n \in Nodes : \E k \in 1..(Len(childNodes) + 1) : Change(n, k)

Spec == Init /\ [][Next]_vars

(***************************************************************************)
(* Correctness.                                                            *)
(***************************************************************************)

(* The positions an argument stands for *)
Positions(a) ==
  LET all == 1..Cardinality(Nodes)
  IN  CASE a.form = "even" -> {i \in all : i % 2 = 0}
        [] a.form = "odd" -> {i \in all : i % 2 = 1}
        [] a.form = "linear" /\ ~a.n -> {a.y} \cap all
        [] a.form = "linear" /\ a.n ->
             LET x == IF a.x = Omitted THEN 1 ELSE a.x
             IN  {i \in all : \E k \in 0..(2 * Cardinality(Nodes)) : i = a.sign * x * k + a.y}

(* The filter answers as if it had counted from the first or the last child, in whatever   *)
(* order it is asked, between nested runs and after changes of the page.               *)
AnswerIsMeant ==
  LET n == asked.node
      before == CountIn(asked.ofType, n, UpTo(n))
      after == CountIn(asked.ofType, n, DownTo(n))
      meant == CASE asked.type = "first" -> before = 1
                 [] asked.type = "last" -> after = 1
                 [] asked.type = "only" -> before = 1 /\ after = 1
                 [] asked.type = "nth" -> before \in Positions(asked.argument)
                 [] asked.type = "nth-last" -> after \in Positions(asked.argument)
  IN  asked.answer # "error" => asked.answer = Answer(n \in Attached /\ meant)

(* What is kept for the present run is right.  Only the elements that are children still  *)
(* are asked for.                                                               *)
KeptIsRight ==
  /\ parentCache.run = dirruns =>
       LET k == parentCache.index + 1
       IN  k \in DOMAIN childNodes /\ parentCache.diff = CountIn(FALSE, childNodes[k], 1..k)
  /\ \A n \in Attached : cache[n].run = dirruns => cache[n].diff = CountIn(FALSE, n, DownTo(n))

(* TypeOK, and both. *)
CountIsRight == TypeOK /\ AnswerIsMeant /\ KeptIsRight

===============================================================================
