------------------------------- MODULE Selectors -------------------------------
(***************************************************************************)
(* Sizzle, the selector engine of jQuery, where the browser's own is of no use:   *)
(* a compiled selector is matched from right to left against every candidate.     *)
(* What a walk to the ancestors or to the siblings has found is kept at the        *)
(* elements, for one run and one combinator: the keys are made from counters that *)
(* nested selectors, those of :not and :has, change as well.                     *)
(*                                                                         *)
(* The elements of a document are numbered in document order; 0 is the document. *)
(***************************************************************************)
EXTENDS Integers, Sequences, SequencesExt, FiniteSets

CONSTANTS
  Documents,  \* [parent, p, flags]: the parents, the elements with tag p, those with a flag
  Classes,    \* what the class may be given to: sets of elements
  Queries,    \* groups of selectors [compounds, combinators]
  Contexts,   \* where the queries begin
  MaxQueries  \* bound

(* A test is a tag, the class, :flag (a pseudo the page has defined), :has(:flag) or  *)
(* :not with ".cls" and a descendant of any tag, which has a combinator.           *)
Tests == {"p", "cls", "flag", "has", "not"}
Combinators == {" ", ">", "~", "+"}

SelectorsAssumption ==
  /\ \A group \in Queries : \A i \in DOMAIN group :
       LET s == group[i]
       IN  /\ Len(s.compounds) = Len(s.combinators) + 1
           /\ \A j \in DOMAIN s.compounds : ToSet(s.compounds[j]) \subseteq Tests
           /\ \A j \in DOMAIN s.combinators : s.combinators[j] \in Combinators
  /\ \A d \in Documents : \A e \in DOMAIN d.parent : d.parent[e] \in 0..(e - 1)
  /\ MaxQueries \in Nat

VARIABLES
  document, classed, \* classed: the elements with the class
  query, context,    \* of the run, <<>> for none
  elems, results,    \* candidates left and matches of the run
  sizzle,            \* Sizzle's variables and what it keeps at the elements
  queries            \* bound

vars == <<document, classed, query, context, elems, results, sizzle, queries>>

Elements == DOMAIN document.parent
Parent(e) == document.parent[e]

RECURSIVE Ancestors(_)
Ancestors(e) == IF e = 0 THEN {} ELSE {Parent(e)} \cup Ancestors(Parent(e))

(* getElementsByTagName("*"), in document order *)
Descendants(e) ==
  LET Below(x) == e \in Ancestors(x)
  IN  SelectSeq([i \in 1..Cardinality(Elements) |-> i], Below)

PreviousSiblings(e) == {x \in 1..(e - 1) : Parent(x) = Parent(e)}

Absent == -1
(* parentNode or previousSibling *)
Step(e, dir) ==
  IF dir = "parentNode" THEN (IF e = 0 THEN Absent ELSE Parent(e))
  ELSE LET before == PreviousSiblings(e)
       IN  IF e = 0 \/ before = {} THEN Absent
           ELSE CHOOSE x \in before : \A y \in before : y <= x
Dir(combinator) == IF combinator \in {" ", ">"} THEN "parentNode" ELSE "previousSibling"

(***************************************************************************)
(* Reference: what a selector means.                                          *)
(***************************************************************************)

RECURSIVE Means(_, _, _, _), Test(_, _)

Test(test, e) ==
  CASE test = "p" -> e \in document.p
    [] test = "cls" -> e \in classed
    [] test = "flag" -> e \in document.flags
    [] test = "has" -> \E x \in document.flags : e \in Ancestors(x)
    [] test = "not" -> \A x \in Ancestors(e) : x \notin classed

(* The first i compounds of s lead to e, the first of them within the context. *)
Means(s, i, e, ctx) ==
  /\ \A j \in DOMAIN s.compounds[i] : Test(s.compounds[i][j], e)
  /\ IF i = 1 THEN ctx \in Ancestors(e)
     ELSE LET c == s.combinators[i - 1]
              from == CASE c = " " -> Ancestors(e) \ {0}
                        [] c = ">" -> {Parent(e)} \ {0}
                        [] c = "~" -> PreviousSiblings(e)
                        [] c = "+" -> {Step(e, "previousSibling")} \ {Absent}
          IN  \E x \in from : Means(s, i - 1, x, ctx)

Selected(group, e, ctx) == \E j \in DOMAIN group : Means(group[j], Len(group[j].compounds), e, ctx)

(***************************************************************************)
(* The variables.  An entry of the cache is [key, data]: data is Found, or the value *)
(* of cachedruns when nothing was found, or Undefined.  A key is dirruns and what    *)
(* stands for doneName.                                                        *)
(***************************************************************************)

Dirs == {"parentNode", "previousSibling"}
Found == -1
Undefined == -2
Key(z, g, j, i) == <<z.dirruns, g, j, i>>
NoEntry == [key |-> <<0, <<>>, 0, 0>>, data |-> Undefined]

Init ==
  /\ document \in Documents /\ classed \in Classes
  /\ query = <<>> /\ context = 0 /\ elems = <<>> /\ results = <<>>
  /\ sizzle = [dirruns |-> 0, fresh |-> 1, cachedruns |-> 0,
               runs |-> [q \in Queries |-> 0], flagRuns |-> 0,
               cache |-> [e \in Elements \cup {0} |-> [d \in Dirs |-> NoEntry]]]
  /\ queries = 0

TypeOK ==
  /\ document \in Documents /\ classed \in Classes
  /\ query \in Queries \cup {<<>>} /\ context \in Elements \cup {0}
  /\ ToSet(elems) \subseteq Elements /\ ToSet(results) \subseteq Elements
  /\ sizzle.dirruns < sizzle.fresh /\ sizzle.cachedruns \in Nat
  /\ \A e \in Elements \cup {0}, d \in Dirs : sizzle.cache[e][d].data >= Undefined

Result(ok, z) == [ok |-> ok, z |-> z]

(***************************************************************************)
(* Matching.  Every operator gets and gives the variables; "ok" is what it returns.  *)
(* "to" is what a walk looks for: the context, an element with the class, or the     *)
(* first i compounds of the selector j of the group g.                            *)
(***************************************************************************)

RECURSIVE Match(_, _, _), Walk(_, _, _, _), TestAll(_, _, _, _), HasFlag(_, _, _, _, _)

ToContext(ctx) == [what |-> "context", ctx |-> ctx, dir |-> "parentNode"]
ToClass == [what |-> "class", dir |-> "parentNode"]
ToCompound(g, j, i, ctx) ==
  [what |-> "compound", g |-> g, j |-> j, i |-> i, ctx |-> ctx, dir |-> Dir(g[j].combinators[i])]

(* The matcher that addCombinator is given *)
Reached(to, e, z) ==
  CASE to.what = "context" -> Result(e = to.ctx, z)
    [] to.what = "class" -> Result(e \in classed, z)
    [] to.what = "compound" -> Match(to, e, z)

(* checkNonElements: only the context may be the document. *)
Stops(to, up) == up = Absent \/ (up = 0 /\ to.what # "context")

(* The element is tried.  A nested run may put an entry of its own into the place of   *)
(* the new one, which then is lost.                                               *)
Noted(to, up, key, tried) ==
  LET mine == tried.z.cache[up][to.dir].key = key
  IN  Result(tried.ok, IF mine THEN [tried.z EXCEPT !.cache[up][to.dir].data =
                                        IF tried.ok THEN Found ELSE tried.z.cachedruns]
                       ELSE tried.z)
Try(to, up, z, key) ==
  Noted(to, up, key,
        Reached(to, up, [z EXCEPT !.cache[up][to.dir] = [key |-> key, data |-> Undefined]]))

(* The matcher of addCombinator for " " and "~": all elements on the way up.  What the *)
(* run has found not to match is passed over; what the same candidate has met before   *)
(* ends the walk.                                                               *)
WalkOn(to, up, key, tried) == IF tried.ok THEN tried ELSE Walk(to, up, tried.z, key)
WalkTo(to, up, z, key) ==
  LET entry == z.cache[up][to.dir]
  IN  CASE Stops(to, up) -> Result(FALSE, z)
        [] ~Stops(to, up) /\ entry.key = key ->
             IF entry.data \in {Found, z.cachedruns} THEN Result(entry.data = Found, z)
             ELSE Walk(to, up, z, key)
        [] OTHER -> WalkOn(to, up, key, Try(to, up, z, key))
Walk(to, e, z, key) == WalkTo(to, Step(e, to.dir), z, key)

(* dirruns of a nested run: a random number is added. *)
NestedRun(z) == [z EXCEPT !.dirruns = z.fresh, !.fresh = @ + 1]

(* :not with ".cls" and a descendant of any tag: the matcher of this selector is called  *)
(* for the element.  It is not an outermost one, and leaves dirruns as it is.          *)
Negated(walked) == Result(~walked.ok, walked.z)
Not(e, z) ==
  LET began == NestedRun(z)
  IN  Negated(Walk(ToClass, e, began, Key(began, <<>>, 0, 1)))

(* superMatcher for the rest of the elements of :has *)
HasMore(rest, e, unique, any, matched) ==
  LET runs == matched.z.flagRuns + 1
  IN  HasFlag(rest, e, unique, any \/ matched.ok,
              [matched.z EXCEPT !.dirruns = unique, !.cachedruns = runs, !.flagRuns = runs])
HasFlag(rest, e, unique, any, z) ==
  IF rest = <<>> THEN Result(any, z)
  ELSE HasMore(Tail(rest), e, unique, any,
               IF Head(rest) \in document.flags
               THEN Walk(ToContext(e), Head(rest), z, Key(z, <<>>, 0, 0)) ELSE Result(FALSE, z))

(* :has(:flag): Sizzle is called with the element as the context. *)
Has(e, z) ==
  LET began == [NestedRun(z) EXCEPT !.cachedruns = z.flagRuns]
  IN  HasFlag(Descendants(e), e, began.dirruns, FALSE, began)

(* elementMatcher: the last of the tests first *)
TestMore(tests, n, e, tested) == IF ~tested.ok THEN tested ELSE TestAll(tests, n, e, tested.z)
TestAll(tests, n, e, z) ==
  IF n = 0 THEN Result(TRUE, z)
  ELSE TestMore(tests, n - 1, e,
                CASE tests[n] = "has" -> Has(e, z) [] tests[n] = "not" -> Not(e, z)
                  [] OTHER -> Result(Test(tests[n], e), z))

(* The matcher of the first i compounds, made by matcherFromTokens.  The first one must   *)
(* be within the context, unless this is the document; ">" and "+" have no cache.       *)
MatchOn(to, e, tested) ==
  LET s == to.g[to.j]
      next == ToCompound(to.g, to.j, to.i - 1, to.ctx)
      up == Step(e, next.dir)
  IN  CASE ~tested.ok -> tested
        [] tested.ok /\ to.i = 1 ->
             IF to.ctx = 0 THEN tested
             ELSE Walk(ToContext(to.ctx), e, tested.z, Key(tested.z, to.g, to.j, 0))
        [] tested.ok /\ to.i > 1 /\ s.combinators[to.i - 1] \in {">", "+"} ->
             IF Stops(next, up) THEN Result(FALSE, tested.z) ELSE Match(next, up, tested.z)
        [] OTHER -> Walk(next, e, tested.z, Key(tested.z, to.g, to.j, to.i - 1))
Match(to, e, z) ==
  LET tests == to.g[to.j].compounds[to.i]
  IN  MatchOn(to, e, TestAll(tests, Len(tests), e, z))

(***************************************************************************)
(* A query                                                                 *)
(***************************************************************************)

(* The candidates: if there is one selector only, what a tag or the class at the end    *)
(* of it finds; otherwise all elements, for "~" and "+" also those beside the context.   *)
Seeds(g) ==
  IF Len(g) > 1 THEN <<>>
  ELSE LET Finds(test) == test \in {"p", "cls"} IN SelectSeq(Last(g[1].compounds), Finds)

Candidates(g, ctx) ==
  LET seeds == Seeds(g)
      sibling == \E j \in DOMAIN g : ToSet(g[j].combinators) \cap {"~", "+"} # {}
      Seeded(e) == Test(Last(seeds), e)
  IN  IF seeds # <<>> THEN SelectSeq(Descendants(ctx), Seeded)
      ELSE Descendants(IF sibling /\ ctx # 0 THEN Parent(ctx) ELSE ctx)

(* Variant: the number of the run is the one of the run before. *)
SelectSameRun(g, ctx) ==
  /\ query = <<>> /\ queries < MaxQueries
  /\ query' = g /\ context' = ctx /\ elems' = Candidates(g, ctx) /\ results' = <<>>
  /\ sizzle' = [sizzle EXCEPT !.cachedruns = sizzle.runs[g]]
  /\ queries' = queries + 1
  /\ UNCHANGED <<document, classed>>

(* select and the beginning of superMatcher.  Without a seed there is no run. *)
Select(g, ctx) ==
  LET candidates == Candidates(g, ctx)
  IN  /\ query = <<>> /\ queries < MaxQueries
      /\ query' = g /\ context' = ctx /\ elems' = candidates /\ results' = <<>>
      /\ sizzle' = IF candidates = <<>> /\ Seeds(g) # <<>> THEN sizzle
                   ELSE [sizzle EXCEPT !.dirruns = sizzle.fresh, !.fresh = @ + 1,
                                       !.cachedruns = sizzle.runs[g]]
      /\ queries' = queries + 1
      /\ UNCHANGED <<document, classed>>

(* matcherFromGroupMatchers: any of the group, the last one first *)
RECURSIVE MatchAny(_, _, _, _)
MatchOther(g, n, e, tried) == IF tried.ok THEN tried ELSE MatchAny(g, n, e, tried.z)
MatchAny(g, n, e, z) ==
  IF n = 0 THEN Result(FALSE, z)
  ELSE MatchOther(g, n - 1, e,
                  Match([what |-> "compound", g |-> g, j |-> n, i |-> Len(g[n].compounds),
                         ctx |-> context], e, z))

(* superMatcher: the next candidate.  Afterwards dirruns is what it was. *)
MatchNext ==
  LET runs == sizzle.runs[query] + 1
  IN  /\ query # <<>> /\ elems # <<>>
      /\ elems' = Tail(elems)
      /\ \E matched \in {MatchAny(query, Len(query), Head(elems), sizzle)} :
           /\ results' = IF matched.ok THEN Append(results, Head(elems)) ELSE results
           /\ sizzle' = [matched.z EXCEPT !.dirruns = sizzle.dirruns, !.cachedruns = runs,
                                          !.runs[query] = runs]
      /\ UNCHANGED <<document, classed, query, context, queries>>

Return ==
  /\ query # <<>> /\ elems = <<>>
  /\ query' = <<>>
  /\ UNCHANGED <<document, classed, context, elems, results, sizzle, queries>>

(* The page gives the class to others; what is kept at the elements stays there. *)
Change(c) ==
  /\ query = <<>> /\ queries > 0 /\ queries < MaxQueries
  /\ c # classed
  /\ classed' = c
  /\ UNCHANGED <<document, query, context, elems, results, sizzle, queries>>

Next ==
  \/ \E g \in Queries : \E ctx \in Contexts \cap (Elements \cup {0}) : Select(g, ctx)
  \/ MatchNext \/ Return
  \/ \E c \in Classes : Change(c)

Spec == Init /\ [][Next]_vars

(***************************************************************************)
(* Correctness.                                                            *)
(***************************************************************************)

(* A query finds what the selectors mean, in document order and each element once,    *)
(* whatever has been kept by the candidates before, by nested selectors and by the    *)
(* queries before the page has changed.                                            *)
FindsWhatIsMeant ==
  query # <<>> =>
    LET Meant(e) == Selected(query, e, context) /\ e \notin ToSet(elems)
    IN  results = SelectSeq(Descendants(context), Meant)

(* TypeOK, and that. *)
QueryIsRight == TypeOK /\ FindsWhatIsMeant

===============================================================================
