------------------------------- MODULE Positional -------------------------------
(***************************************************************************)
(* Selectors with :first, :last, :eq, :even, :odd, :lt and :gt in Sizzle, that choose    *)
(* by the place in what has been found so far.  They do not match element by element:   *)
(* a set matcher takes them out of an array, the seed, and leaves holes.  A group may    *)
(* have both kinds; with a seed (filter, is, not) every matcher gets what those before  *)
(* it have left.                                                                *)
(*                                                                         *)
(* The elements are numbered in document order; 0 is the document, and a hole.          *)
(***************************************************************************)
EXTENDS Integers, Sequences, SequencesExt, FiniteSets

CONSTANTS
  Parents,  \* of the elements
  Classes,  \* functions from names to the sets of elements that have them
  Groups,   \* sequences of selectors, which are sequences of tokens
  Seeds     \* sequences of elements, and NoSeed

NoSeed == <<0>>

PositionalAssumption ==
  /\ \A e \in DOMAIN Parents : Parents[e] \in 0..(e - 1)
  /\ \A g \in Groups : \A k \in DOMAIN g : \A i \in DOMAIN g[k] : g[k][i].type \in {"class", "in", "position"}
  /\ \A s \in Seeds : s = NoSeed \/ (IsInjective(s) /\ ToSet(s) \subseteq DOMAIN Parents)

VARIABLES
  class, group, seed,      \* of the call
  results,                 \* what has been matched element by element, and what is returned
  unmatched, setMatched,   \* what the set matchers get and have found
  next                     \* selectors left to apply; Unstarted and Done

vars == <<class, group, seed, results, unmatched, setMatched, next>>

Elements == DOMAIN Parents
Unstarted == -2
Done == -1

Init ==
  /\ class \in Classes /\ group \in Groups /\ seed \in Seeds
  /\ results = <<>> /\ unmatched = NoSeed /\ setMatched = <<>> /\ next = Unstarted

(* Holes and all *)
Condense(list) == LET IsElem(e) == e # 0 IN SelectSeq(list, IsElem)
Seeded == seed # NoSeed

TypeOK ==
  /\ class \in Classes /\ group \in Groups /\ seed \in Seeds
  /\ ToSet(results) \subseteq Elements
  /\ next \in Unstarted..Len(group)
  /\ next \in 1..Len(group) /\ Seeded =>
       Len(unmatched) = Len(seed) /\ (setMatched = <<>> \/ Len(setMatched) = Len(seed))

(***************************************************************************)
(* Selectors                                                               *)
(***************************************************************************)

RECURSIVE Ancestors(_)
Ancestors(e) == IF e = 0 THEN {} ELSE {Parents[e]} \cup Ancestors(Parents[e])

(* Tokens without a position match e; what begins with "in" has to be in a context. *)
RECURSIVE Matches(_, _, _)
Matches(tokens, e, contexts) ==
  IF tokens = <<>> THEN e # 0
  ELSE IF Last(tokens).type = "class" THEN e \in class[Last(tokens).name] /\ Matches(Front(tokens), e, contexts)
  ELSE IF Len(tokens) = 1 THEN Ancestors(e) \cap contexts # {}
  ELSE \E x \in Ancestors(e) : Matches(Front(tokens), x, contexts)

(* multipleContexts: in one context after the other *)
Find(tokens, contexts) ==
  LET Below(c) ==
        LET IsBelow(e) == c \in Ancestors(e) /\ Matches(tokens, e, {c})
        IN  SelectSeq([e \in 1..Cardinality(Elements) |-> e], IsBelow)
  IN  FlattenSeq([k \in DOMAIN contexts |-> Below(contexts[k])])

IsPosition(token) == token.type = "position"
HasPosition(tokens) == \E i \in DOMAIN tokens : IsPosition(tokens[i])

(* matcherFromTokens: before and after the first position, and what is sought below *)
Split(tokens) ==
  LET i == SelectInSeq(tokens, IsPosition)
      ends == {j \in DOMAIN tokens : j > i /\ tokens[j].type = "in"} \cup {Len(tokens) + 1}
      j == CHOOSE x \in ends : \A y \in ends : x <= y
  IN  [pre |-> SubSeq(tokens, 1, i - 1), position |-> tokens[i],
       post |-> SubSeq(tokens, i + 1, j - 1), rest |-> SubSeq(tokens, j, Len(tokens))]

Indexes(p, length) ==
  LET at == IF p.argument < 0 THEN p.argument + length ELSE p.argument
      all == 0..(length - 1)
  IN  CASE p.name = "first" -> {0} [] p.name = "last" -> {length - 1} [] p.name = "eq" -> {at}
        [] p.name = "even" -> {i \in all : i % 2 = 0} [] p.name = "odd" -> {i \in all : i % 2 = 1}
        [] p.name = "lt" -> {i \in all : i < at} [] p.name = "gt" -> {i \in all : i > at}

(***************************************************************************)
(* Set matchers.  They take what matches out of "in" and put it at the same place of    *)
(* "out".                                                                      *)
(***************************************************************************)

Taken(in, out, places) ==
  [in |-> [k \in DOMAIN in |-> IF k \in places THEN 0 ELSE in[k]],
   out |-> [k \in DOMAIN in |-> IF k \in places THEN in[k] ELSE IF k \in DOMAIN out THEN out[k] ELSE 0]]

(* What fails the postFilter goes back. *)
Untaken(m, failing) ==
  [in |-> [k \in DOMAIN m.in |-> IF m.out[k] \in failing THEN m.out[k] ELSE m.in[k]],
   out |-> [k \in DOMAIN m.out |-> IF m.out[k] \in failing THEN 0 ELSE m.out[k]]]

RECURSIVE SetMatch(_, _, _, _)

Failing(post, list, contexts) ==
  IF HasPosition(post) THEN ToSet(SetMatch(post, list, <<>>, contexts).seed) \ {0}
  ELSE {e \in ToSet(list) : ~Matches(post, e, ToSet(contexts))}

PostFind(rest, contexts) ==
  IF HasPosition(rest) THEN SetMatch(rest, NoSeed, <<>>, contexts).results ELSE Find(rest, contexts)

(* What the positions are counted in *)
MatcherIn(s, given, contexts) ==
  LET Passes(e) == e # 0 /\ Matches(s.pre, e, ToSet(contexts))
  IN  CASE given = NoSeed -> Find(s.pre, contexts)
        [] given # NoSeed /\ s.pre # <<>> -> SelectSeq(given, Passes)
        [] OTHER -> given

AtPosition(p, list) == {k \in DOMAIN list : k - 1 \in Indexes(p, Len(list)) /\ list[k] # 0}

PostFilter(s, taken, contexts) ==
  IF s.post = <<>> THEN taken ELSE Untaken(taken, Failing(s.post, Condense(taken.out), contexts))

Matched(s, in, out, contexts) ==
  PostFilter(s, Taken(in, out, AtPosition(s.position, in)), contexts)

Sought(s, chosen, seeded) ==
  IF s.rest = <<>> THEN chosen ELSE PostFind(s.rest, IF seeded THEN Reverse(chosen) ELSE chosen)

Found(m) == [seed |-> m.in, results |-> m.out]
MoveMatches(given, found, last) ==
  IF given = NoSeed THEN [seed |-> NoSeed, results |-> found \o last]
  ELSE Found(Taken(given, found, {k \in DOMAIN given : given[k] # 0 /\ given[k] \in ToSet(last)}))

(* The function setMatcher makes.  With a seed and nothing before the position, seed and    *)
(* results are used as they are.                                                  *)
SetMatcher(s, given, found, contexts) ==
  IF given # NoSeed /\ s.pre = <<>> /\ s.rest = <<>>
  THEN Found(Matched(s, given, found, contexts))
  ELSE MoveMatches(given, found,
         Sought(s, Condense(Matched(s, MatcherIn(s, given, contexts), <<>>, contexts).out),
                given # NoSeed))
SetMatch(tokens, given, found, contexts) == SetMatcher(Split(tokens), given, found, contexts)

(***************************************************************************)
(* superMatcher                                                            *)
(***************************************************************************)

ByElement == {k \in DOMAIN group : ~HasPosition(group[k])}

(* First element by element.  Without a seed all elements are tried, if there is a need.    *)
MatchElements ==
  LET IsMatched(e) == \E k \in ByElement : Matches(group[k], e, {0})
      elems == IF Seeded THEN seed ELSE IF ByElement = {} THEN <<>>
               ELSE [e \in 1..Cardinality(Elements) |-> e]
  IN  /\ next = Unstarted
      /\ results' = SelectSeq(elems, IsMatched)
      /\ unmatched' = IF Seeded THEN [k \in DOMAIN seed |-> IF IsMatched(seed[k]) THEN 0 ELSE seed[k]]
                      ELSE NoSeed
      /\ next' = IF elems # <<>> /\ Len(results') = Len(elems) THEN Done
                 ELSE IF ByElement = DOMAIN group THEN Done ELSE Len(group)
      /\ UNCHANGED <<class, group, seed, setMatched>>

(* The selector of the group that is compiled first is the last. *)
ApplySet ==
  /\ next > 0
  /\ IF next \in ByElement THEN UNCHANGED <<unmatched, setMatched>>
     ELSE \E m \in {SetMatch(group[next], unmatched, setMatched, <<0>>)} :
            unmatched' = m.seed /\ setMatched' = m.results
  /\ next' = next - 1
  /\ UNCHANGED <<class, group, seed, results>>

(* Variant: the matches are not sorted. *)
FinishUnsorted ==
  /\ next = 0
  /\ results' = results \o Condense(setMatched)
  /\ next' = Done
  /\ UNCHANGED <<class, group, seed, unmatched, setMatched>>

(* With a seed, the matches of both kinds are put into its order; else they are sorted if    *)
(* they come from several matchers.                                               *)
Finish ==
  LET mine == setMatched # <<>>
      Reintegrated == [k \in DOMAIN seed |-> IF mine /\ setMatched[k] # 0 THEN setMatched[k]
                                             ELSE IF unmatched[k] = 0 THEN seed[k] ELSE 0]
      all == results \o setMatched
      several == Len(results) + Cardinality(DOMAIN group \ ByElement) > 1
  IN  /\ next = 0
      /\ results' = IF Seeded THEN Condense(Reintegrated)
                    ELSE IF setMatched # <<>> /\ several THEN SetToSortSeq(ToSet(all), <) ELSE all
      /\ next' = Done
      /\ UNCHANGED <<class, group, seed, unmatched, setMatched>>

Next == MatchElements \/ ApplySet \/ Finish

Spec == Init /\ [][Next]_vars

(***************************************************************************)
(* Correctness.                                                            *)
(***************************************************************************)

(* Reference: the elements at a position, counted from the first, or for a negative argument *)
(* from behind the last                                                          *)
At(p, list) ==
  LET from == IF p.argument < 0 THEN Len(list) ELSE 0
      before(k) == k - 1 - from
      IsChosen(k) == CASE p.name = "first" -> k = 1
                       [] p.name = "last" -> k = Len(list)
                       [] p.name = "even" -> k % 2 = 1
                       [] p.name = "odd" -> k % 2 = 0
                       [] p.name = "eq" -> before(k) = p.argument
                       [] p.name = "lt" -> before(k) < p.argument
                       [] p.name = "gt" -> before(k) > p.argument
      places == SelectSeq([k \in DOMAIN list |-> k], IsChosen)
  IN  [i \in DOMAIN places |-> list[places[i]]]

(* Reference: the tokens are applied to a list, one after the other. *)
RECURSIVE Applied(_, _)
Applied(tokens, list) ==
  IF tokens = <<>> THEN list
  ELSE LET t == Head(tokens)
           rest(l) == Applied(Tail(tokens), l)
           IsOf(e) == e \in class[t.name]
       IN  CASE t.type = "class" -> rest(SelectSeq(list, IsOf))
             [] t.type = "position" -> rest(At(t, list))
             [] t.type = "in" -> rest(Find(<<>>, list))

All == [e \in 1..Cardinality(Elements) |-> e]

(* One selector finds what its tokens choose when they are read from left to right, an      *)
(* element that is in several of the contexts found as often; with a seed, the elements      *)
(* of this, in its order, but for a position among what is found below: there the contexts  *)
(* are gone through from the last to the first.                                     *)
OneSelector ==
  next = Done /\ Len(group) = 1 /\ ByElement = {} /\ (Seeded => ~HasPosition(Split(group[1]).rest)) =>
    IF Seeded THEN LET chosen == ToSet(Applied(group[1], seed))
                       IsChosen(e) == e \in chosen
                   IN  results = SelectSeq(seed, IsChosen)
    ELSE results = Applied(group[1], All)

(* A group finds, without a seed, what its selectors find, and each element once and in     *)
(* document order if two of them have positions.                                     *)
GroupFindsAll ==
  next = Done /\ ~Seeded =>
    LET all == UNION {ToSet(Applied(group[k], All)) : k \in DOMAIN group}
    IN  /\ ToSet(results) = all
        /\ Cardinality(DOMAIN group \ ByElement) > 1 => results = SetToSortSeq(all, <)

(* With a seed, the matches are in the order of the seed, each once, and what one selector   *)
(* matches for itself is among them.                                                *)
SeedOrder ==
  next = Done /\ Seeded =>
    LET IsMatched(e) == e \in ToSet(results)
    IN  /\ results = SelectSeq(seed, IsMatched)
        /\ \A k \in ByElement : \A e \in ToSet(seed) : Matches(group[k], e, {0}) => IsMatched(e)

(* Positions count as the selectors are read. *)
PositionsAreRight == TypeOK /\ OneSelector /\ GroupFindsAll /\ SeedOrder

===============================================================================
