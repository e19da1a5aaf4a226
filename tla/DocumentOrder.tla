----------------------------- MODULE DocumentOrder -----------------------------
(***************************************************************************)
(* Sizzle.uniqueSort: a list of nodes is sorted in document order, and then what stands  *)
(* next to its like is removed.  The browser's sort calls sortOrder, which compares   *)
(* with compareDocumentPosition or walks up the trees itself.                        *)
(*                                                                         *)
(* The nodes are numbered as they stand in their trees; 0 is the document, and a root  *)
(* of another tree has the parent NoNode.                                          *)
(***************************************************************************)
EXTENDS Integers, Sequences, SequencesExt, FiniteSets

CONSTANTS
  Forests,    \* functions from the nodes to their parents
  Inputs,     \* the lists that are sorted
  Supports    \* records [compare, sortStable, detectDuplicates]

NoNode == -1

OrderAssumption ==
  \A f \in Forests : f[0] = NoNode /\ \A n \in DOMAIN f : f[n] \in NoNode..(n - 1)

VARIABLES
  parentNode, support,
  input, sorting, results, \* what sort has before it, the rest and the sorted ones
  hasDuplicate

vars == <<parentNode, support, input, sorting, results, hasDuplicate>>

Idle == <<NoNode>>  \* of sorting

Init ==
  /\ parentNode \in Forests /\ support \in Supports
  /\ input = <<>> /\ sorting = Idle /\ results = <<>> /\ hasDuplicate = FALSE

TypeOK ==
  /\ parentNode \in Forests /\ support \in Supports
  /\ ToSet(results) \subseteq DOMAIN parentNode /\ hasDuplicate \in BOOLEAN
  /\ sorting # Idle => Len(results) + Len(sorting) = Len(input)

(***************************************************************************)
(* Comparing                                                               *)
(***************************************************************************)

(* A node's ancestors with itself, the root first *)
RECURSIVE Path(_)
Path(n) == IF parentNode[n] = NoNode THEN <<n>> ELSE Append(Path(parentNode[n]), n)

Root(n) == Path(n)[1]
contains(a, b) == a # b /\ a \in ToSet(Path(b))
Sign(x) == IF x < 0 THEN -1 ELSE IF x > 0 THEN 1 ELSE 0

(* Of siblings, and of an ancestor with what is below it, which has no path there *)
siblingCheck(ap, bp, i) ==
  IF i \in DOMAIN ap /\ i \in DOMAIN bp THEN Sign(ap[i] - bp[i])
  ELSE IF i \in DOMAIN ap THEN 1 ELSE -1

(* sortInput: the place in what was to be sorted, unless the browser's sort is stable *)
Unrelated(a, b) ==
  LET indexOf(n) == CHOOSE k \in DOMAIN input : input[k] = n /\ \A j \in 1..(k - 1) : input[j] # n
  IN  IF support.sortStable THEN 0 ELSE Sign(indexOf(a) - indexOf(b))

(* With compareDocumentPosition *)
Compared(a, b) ==
  CASE a = b -> 0
    [] a # b /\ Root(a) # Root(b) ->
         IF a = 0 \/ contains(0, a) THEN -1 ELSE IF b = 0 \/ contains(0, b) THEN 1 ELSE Unrelated(a, b)
    [] OTHER -> Sign(a - b)

(* Without it: where the paths part *)
Walked(a, b) ==
  LET ap == Path(a) bp == Path(b)
      parts == {i \in 1..(Len(ap) + 1) : i \notin DOMAIN ap \/ i \notin DOMAIN bp \/ ap[i] # bp[i]}
      first == CHOOSE i \in parts : \A j \in parts : i <= j
  IN  CASE a = b -> 0
        [] a # b /\ NoNode \in {parentNode[a], parentNode[b]} ->
             IF a = 0 THEN -1 ELSE IF b = 0 THEN 1
             ELSE IF parentNode[a] # NoNode THEN -1 ELSE IF parentNode[b] # NoNode THEN 1
             ELSE Unrelated(a, b)
        [] a # b /\ NoNode \notin {parentNode[a], parentNode[b]} /\ first > 1 -> siblingCheck(ap, bp, first)
        [] OTHER -> IF ap[1] = 0 THEN -1 ELSE IF bp[1] = 0 THEN 1 ELSE 0

sortOrder(a, b) == IF support.compare THEN Compared(a, b) ELSE Walked(a, b)

(***************************************************************************)
(* Sorting                                                                 *)
(***************************************************************************)

uniqueSort(list) ==
  /\ sorting = Idle /\ results = <<>>
  /\ input' = list /\ sorting' = list
  /\ hasDuplicate' = ~support.detectDuplicates
  /\ UNCHANGED <<parentNode, support, results>>

(* The browser's sort takes the next node to its place: from the right past all that come *)
(* after it, and if it is not stable, perhaps past some that are its equals.             *)
SortNext ==
  LET n == Head(sorting)
      Place(k) == /\ \A j \in (k + 1)..Len(results) :
                       LET order == sortOrder(results[j], n)
                       IN  order > 0 \/ (order = 0 /\ ~support.sortStable)
                  /\ k > 0 => sortOrder(results[k], n) <= 0
  IN  /\ sorting \notin {Idle, <<>>}
      /\ \E k \in 0..Len(results) :
           /\ Place(k)
           /\ results' = InsertAt(results, k + 1, n)
           /\ hasDuplicate' = (hasDuplicate \/ \E j \in (IF k > 0 THEN k ELSE 1)..Len(results) : results[j] = n)
      /\ sorting' = Tail(sorting)
      /\ UNCHANGED <<parentNode, support, input>>

(* Variant: of several duplicates every second stays. *)
RemoveDuplicatesOnce ==
  LET Kept == {k \in DOMAIN results : k = 1 \/ results[k] # results[k - 1] \/ (k > 2 /\ results[k] = results[k - 2])}
  IN  /\ sorting = <<>>
      /\ results' = IF hasDuplicate THEN [k \in 1..Cardinality(Kept) |-> results[SetToSortSeq(Kept, <)[k]]]
                    ELSE results
      /\ sorting' = Idle
      /\ UNCHANGED <<parentNode, support, input, hasDuplicate>>

(* What is the same as the one before it *)
RemoveDuplicates ==
  LET Kept == {k \in DOMAIN results : k = 1 \/ results[k] # results[k - 1]}
  IN  /\ sorting = <<>>
      /\ results' = IF hasDuplicate THEN [k \in 1..Cardinality(Kept) |-> results[SetToSortSeq(Kept, <)[k]]]
                    ELSE results
      /\ sorting' = Idle
      /\ UNCHANGED <<parentNode, support, input, hasDuplicate>>

Next == (\E list \in Inputs : uniqueSort(list)) \/ SortNext \/ RemoveDuplicates

Spec == Init /\ [][Next]_vars

(***************************************************************************)
(* Correctness.                                                            *)
(***************************************************************************)

Sorted == sorting = Idle /\ input # <<>>
InDocument == {n \in DOMAIN parentNode : Root(n) = 0}

(* The nodes of the document come first, in document order and each once, whatever other  *)
(* trees have nodes in the list; and no node is lost or added.                        *)
DocumentSorted ==
  Sorted =>
    LET mine == ToSet(input) \cap InDocument
    IN  /\ SubSeq(results, 1, Cardinality(mine)) = SetToSortSeq(mine, <)
        /\ ToSet(results) = ToSet(input)

(* Nodes of one other tree are sorted as well where the browser compares; without that, its *)
(* root comes last.                                                             *)
TreeSorted ==
  LET others == ToSet(input) \ InDocument
      one == Cardinality({Root(n) : n \in others}) = 1
      Later(n) == IF support.compare THEN n ELSE IF parentNode[n] = NoNode THEN 1000 ELSE n
      After(a, b) == Later(a) < Later(b)
  IN  Sorted /\ one => SubSeq(results, Len(results) - Cardinality(others) + 1, Len(results)) =
                         SetToSortSeq(others, After)

(* Where the sort is not stable, the place in the input keeps duplicates together that are  *)
(* the roots of trees of their own.                                               *)
RootsOnce ==
  Sorted /\ ~support.sortStable /\ (\A n \in ToSet(input) \ InDocument : parentNode[n] = NoNode)
    => IsInjective(results)

(* The list is sorted: see the parts. *)
OrderIsRight == TypeOK /\ DocumentSorted /\ TreeSorted /\ RootsOnce

===============================================================================
