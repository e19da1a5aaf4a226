-------------------------- MODULE UserInterfaceProofs --------------------------
(***************************************************************************)
(* What holds of the window, of the loop that polls the sizes of elements, of        *)
(* tooltips, of texts that are cut, of the start of a page and of its requests, for     *)
(* any sessions, elements, sizes, delays, texts, handlers and requests and whatever    *)
(* the bounds: of components alone, and of the behaviours that MCUserInterface checks.   *)
(***************************************************************************)
EXTENDS MCUserInterface, WellFoundedInduction, SequenceTheorems, FiniteSetTheorems,
        TLAPS

(***************************************************************************)
(* ResizePolling: the elements that are watched are those whose size is known,     *)
(* and, if handlers do not bind and unbind, there is one loop while there are any.  *)
(***************************************************************************)

(* There is one loop while there are elements, and it goes over these. *)
Single ==
  /\ older = 0 /\ todo \subseteq elems /\ (running = TRUE \/ todo = {})
  /\ latest = FALSE \/ running = FALSE
  /\ elems # {} => latest = TRUE \/ running = TRUE
  /\ elems = {} => latest = FALSE /\ running = FALSE

(* While a handler is called the round is not over, and loops are bounded.      *)
PollingIInv(b) ==
  /\ Polling(b)!TypeOK /\ Polling(b)!WatchedIsKnown
  /\ Polling(b)!Loops <= MaxLoops
  /\ inside # 0 => running = TRUE
  /\ ~b => Single

LEMMA LeastElement ==
  ASSUME NEW S \in SUBSET Nat, S # {}
  PROVE  \E e \in S : \A f \in S : e <= f
<1> DEFINE R == {ss \in Nat \X Nat : ss[1] < ss[2]}
<1>1. IsWellFoundedOn(R, Nat)
  BY NatLessThanWellFounded DEF OpToRel
<1> HIDE DEF R
<1>2. PICK x \in S : \A y \in S : <<y, x>> \notin R
  BY <1>1, WFMin
<1>3. ASSUME NEW y \in S, y < x
      PROVE  FALSE
  <2>1. <<y, x>> \in R
    BY <1>3 DEF R
  <2>2. QED
    BY <1>2, <2>1
<1>4. QED
  BY <1>3

(* The element that is polled is one of those that are left. *)
LEMMA PolledIsLeft ==
  ASSUME NEW b \in BOOLEAN, Polling(b)!TypeOK, todo # {}
  PROVE  Polling(b)!Polled \in todo
<1>1. todo \in SUBSET Nat
  BY Assumptions DEF Polling!TypeOK, Polling!Elements, Polling!ElementsAssumption
<1>2. \E e \in todo : \A f \in todo : e <= f
  BY <1>1, LeastElement
<1>3. QED
  BY <1>2 DEF Polling!Polled

LEMMA PollingInitInv ==
  ASSUME NEW b \in BOOLEAN, Polling(b)!Init
  PROVE  PollingIInv(b)
<1>1. N \in Nat /\ 0 \notin Sizes /\ MaxLoops \in Nat
  BY Assumptions DEF Polling!ElementsAssumption
<1>2. Polling(b)!Loops = 0
  BY DEF Polling!Init, Polling!Loops
<1>3. latest \in BOOLEAN /\ running \in BOOLEAN
  BY DEF Polling!Init
<1>4. older \in 0..MaxLoops
  BY <1>1 DEF Polling!Init
<1>5. Polling(b)!TypeOK /\ Polling(b)!WatchedIsKnown
  BY <1>1, <1>3, <1>4
     DEF Polling!Init, Polling!TypeOK, Polling!WatchedIsKnown, Polling!NoData
<1>6. QED
  BY <1>1, <1>2, <1>5 DEF Polling!Init, PollingIInv, Single

(* Types, and what is known of the elements that are watched *)
LEMMA PollingTyped ==
  ASSUME NEW b \in BOOLEAN, PollingIInv(b), Polling(b)!Next
  PROVE  /\ Polling(b)!WatchedIsKnown'
         /\ size' \in [Polling(b)!Elements -> Sizes]
         /\ elems' \subseteq Polling(b)!Elements
         /\ data' \in [Polling(b)!Elements -> Sizes \cup {0}]
         /\ todo' \subseteq Polling(b)!Elements
         /\ inside' \in Polling(b)!Elements \cup {0}
<1> DEFINE Known ==
      /\ Polling(b)!WatchedIsKnown'
      /\ size' \in [Polling(b)!Elements -> Sizes]
      /\ elems' \subseteq Polling(b)!Elements
      /\ data' \in [Polling(b)!Elements -> Sizes \cup {0}]
      /\ todo' \subseteq Polling(b)!Elements
      /\ inside' \in Polling(b)!Elements \cup {0}
<1>1. N \in Nat /\ 0 \notin Sizes /\ MaxLoops \in Nat
  BY Assumptions DEF Polling!ElementsAssumption
<1> USE DEF PollingIInv, Polling!TypeOK, Polling!WatchedIsKnown, Polling!NoData
<1>2. ASSUME NEW e \in Polling(b)!Elements,
             Polling(b)!Setup(e) \/ Polling(b)!Teardown(e) \/ Polling(b)!Trigger(e)
               \/ Polling(b)!Resize(e)
      PROVE  Known
  BY <1>1, <1>2
     DEF Polling!Setup, Polling!Teardown, Polling!Trigger, Polling!Resize
<1>3. CASE Polling(b)!Timer \/ Polling(b)!Return \/ Polling(b)!Again
  BY <1>3 DEF Polling!Timer, Polling!Return, Polling!Again
<1>4. CASE Polling(b)!PollUnbound
  BY <1>4 DEF Polling!PollUnbound
<1>5. CASE Polling(b)!Poll
  BY <1>1, <1>5, PolledIsLeft DEF Polling!Poll
<1>6. QED
  BY <1>2, <1>3, <1>4, <1>5 DEF Polling!Next

(* A loop sets one timer for the one that brought it here. *)
LEMMA LoopKept ==
  ASSUME NEW b \in BOOLEAN, PollingIInv(b), Polling(b)!Next
  PROVE  /\ latest' \in BOOLEAN /\ running' \in BOOLEAN
         /\ older' \in 0..MaxLoops /\ Polling(b)!Loops' <= MaxLoops
         /\ inside' # 0 => running' = TRUE
         /\ ~b => Single'
<1> DEFINE Typed == latest' \in BOOLEAN /\ running' \in BOOLEAN
           Bounded == older' \in 0..MaxLoops /\ Polling(b)!Loops' <= MaxLoops
           Called == inside' # 0 => running' = TRUE
<1>1. /\ MaxLoops \in Nat /\ older \in Nat /\ older <= MaxLoops
      /\ latest = TRUE \/ latest = FALSE
      /\ running = TRUE \/ running = FALSE
  BY Assumptions DEF Polling!ElementsAssumption, PollingIInv, Polling!TypeOK
<1>2. ASSUME latest' = latest, running' = running, older' = older
      PROVE  Typed /\ Bounded
  <2>1. Typed
    BY <1>1, <1>2
  <2>2. Polling(b)!Loops' = Polling(b)!Loops
    BY <1>2 DEF Polling!Loops
  <2>3. QED
    BY <1>1, <1>2, <2>1, <2>2 DEF PollingIInv
<1> DEFINE Values == /\ latest' = TRUE \/ latest' = FALSE
                     /\ running' = TRUE \/ running' = FALSE
<1>3. ASSUME Values
       PROVE  Typed
  BY <1>3
<1>4. ASSUME older' \in Nat, older' <= MaxLoops, Polling(b)!Loops' <= MaxLoops
       PROVE  Bounded
  BY <1>1, <1>4
<1>5. /\ MaxLoops \in Nat /\ older \in Nat /\ older <= MaxLoops
      /\ Polling(b)!Loops \in Nat /\ Polling(b)!Loops <= MaxLoops
  BY <1>1 DEF PollingIInv, Polling!Loops
<1> DEFINE Goal == Typed /\ Bounded /\ Called /\ (~b => Single')
<1>6. ASSUME Values, older' \in Nat, older' <= MaxLoops,
              Polling(b)!Loops' <= MaxLoops, Called, ~b => Single'
       PROVE  Goal
  BY <1>3, <1>4, <1>6
<1> HIDE DEF Typed, Bounded, Goal
<1>7. ASSUME NEW e \in Polling(b)!Elements, Polling(b)!Setup(e)
      PROVE  Goal
  <2>1. /\ running' = running /\ inside' = inside /\ todo' = todo
        /\ elems \subseteq elems' /\ elems' # {}
        /\ running = TRUE => b
    BY <1>7 DEF Polling!Setup, Polling!Turn, PollingIInv
  <2>2. CASE elems # {}
    <3>1. latest' = latest /\ older' = older
      BY <1>7, <2>2 DEF Polling!Setup
    <3>2. QED
      BY <1>2, <2>1, <2>2, <3>1 DEF PollingIInv, Single, Goal
  <2>3. CASE elems = {} /\ latest = TRUE
    <3>1. latest' = TRUE /\ older' = older + 1
      BY <1>7, <2>3 DEF Polling!Setup, Polling!loopy
    <3>2. b
      BY <2>3 DEF PollingIInv, Single
    <3>3. Polling(b)!Loops' = Polling(b)!Loops + 1
      BY <1>1, <2>1, <2>3, <3>1 DEF Polling!Loops
    <3>4. older + 2 <= MaxLoops /\ Polling(b)!Loops + 1 <= MaxLoops
      BY <1>1, <1>7, <2>3 DEF Polling!Setup, Polling!Loops
    <3>5. older' \in Nat /\ older' <= MaxLoops /\ Polling(b)!Loops' <= MaxLoops
      BY <1>5, <3>1, <3>3, <3>4
    <3>6. Values /\ Called
      BY <1>1, <2>1, <3>1 DEF PollingIInv
    <3>7. QED
      BY <1>6, <3>2, <3>5, <3>6
  <2>4. CASE elems = {} /\ latest = FALSE
    <3>1. latest' = TRUE /\ older' = older
      BY <1>7, <2>4 DEF Polling!Setup, Polling!loopy
    <3>2. Polling(b)!Loops' = Polling(b)!Loops + 1
      BY <1>1, <2>1, <2>4, <3>1 DEF Polling!Loops
    <3>3. Polling(b)!Loops + 1 <= MaxLoops
      BY <1>1, <1>7, <2>4 DEF Polling!Setup, Polling!Loops
    <3>4. ~b => Single'
      BY <1>1, <2>1, <2>4, <3>1 DEF PollingIInv, Single
    <3>5. Values
      BY <1>1, <2>1, <3>1, <3>2, <3>3, <3>4
    <3>6. older' \in Nat /\ older' <= MaxLoops /\ Polling(b)!Loops' <= MaxLoops
      BY <1>1, <1>5, <2>1, <3>1, <3>2, <3>3, <3>4
    <3>7. Called
      BY <2>1, <3>1, <3>2, <3>3, <3>4 DEF PollingIInv
    <3>8. ~b => Single'
      BY <1>1, <2>1, <3>1, <3>2, <3>3, <3>4 DEF PollingIInv, Single
    <3>9. QED
      BY <1>6, <3>5, <3>6, <3>7, <3>8
  <2>5. QED
    BY <1>1, <2>2, <2>3, <2>4
<1>8. ASSUME NEW e \in Polling(b)!Elements, Polling(b)!Teardown(e)
      PROVE  Goal
  <2>1. /\ running' = running /\ inside' = inside /\ todo' = todo
        /\ older' = older /\ elems' = elems \ {e}
        /\ running = TRUE => b
    BY <1>8 DEF Polling!Teardown, Polling!Turn, PollingIInv
  <2>2. CASE elems # {e}
    <3>1. latest' = latest /\ elems' # {}
      BY <1>1, <1>8, <2>2 DEF Polling!Teardown
    <3>2. ~b => Single'
      BY <1>1, <2>1, <2>2, <3>1 DEF PollingIInv, Single
    <3>3. QED
      BY <1>2, <2>1, <3>1, <3>2 DEF PollingIInv, Goal
  <2>3. CASE elems = {e}
    <3>1. latest' = FALSE /\ elems' = {}
      BY <1>8, <2>3 DEF Polling!Teardown
    <3>2. Polling(b)!Loops' <= Polling(b)!Loops /\ Polling(b)!Loops' \in Nat
      BY <1>1, <2>1, <3>1 DEF Polling!Loops
    <3>3. ~b => Single'
      BY <1>1, <2>1, <3>1 DEF PollingIInv, Single
    <3>4. Polling(b)!Loops \in Nat
      BY <1>1 DEF Polling!Loops
    <3>5. Values
      BY <1>1, <2>1, <3>1, <3>2, <3>3, <3>4
    <3>6. older' \in Nat /\ older' <= MaxLoops /\ Polling(b)!Loops' <= MaxLoops
      BY <1>1, <1>5, <2>1, <3>1, <3>2, <3>3, <3>4
    <3>7. Called
      BY <2>1, <3>1, <3>2, <3>3, <3>4 DEF PollingIInv
    <3>8. ~b => Single'
      BY <1>1, <2>1, <3>1, <3>2, <3>3, <3>4 DEF PollingIInv, Single
    <3>9. QED
      BY <1>6, <3>5, <3>6, <3>7, <3>8
  <2>4. QED
    BY <2>2, <2>3
<1>9. ASSUME NEW e \in Polling(b)!Elements, Polling(b)!Trigger(e) \/ Polling(b)!Resize(e)
      PROVE  Goal
  <2>1. /\ latest' = latest /\ running' = running /\ older' = older
        /\ inside' = inside /\ elems' = elems /\ todo' = todo
    BY <1>9 DEF Polling!Trigger, Polling!Resize
  <2>2. QED
    BY <1>2, <2>1 DEF PollingIInv, Single, Goal
<1>10. ASSUME Polling(b)!Timer
       PROVE  Goal
  <2>1. /\ running = FALSE /\ running' = TRUE /\ todo' = elems /\ elems' = elems
    BY <1>1, <1>10 DEF Polling!Timer
  <2>2. CASE latest = TRUE /\ latest' = FALSE /\ older' = older
    <3>1. Polling(b)!Loops' = Polling(b)!Loops
      BY <1>1, <2>1, <2>2 DEF Polling!Loops
    <3>2. Values
      BY <1>1, <2>1, <2>2, <3>1
    <3>3. older' \in Nat /\ older' <= MaxLoops /\ Polling(b)!Loops' <= MaxLoops
      BY <1>1, <1>5, <2>1, <2>2, <3>1
    <3>4. Called
      BY <2>1, <2>2, <3>1 DEF PollingIInv
    <3>5. ~b => Single'
      BY <1>1, <2>1, <2>2, <3>1 DEF PollingIInv, Single
    <3>6. QED
      BY <1>6, <3>2, <3>3, <3>4, <3>5
  <2>3. CASE older > 0 /\ older' = older - 1 /\ latest' = latest
    <3>1. Polling(b)!Loops' = Polling(b)!Loops
      BY <1>1, <2>1, <2>3 DEF Polling!Loops
    <3>2. b
      BY <1>1, <2>3 DEF PollingIInv, Single
    <3>3. Values
      BY <1>1, <2>1, <2>3, <3>1, <3>2
    <3>4. older' \in Nat /\ older' <= MaxLoops /\ Polling(b)!Loops' <= MaxLoops
      BY <1>5, <2>3, <3>1
    <3>5. Called
      BY <2>1, <2>3, <3>1, <3>2 DEF PollingIInv
    <3>6. ~b => Single'
      BY <1>1, <2>1, <2>3, <3>1, <3>2 DEF PollingIInv, Single
    <3>7. QED
      BY <1>6, <3>3, <3>4, <3>5, <3>6
  <2>4. QED
    BY <1>1, <1>10, <2>2, <2>3 DEF Polling!Timer
<1>11. ASSUME Polling(b)!PollUnbound
       PROVE  Goal
  <2>1. /\ running = TRUE /\ running' = FALSE /\ inside' = 0
        /\ latest' = latest /\ older' = older
    BY <1>1, <1>11 DEF Polling!PollUnbound
  <2>2. b
    BY <1>11, PolledIsLeft
       DEF Polling!PollUnbound, PollingIInv, Single, Polling!WatchedIsKnown, Polling!TypeOK
  <2>3. Polling(b)!Loops' <= Polling(b)!Loops /\ Polling(b)!Loops' \in Nat
    BY <1>1, <2>1 DEF Polling!Loops
  <2>4. Polling(b)!Loops \in Nat
    BY <1>1 DEF Polling!Loops
  <2>5. Values
    BY <1>1, <2>1, <2>2, <2>3, <2>4
  <2>6. older' \in Nat /\ older' <= MaxLoops /\ Polling(b)!Loops' <= MaxLoops
    BY <1>5, <2>1, <2>3
  <2>7. Called
    BY <2>1, <2>2, <2>3, <2>4 DEF PollingIInv
  <2>8. ~b => Single'
    BY <1>1, <2>1, <2>2, <2>3, <2>4 DEF PollingIInv, Single
  <2>9. QED
    BY <1>6, <2>5, <2>6, <2>7, <2>8
<1>12. ASSUME Polling(b)!Poll \/ Polling(b)!Return
       PROVE  Goal
  <2>1. /\ latest' = latest /\ running' = running /\ older' = older
        /\ elems' = elems /\ todo' \subseteq todo
        /\ inside' # 0 => running = TRUE
    BY <1>1, <1>12 DEF Polling!Poll, Polling!Return
  <2>2. ~b => Single'
    BY <2>1 DEF PollingIInv, Single
  <2>3. Called
    BY <2>1 DEF PollingIInv
  <2>4. QED
    BY <1>2, <2>1, <2>2, <2>3 DEF Goal
<1>13. ASSUME Polling(b)!Again
       PROVE  Goal
  <2>1. /\ running = TRUE /\ running' = FALSE /\ inside' = 0
        /\ latest' = TRUE /\ elems' = elems /\ todo' = {}
    BY <1>1, <1>13 DEF Polling!Again, Polling!loopy
  <2>2. CASE latest = TRUE
    <3>1. older' = older + 1
      BY <1>13, <2>2 DEF Polling!Again, Polling!loopy
    <3>2. b
      BY <2>1, <2>2 DEF PollingIInv, Single
    <3>3. Polling(b)!Loops' = Polling(b)!Loops /\ Polling(b)!Loops = older + 2
      BY <1>1, <2>1, <2>2, <3>1 DEF Polling!Loops
    <3>4. older' \in Nat /\ older' <= MaxLoops /\ Polling(b)!Loops' <= MaxLoops
      BY <1>5, <3>1, <3>3
    <3>5. Values /\ Called
      BY <2>1
    <3>6. QED
      BY <1>6, <3>2, <3>4, <3>5
  <2>3. CASE latest = FALSE
    <3>1. older' = older
      BY <1>13, <2>3 DEF Polling!Again, Polling!loopy
    <3>2. Polling(b)!Loops' = Polling(b)!Loops
      BY <1>1, <2>1, <2>3, <3>1 DEF Polling!Loops
    <3>3. older' \in Nat /\ older' <= MaxLoops /\ Polling(b)!Loops' <= MaxLoops
      BY <1>5, <3>1, <3>2
    <3>4. Values /\ Called
      BY <2>1
    <3>5. ~b => Single'
      BY <2>1, <3>1 DEF PollingIInv, Single
    <3>6. QED
      BY <1>6, <3>3, <3>4, <3>5
  <2>4. QED
    BY <1>1, <2>2, <2>3
<1>14. QED
  BY <1>7, <1>8, <1>9, <1>10, <1>11, <1>12, <1>13 DEF Polling!Next, Goal, Typed, Bounded

LEMMA PollingNextInv ==
  ASSUME NEW b \in BOOLEAN, PollingIInv(b), Polling(b)!Next
  PROVE  PollingIInv(b)'
<1>1. Polling(b)!TypeOK'
  BY PollingTyped, LoopKept DEF Polling!TypeOK, Polling!NoData
<1>2. QED
  BY <1>1, PollingTyped, LoopKept DEF PollingIInv

LEMMA PollingStutter ==
  ASSUME NEW b \in BOOLEAN, PollingIInv(b), UNCHANGED Polling(b)!vars
  PROVE  PollingIInv(b)'
BY DEF PollingIInv, Polling!vars, Polling!TypeOK, Polling!WatchedIsKnown, Polling!Loops,
       Single

LEMMA PollingIInvSound ==
  ASSUME NEW b \in BOOLEAN, PollingIInv(b)
  PROVE  Polling(b)!PollingIsSound
<1>1. ASSUME ~b
      PROVE  Polling(b)!OneLoop /\ Polling(b)!StopsWithLast /\ Polling(b)!WatchedByLoop
  <2>1. Single
    BY <1>1 DEF PollingIInv
  <2>2. latest = TRUE /\ running = FALSE => Polling(b)!Loops = 1
    BY <2>1 DEF Polling!Loops, Single
  <2>3. latest = FALSE /\ running = TRUE => Polling(b)!Loops = 1
    BY <2>1 DEF Polling!Loops, Single
  <2>4. latest = FALSE /\ running = FALSE => Polling(b)!Loops = 0
    BY <2>1 DEF Polling!Loops, Single
  <2>5. latest \in BOOLEAN /\ running \in BOOLEAN
    BY DEF PollingIInv, Polling!TypeOK
  <2>6. QED
    BY <2>1, <2>2, <2>3, <2>4, <2>5
       DEF Single, Polling!OneLoop, Polling!StopsWithLast, Polling!WatchedByLoop
<1>2. QED
  BY <1>1 DEF PollingIInv, Polling!PollingIsSound

(* The loop alone: the elements that are watched are known, and if handlers do not     *)
(* bind and unbind there is one loop, as long as there are elements to watch.        *)
THEOREM PollingAlone ==
  ASSUME NEW b \in BOOLEAN
  PROVE  Polling(b)!Spec => []Polling(b)!PollingIsSound
<1>1. Polling(b)!Init => PollingIInv(b)
  BY PollingInitInv
<1>2. PollingIInv(b) /\ [Polling(b)!Next]_(Polling(b)!vars) => PollingIInv(b)'
  BY PollingNextInv, PollingStutter
<1>3. PollingIInv(b) => Polling(b)!PollingIsSound
  BY PollingIInvSound
<1>4. QED
  BY <1>1, <1>2, <1>3, PTL DEF Polling!Spec

(* The same of the behaviours that MCUserInterface checks. *)
THEOREM PollingCorrect == Spec => []PollingIsSound
<1> DEFINE Inv == \A b \in BOOLEAN : part = Loop(b) => PollingIInv(b)
<1>1. Init => Inv
  BY PollingInitInv DEF Init, Loop, Sides, Browser
<1>2. Inv /\ [Next]_everything => Inv'
  <2> SUFFICES ASSUME Inv, [Next]_everything, NEW b \in BOOLEAN, part' = Loop(b)
               PROVE  PollingIInv(b)'
    BY DEF Loop
  <2>1. CASE part = Loop(b) /\ Polling(b)!Next
    BY <2>1, PollingNextInv
  <2>2. CASE part = Loop(b) /\ UNCHANGED Polling(b)!vars
    BY <2>2, PollingStutter
  <2>3. QED
    BY <2>1, <2>2
       DEF Next, OfWindow, OfLog, OfTip, OfCut, OfPolling, OfStart, OfRequest, Loop, Sides,
           Browser, everything, ofPolling, Polling!vars
<1>3. Inv => PollingIsSound
  BY PollingIInvSound DEF PollingIsSound
<1>4. QED
  BY <1>1, <1>2, <1>3, PTL DEF Spec

(***************************************************************************)
(* Tipsy: a tip is there for the mouse or about to go, and it comes with the last   *)
(* title, on the side where there is room.                                     *)
(***************************************************************************)

TipTyped ==
  /\ hoverState \in {"none", "in", "out"}
  /\ pendingIn \in 0..MaxPending /\ pendingOut \in 0..MaxPending
  /\ tip \in {"off", "on", "fading"}
  /\ {title, original, text} \subseteq Tip!Titles \cup {""}
  /\ gravity[1] \in {"n", "s", "e", "w"} /\ gravity[2] \in {"e", "w", ""}
  /\ near \subseteq Tip!Edges /\ last \in Tip!Titles

(* The last hover handler to be called knows where the mouse is. *)
TipMouse ==
  over \in BOOLEAN /\ enabled \in BOOLEAN /\ (over = TRUE <=> hoverState = "in")

(* A tip that is not to stay waits for a timer, and the title that the page has last    *)
(* given is in one of the two attributes.                                       *)
TipKnows ==
  /\ tip = "on" => hoverState = "in" \/ (hoverState = "out" /\ pendingOut > 0)
  /\ title # "" => title = last
  /\ title = "" => original = last
  /\ Prefer # "w" => gravity \in Tip!Gravities

TipIInv == TipTyped /\ TipMouse /\ TipKnows

LEMMA PendingBound ==
  /\ MaxPending \in Nat
  /\ TipTyped => /\ pendingIn \in Nat /\ pendingIn <= MaxPending
                 /\ pendingOut \in Nat /\ pendingOut <= MaxPending
<1>1. MaxPending \in Nat
  BY Assumptions DEF Tip!TipsyAssumption
<1>2. TipTyped => pendingIn \in 0..MaxPending /\ pendingOut \in 0..MaxPending
  BY DEF TipTyped
<1>3. QED
  BY <1>1, <1>2

LEMMA PreferredIsKnown ==
  ASSUME NEW edges
  PROVE  /\ Tip!AutoBounds(edges)[1] \in {"n", "s", "e", "w"}
         /\ Tip!AutoBounds(edges)[2] \in {"e", "w", ""}
         /\ Tip!Preferred[1] \in {"n", "s", "e", "w"} /\ Tip!Preferred[2] \in {"e", "w", ""}
         /\ Prefer # "w" => /\ Tip!AutoBounds(edges) \in Tip!Gravities
                            /\ Tip!Preferred \in Tip!Gravities
<1>1. Prefer \in {"n", "sw", "w"}
  BY Assumptions DEF Tip!TipsyAssumption
<1>2. Tip!Preferred[1] \in {"n", "s", "w"} /\ Tip!Preferred[2] \in {"w", ""}
  BY <1>1 DEF Tip!Preferred
<1>3. Prefer # "w" => Tip!Preferred[1] \in {"n", "s"}
  BY <1>1 DEF Tip!Preferred
<1>4. Prefer # "w" => Tip!Preferred \in Tip!Gravities
  BY <1>1 DEF Tip!Preferred, Tip!Gravities
<1>5. QED
  BY <1>2, <1>3, <1>4 DEF Tip!AutoBounds, Tip!Gravities

LEMMA TipInitInv == Tip!Init => TipIInv
<1> SUFFICES ASSUME Tip!Init
             PROVE  TipIInv
  OBVIOUS
<1>1. TipMouse
  BY DEF Tip!Init, TipMouse
<1>2. pendingIn = 0 /\ pendingOut = 0
  BY DEF Tip!Init
<1>3. pendingIn \in 0..MaxPending /\ pendingOut \in 0..MaxPending
  BY <1>2, PendingBound
<1>4. gravity[1] \in {"n", "s", "e", "w"} /\ gravity[2] \in {"e", "w", ""}
  BY PreferredIsKnown DEF Tip!Init
<1>5. /\ hoverState = "none" /\ tip = "off" /\ title = "" /\ original = "first"
      /\ text = "" /\ near = {} /\ last = "first"
  BY DEF Tip!Init
<1>6. TipTyped
  BY <1>3, <1>4, <1>5 DEF TipTyped, Tip!Titles
<1>7. TipKnows
  BY <1>5, PreferredIsKnown DEF Tip!Init, TipKnows
<1>8. QED
  BY <1>1, <1>6, <1>7 DEF TipIInv

(* What show does: it moves the title away and takes it for the tip. *)
LEMMA TipShows ==
  ASSUME TipTyped, TipKnows, Tip!Show
  PROVE  /\ tip' \in {"on", tip}
         /\ title' = "" /\ original' = last
         /\ text' \in Tip!Titles \cup {""}
         /\ gravity' \in {gravity, Tip!AutoBounds(near)}
         /\ tip # "on" /\ tip' = "on" => text' = last /\ gravity' = Tip!AutoBounds(near)
<1>1. title' = "" /\ original' = last
  BY DEF Tip!Show, Tip!FixTitle, TipKnows
<1>2. last \in Tip!Titles /\ text \in Tip!Titles \cup {""}
  BY DEF TipTyped
<1>3. QED
  BY <1>1, <1>2 DEF Tip!Show

LEMMA TipShown ==
  ASSUME TipTyped, TipKnows, Tip!Show, hoverState' = "in", UNCHANGED <<near, last>>,
         pendingIn' \in 0..MaxPending, pendingOut' \in 0..MaxPending
  PROVE  TipTyped' /\ TipKnows'
<1>1. gravity' \in {gravity, Tip!AutoBounds(near)}
  BY TipShows
<1>2. gravity'[1] \in {"n", "s", "e", "w"} /\ gravity'[2] \in {"e", "w", ""}
  BY <1>1, PreferredIsKnown DEF TipTyped
<1>3. Prefer # "w" => gravity' \in Tip!Gravities
  BY <1>1, PreferredIsKnown DEF TipKnows
<1>4. TipTyped'
  BY <1>2, TipShows DEF TipTyped
<1>5. TipKnows'
  <2>1. hoverState' = "in" /\ title' = "" /\ original' = last'
    BY TipShows
  <2>2. QED
    BY <1>3, <2>1 DEF TipKnows
<1>6. QED
  BY <1>4, <1>5

LEMMA TipEnter == TipIInv /\ Tip!Enter => TipIInv'
<1> SUFFICES ASSUME TipIInv, Tip!Enter
             PROVE  TipIInv'
  OBVIOUS
<1>1. TipMouse'
  BY DEF TipIInv, TipMouse, Tip!Enter
<1>2. hoverState' = "in" /\ pendingOut' = pendingOut /\ UNCHANGED <<near, last>>
  BY DEF Tip!Enter
<1>3. pendingOut' \in 0..MaxPending /\ pendingIn \in 0..MaxPending
  BY <1>2 DEF TipIInv, TipTyped
<1>4. CASE DelayIn
  <2>1. tip' = tip /\ text' = text /\ gravity' = gravity /\ Tip!FixTitle
    BY <1>4 DEF Tip!Enter
  <2>2. title' = "" /\ original' = last
    BY <2>1 DEF Tip!FixTitle, TipIInv, TipKnows
  <2>3. pendingIn < MaxPending /\ pendingIn' = pendingIn + 1
    BY <1>4 DEF Tip!Enter
  <2>4. pendingIn' \in 0..MaxPending
    BY <1>3, <2>3, PendingBound
  <2>5. TipTyped' /\ TipKnows'
    BY <1>2, <1>3, <2>1, <2>2, <2>4 DEF TipIInv, TipTyped, TipKnows
  <2>6. QED
    BY <1>1, <2>5 DEF TipIInv
<1>5. CASE ~DelayIn
  <2>1. Tip!Show /\ pendingIn' = pendingIn
    BY <1>5 DEF Tip!Enter
  <2>2. QED
    BY <1>1, <1>2, <1>3, <2>1, TipShown DEF TipIInv
<1>6. QED
  BY <1>4, <1>5

LEMMA TipLeave == TipIInv /\ Tip!Leave => TipIInv'
<1> SUFFICES ASSUME TipIInv, Tip!Leave
             PROVE  TipIInv'
  OBVIOUS
<1>1. TipMouse'
  BY DEF TipIInv, TipMouse, Tip!Leave
<1>2. /\ hoverState' = "out" /\ pendingIn' = pendingIn
      /\ UNCHANGED <<title, original, text, gravity, near, last>>
  BY DEF Tip!Leave
<1>3. \/ pendingOut < MaxPending /\ pendingOut' = pendingOut + 1 /\ tip' = tip
      \/ pendingOut' = pendingOut /\ tip' \in {"off", "fading"}
  BY DEF Tip!Leave, Tip!Hide
<1>4. pendingOut' \in 0..MaxPending
  BY <1>3, PendingBound DEF TipIInv
<1>5. tip' \in {"off", "on", "fading"}
  BY <1>3 DEF TipIInv, TipTyped
<1>6. tip' = "on" => pendingOut' > 0
  BY <1>3, PendingBound DEF TipIInv
<1>7. TipTyped'
  BY <1>2, <1>4, <1>5 DEF TipIInv, TipTyped
<1>8. TipKnows'
  BY <1>2, <1>6 DEF TipIInv, TipKnows
<1>9. QED
  BY <1>1, <1>7, <1>8 DEF TipIInv

LEMMA TipShowTimer == TipIInv /\ Tip!ShowTimer => TipIInv'
<1> SUFFICES ASSUME TipIInv, Tip!ShowTimer
             PROVE  TipIInv'
  OBVIOUS
<1>1. TipMouse'
  BY DEF TipIInv, TipMouse, Tip!ShowTimer
<1>2. UNCHANGED <<hoverState, pendingOut, near, last>>
  BY DEF Tip!ShowTimer
<1>3. pendingIn > 0 /\ pendingIn' = pendingIn - 1
  BY DEF Tip!ShowTimer
<1>4. pendingIn' \in 0..MaxPending /\ pendingOut' \in 0..MaxPending
  BY <1>2, <1>3, PendingBound DEF TipIInv
<1>5. CASE hoverState = "in"
  BY <1>1, <1>2, <1>4, <1>5, TipShown DEF Tip!ShowTimer, TipIInv
<1>6. CASE hoverState # "in"
  <2>1. UNCHANGED <<tip, text, gravity, title, original>>
    BY <1>6 DEF Tip!ShowTimer
  <2>2. TipTyped' /\ TipKnows'
    BY <1>2, <1>4, <2>1 DEF TipIInv, TipTyped, TipKnows
  <2>3. QED
    BY <1>1, <2>2 DEF TipIInv
<1>7. QED
  BY <1>5, <1>6

LEMMA TipHideTimer == TipIInv /\ Tip!HideTimer => TipIInv'
<1> SUFFICES ASSUME TipIInv, Tip!HideTimer
             PROVE  TipIInv'
  OBVIOUS
<1>1. TipMouse'
  BY DEF TipIInv, TipMouse, Tip!HideTimer
<1>2. UNCHANGED <<hoverState, pendingIn, text, gravity, title, original, near, last>>
  BY DEF Tip!HideTimer
<1>3. pendingOut > 0 /\ pendingOut' = pendingOut - 1
  BY DEF Tip!HideTimer
<1>4. pendingOut' \in 0..MaxPending
  BY <1>3, PendingBound DEF TipIInv
<1>5. tip' \in {"off", "fading", tip} /\ (tip' = "on" => tip = "on" /\ hoverState # "out")
  BY DEF Tip!HideTimer, Tip!Hide
<1>6. TipTyped'
  BY <1>2, <1>4, <1>5 DEF TipIInv, TipTyped
<1>7. tip' = "on" => hoverState' = "in"
  BY <1>2, <1>5 DEF TipIInv, TipKnows
<1>8. TipKnows'
  BY <1>2, <1>7 DEF TipIInv, TipKnows
<1>9. QED
  BY <1>1, <1>6, <1>8 DEF TipIInv

LEMMA TipPage ==
  ASSUME TipIInv,
         \/ Tip!Faded \/ Tip!Revalidate
         \/ \E t \in Tip!Titles : Tip!SetTitle(t)
         \/ \E b \in BOOLEAN : Tip!Enable(b)
         \/ \E edges \in SUBSET Tip!Edges : Tip!Scroll(edges)
         \/ UNCHANGED Tip!vars
  PROVE  TipIInv'
<1>1. TipMouse'
  BY DEF TipIInv, TipMouse, Tip!Faded, Tip!Revalidate, Tip!SetTitle, Tip!Enable,
         Tip!Scroll, Tip!vars
<1>2. /\ UNCHANGED <<hoverState, pendingIn, pendingOut, original, text, gravity>>
      /\ tip' \in {"off", tip}
      /\ near' = near \/ near' \subseteq Tip!Edges
      /\ \/ title' = title /\ last' = last
         \/ title' \in Tip!Titles /\ last' = title'
  BY DEF Tip!Faded, Tip!Revalidate, Tip!SetTitle, Tip!Enable, Tip!Scroll, Tip!vars
<1>3. TipTyped'
  BY <1>2 DEF TipIInv, TipTyped
<1>4. TipKnows'
  BY <1>2 DEF TipIInv, TipTyped, TipKnows, Tip!Titles
<1>5. QED
  BY <1>1, <1>3, <1>4 DEF TipIInv

LEMMA TipNextInv == TipIInv /\ [Tip!Next]_(Tip!vars) => TipIInv'
BY TipEnter, TipLeave, TipShowTimer, TipHideTimer, TipPage DEF Tip!Next

LEMMA TipIInvSound == TipIInv => Tip!TipIsRight
<1> SUFFICES ASSUME TipIInv
             PROVE  Tip!TipIsRight
  OBVIOUS
<1>1. Tip!TypeOK
  BY DEF TipIInv, TipTyped, TipMouse, Tip!TypeOK
<1>2. Tip!ShownForMouse
  BY DEF TipIInv, TipMouse, TipKnows, Tip!ShownForMouse
<1>3. QED
  BY <1>1, <1>2 DEF TipIInv, TipKnows, Tip!GravityIsKnown, Tip!TipIsRight

(* What a step does to the tip *)
LEMMA TipStep == TipIInv /\ [Tip!Next]_(Tip!vars) => Tip!StepIsRight
<1> SUFFICES ASSUME TipIInv, [Tip!Next]_(Tip!vars)
             PROVE  Tip!StepIsRight
  OBVIOUS
<1>1. CASE Tip!Show
  <2>1. Tip!Stays /\ Tip!ShowsLast
    BY <1>1, TipShows DEF TipIInv, Tip!Stays, Tip!ShowsLast
  <2>2. Tip!VariesMinimally
    <3>1. tip # "on" /\ tip' = "on" => gravity' = Tip!AutoBounds(near)
      BY <1>1, TipShows DEF TipIInv
    <3>2. Tip!Preferred = <<Tip!Preferred[1], Tip!Preferred[2]>>
      BY Assumptions DEF Tip!TipsyAssumption, Tip!Preferred
    <3>3. QED
      BY <3>1, <3>2 DEF Tip!VariesMinimally, Tip!AutoBounds
  <2>3. QED
    BY <2>1, <2>2 DEF Tip!StepIsRight
<1>2. CASE Tip!HideTimer
  <2>1. tip' # tip => hoverState = "out"
    BY <1>2 DEF Tip!HideTimer
  <2>2. tip' = "on" => tip = "on"
    BY <1>2 DEF Tip!HideTimer, Tip!Hide
  <2>3. tip' # tip => over # TRUE
    BY <2>1 DEF TipIInv, TipMouse
  <2>4. QED
    BY <2>2, <2>3
       DEF Tip!StepIsRight, Tip!Stays, Tip!ShowsLast, Tip!VariesMinimally
<1>3. CASE Tip!Leave
  <2>1. tip' = "on" => tip = "on"
    BY <1>3 DEF Tip!Leave, Tip!Hide
  <2>2. ~over'
    BY <1>3 DEF Tip!Leave
  <2>3. QED
    BY <2>1, <2>2 DEF Tip!StepIsRight, Tip!Stays, Tip!ShowsLast, Tip!VariesMinimally
<1>4. CASE Tip!Faded \/ Tip!Revalidate
  BY <1>4
     DEF Tip!Faded, Tip!Revalidate, Tip!StepIsRight, Tip!Stays, Tip!ShowsLast,
         Tip!VariesMinimally
<1>5. CASE tip' = tip
  BY <1>5 DEF Tip!StepIsRight, Tip!Stays, Tip!ShowsLast, Tip!VariesMinimally
<1>6. Tip!Enter => Tip!Show \/ tip' = tip
  BY DEF Tip!Enter
<1>7. Tip!ShowTimer => Tip!Show \/ tip' = tip
  BY DEF Tip!ShowTimer
<1>8. QED
  BY <1>1, <1>2, <1>3, <1>4, <1>5, <1>6, <1>7
     DEF Tip!Next, Tip!vars, Tip!SetTitle, Tip!Enable, Tip!Scroll

(* The tooltip alone: no timer of an earlier visit leaves it behind or takes it away,   *)
(* and it comes with the last title, on the side where there is room.             *)
THEOREM TipAlone == Tip!Spec => []Tip!TipIsRight /\ [][Tip!StepIsRight]_(Tip!vars)
<1>1. TipIInv /\ [Tip!Next]_(Tip!vars) => [Tip!StepIsRight]_(Tip!vars)
  BY TipStep
<1>2. QED
  BY TipInitInv, TipNextInv, TipIInvSound, <1>1, PTL DEF Tip!Spec

(* The same of the behaviours that MCUserInterface checks. *)
THEOREM TipCorrect == Spec => TipIsRight
<1> DEFINE Inv == part = "tip" => TipIInv
<1>1. Init => Inv
  BY TipInitInv DEF Init, Loop, Sides, Browser
<1>2. [Next]_everything /\ part' = "tip" => part = "tip" /\ [Tip!Next]_(Tip!vars)
  BY DEF Next, OfWindow, OfLog, OfTip, OfCut, OfPolling, OfStart, OfRequest, Loop, Sides, Browser,
         everything, ofTip, Tip!vars
<1>3. [Next]_everything /\ part = "tip" => [Tip!Next]_(Tip!vars)
  BY DEF Next, OfWindow, OfLog, OfTip, OfCut, OfPolling, OfStart, OfRequest, Loop, Sides, Browser,
         everything, ofTip, Tip!vars
<1>4. Inv /\ [Next]_everything => Inv'
  BY <1>2, TipNextInv
<1>5. Inv => (part = "tip" => Tip!TipIsRight)
  BY TipIInvSound
<1>6. Inv /\ [Next]_everything => [part = "tip" => Tip!StepIsRight]_everything
  BY <1>3, TipStep
<1>7. QED
  BY <1>1, <1>4, <1>5, <1>6, PTL DEF Spec, TipIsRight

(***************************************************************************)
(* Sessions: what the window shows when nothing is under way is decided by the last   *)
(* of the updates that are posted, and by who is still to post one.               *)
(***************************************************************************)

(* The last update of the kind K, if there is one, is one of S. *)
EndsIn(q, K, S) ==
  \A i \in 1..Len(q) :
    q[i] \in K /\ (\A j \in (i + 1)..Len(q) : q[j] \notin K) => q[i] \in S
Free(q, K) == \A i \in 1..Len(q) : q[i] \notin K

ofPlayer == {"play", "stop", "error"}
ofIndicator == {"on", "off"}

Pending == untold \cup ({firing} \ {Window!Nobody})
EndPending == \E e \in Pending : e.kind = "end"
Running == compiling > 0 \/ timers > 0 \/ givingUp > 0
Stopped == [selected |-> "stop", disable |-> FALSE]

SetsTyped ==
  /\ currentSessions \subseteq Clients /\ sessions \subseteq Clients
  /\ untold \subseteq Window!Events /\ firing \in Window!Events \cup {Window!Nobody}
  /\ fxQueue \in Seq(Window!Updates) /\ stopping \subseteq Clients
ViewTyped ==
  /\ indicator \in ofIndicator
  /\ player \in [selected : {"play", "stop"}, disable : BOOLEAN]
  /\ status \in [selected : BOOLEAN, disable : BOOLEAN]
RunsTyped ==
  /\ compiling \in Nat /\ timers \in Nat /\ givingUp \in Nat
  /\ compiling + timers + givingUp <= runs
  /\ starts \in 0..MaxStarts /\ runs \in 0..MaxRuns
HistoryTyped == overtaken \in BOOLEAN /\ overruled \in BOOLEAN /\ contented \in BOOLEAN

(* One event at most is to be told of a session. *)
EventsInv ==
  /\ \A e \in Pending :
       IF e.kind = "start" THEN ~e.direct /\ e.session \in currentSessions
       ELSE e.session \notin currentSessions
  /\ \A e, f \in untold : e.session = f.session => e = f
  /\ firing # Window!Nobody => \A e \in untold : e.session # firing.session

(* The indicator knows the sessions whose start it was told, but not their end. *)
StartUntold(c) == \E e \in untold : e.kind = "start" /\ e.session = c
EndUntold(c) == \E e \in untold : e.kind = "end" /\ e.session = c
SessionsInv ==
  \A c \in Clients : c \in sessions <=> \/ c \in currentSessions /\ ~StartUntold(c)
                                        \/ EndUntold(c)

(* Without a session, the last update of the player stops it; or it is stopped, or   *)
(* a run will see to it. *)
StoppedInv ==
  currentSessions = {} /\ ~EndPending =>
    /\ EndsIn(fxQueue, ofPlayer, {"stop", "error"})
    /\ Free(fxQueue, ofPlayer) => player = Stopped \/ Running

(* With a session that is told of and not to be stopped, it plays. *)
Connected ==
  {c \in currentSessions \ stopping :
     ~\E e \in Pending : e.kind = "start" /\ e.session = c}
PlayingInv ==
  Connected # {} =>
    /\ EndsIn(fxQueue, ofPlayer, {"play", "error"})
    /\ Free(fxQueue, ofPlayer) => player.selected = "play" \/ overruled = TRUE

Wanted == IF sessions = {} THEN "off" ELSE "on"
IndicatorInv ==
  overtaken = FALSE =>
    /\ EndsIn(fxQueue, ofIndicator, {Wanted})
    /\ Free(fxQueue, ofIndicator) => indicator = Wanted

(* Who disabled a button enables it, or was content. *)
DisabledInv ==
  status.disable = TRUE \/ player.disable = TRUE =>
    Running \/ contented = TRUE \/ ~Free(fxQueue, {"error"})

WindowTyped == SetsTyped /\ ViewTyped /\ RunsTyped /\ HistoryTyped
WindowIInv ==
  /\ WindowTyped /\ EventsInv /\ SessionsInv
  /\ StoppedInv /\ PlayingInv /\ IndicatorInv /\ DisabledInv

LEMMA EmptyQueue ==
  ASSUME NEW K, NEW S
  PROVE  EndsIn(<<>>, K, S) /\ Free(<<>>, K)
BY DEF EndsIn, Free

LEMMA Appended ==
  ASSUME NEW U, NEW q \in Seq(U), NEW x \in U, NEW K, NEW S
  PROVE  /\ Append(q, x) \in Seq(U)
         /\ x \in K => ~Free(Append(q, x), K) /\ (x \in S => EndsIn(Append(q, x), K, S))
         /\ x \notin K => /\ EndsIn(q, K, S) => EndsIn(Append(q, x), K, S)
                          /\ Free(Append(q, x), K) <=> Free(q, K)
<1> DEFINE r == Append(q, x)
<1>1. /\ r \in Seq(U) /\ Len(q) \in Nat /\ Len(r) = Len(q) + 1 /\ r[Len(q) + 1] = x
      /\ \A i \in 1..Len(q) : r[i] = q[i]
  OBVIOUS
<1> HIDE DEF r
<1>2. x \in K => ~Free(r, K)
  BY <1>1 DEF Free
<1>3. ASSUME x \in K, x \in S
      PROVE  EndsIn(r, K, S)
  <2> SUFFICES ASSUME NEW i \in 1..Len(r), r[i] \in K,
                      \A j \in (i + 1)..Len(r) : r[j] \notin K
               PROVE  r[i] \in S
    BY DEF EndsIn
  <2>1. i = Len(q) + 1
    BY <1>1, <1>3
  <2>2. QED
    BY <1>1, <1>3, <2>1
<1>4. ASSUME x \notin K, EndsIn(q, K, S)
      PROVE  EndsIn(r, K, S)
  <2> SUFFICES ASSUME NEW i \in 1..Len(r), r[i] \in K,
                      \A j \in (i + 1)..Len(r) : r[j] \notin K
               PROVE  r[i] \in S
    BY DEF EndsIn
  <2>1. i \in 1..Len(q) /\ q[i] = r[i]
    BY <1>1, <1>4
  <2>2. \A j \in (i + 1)..Len(q) : q[j] \notin K
    BY <1>1
  <2>3. QED
    BY <1>4, <2>1, <2>2 DEF EndsIn
<1>5. x \notin K => (Free(r, K) <=> Free(q, K))
  BY <1>1 DEF Free
<1>6. QED
  BY <1>1, <1>2, <1>3, <1>4, <1>5 DEF r

LEMMA Removed ==
  ASSUME NEW U, NEW q \in Seq(U), q # <<>>, NEW K, NEW S
  PROVE  /\ Tail(q) \in Seq(U) /\ Head(q) \in U
         /\ EndsIn(q, K, S) => EndsIn(Tail(q), K, S)
         /\ EndsIn(q, K, S) /\ Free(Tail(q), K) /\ Head(q) \in K => Head(q) \in S
         /\ Free(Tail(q), K) /\ Head(q) \notin K => Free(q, K)
<1> DEFINE r == Tail(q)
<1>1. /\ r \in Seq(U) /\ Head(q) \in U /\ Head(q) = q[1]
      /\ Len(q) \in Nat /\ Len(q) > 0 /\ Len(r) = Len(q) - 1
      /\ \A i \in 1..Len(r) : r[i] = q[i + 1]
  OBVIOUS
<1> HIDE DEF r
<1>2. \A i \in 2..Len(q) : i - 1 \in 1..Len(r) /\ r[i - 1] = q[i]
  BY <1>1
<1>3. ASSUME EndsIn(q, K, S)
      PROVE  EndsIn(r, K, S)
  <2> SUFFICES ASSUME NEW i \in 1..Len(r), r[i] \in K,
                      \A j \in (i + 1)..Len(r) : r[j] \notin K
               PROVE  r[i] \in S
    BY DEF EndsIn
  <2>1. i + 1 \in 1..Len(q) /\ q[i + 1] = r[i]
    BY <1>1
  <2>2. \A j \in (i + 2)..Len(q) : q[j] \notin K
    BY <1>1, <1>2
  <2>3. QED
    BY <1>3, <2>1, <2>2 DEF EndsIn
<1>4. ASSUME EndsIn(q, K, S), Free(r, K), Head(q) \in K
      PROVE  Head(q) \in S
  <2>1. \A j \in 2..Len(q) : q[j] \notin K
    BY <1>2, <1>4 DEF Free
  <2>2. QED
    BY <1>1, <1>4, <2>1 DEF EndsIn
<1>5. ASSUME Free(r, K), Head(q) \notin K
      PROVE  Free(q, K)
  <2> SUFFICES ASSUME NEW i \in 1..Len(q)
               PROVE  q[i] \notin K
    BY DEF Free
  <2>1. CASE i = 1
    BY <1>1, <1>5, <2>1
  <2>2. CASE i # 1
    BY <1>1, <1>2, <1>5, <2>2 DEF Free
  <2>3. QED
    BY <2>1, <2>2
<1>6. QED
  BY <1>1, <1>3, <1>4, <1>5 DEF r

LEMMA WindowInitInv == Window!Init => WindowIInv
<1> SUFFICES ASSUME Window!Init
             PROVE  WindowIInv
  OBVIOUS
<1>1. MaxStarts \in Nat /\ MaxRuns \in Nat
  BY Assumptions DEF Window!SessionsAssumption
<1>2. /\ currentSessions = {} /\ untold = {} /\ firing = Window!Nobody /\ sessions = {}
      /\ fxQueue = <<>> /\ stopping = {} /\ indicator = "off" /\ player = Stopped
      /\ status = [selected |-> FALSE, disable |-> FALSE]
  BY DEF Window!Init, Stopped
<1>3. compiling = 0 /\ timers = 0 /\ givingUp = 0 /\ starts = 0 /\ runs = 0
  BY DEF Window!Init
<1>4. SetsTyped /\ ViewTyped
  BY <1>2 DEF SetsTyped, ViewTyped, Stopped, ofIndicator
<1>5. RunsTyped
  BY <1>1, <1>3 DEF RunsTyped
<1>6. HistoryTyped
  BY DEF Window!Init, HistoryTyped
<1>7. Pending = {}
  BY <1>2 DEF Pending
<1>8. EventsInv /\ SessionsInv
  BY <1>2, <1>7 DEF EventsInv, SessionsInv, StartUntold, EndUntold
<1>9. StoppedInv /\ PlayingInv /\ IndicatorInv
  BY <1>2, EmptyQueue DEF StoppedInv, PlayingInv, Connected, IndicatorInv, Wanted
<1>10. DisabledInv
  BY <1>2 DEF DisabledInv, Stopped
<1>11. QED
  BY <1>4, <1>5, <1>6, <1>8, <1>9, <1>10 DEF WindowIInv, WindowTyped

LEMMA WindowIInvSound == WindowIInv => Window!WindowIsRight
<1> SUFFICES ASSUME WindowIInv
             PROVE  Window!WindowIsRight
  OBVIOUS
<1>1. Window!TypeOK
  <2>1. compiling \in 0..MaxRuns /\ timers \in 0..MaxRuns /\ givingUp \in 0..MaxRuns
    BY Assumptions DEF Window!SessionsAssumption, WindowIInv, WindowTyped, RunsTyped
  <2>2. {status.selected, status.disable, player.disable} \subseteq BOOLEAN
    BY DEF WindowIInv, WindowTyped, ViewTyped
  <2>3. indicator \in {"on", "off"} /\ player.selected \in {"play", "stop"}
    BY DEF WindowIInv, WindowTyped, ViewTyped, ofIndicator
  <2>4. QED
    BY <2>1, <2>2, <2>3
       DEF WindowIInv, WindowTyped, SetsTyped, RunsTyped, HistoryTyped, Window!TypeOK
<1>2. ASSUME Window!Settled
      PROVE  /\ fxQueue = <<>> /\ untold = {} /\ Pending = {} /\ stopping = {}
             /\ ~EndPending /\ ~Running
  <2>1. fxQueue = <<>> /\ untold = {} /\ Pending = {} /\ stopping = {}
    BY <1>2 DEF Window!Settled, Pending
  <2>2. compiling + timers + givingUp = 0
    BY <1>2 DEF Window!Settled
  <2>3. ~Running
    BY <2>2 DEF Running, WindowIInv, WindowTyped, RunsTyped
  <2>4. QED
    BY <2>1, <2>3 DEF EndPending
<1>3. Window!RestIsStopped
  BY <1>2, EmptyQueue DEF Window!RestIsStopped, WindowIInv, StoppedInv, Stopped
<1>4. Window!ConnectedIsPlaying
  <2> SUFFICES ASSUME Window!Settled, currentSessions # {}, ~overruled
               PROVE  player.selected = "play"
    BY DEF Window!ConnectedIsPlaying
  <2>1. Connected # {}
    BY <1>2 DEF Connected
  <2>2. QED
    BY <1>2, <2>1, EmptyQueue DEF WindowIInv, PlayingInv
<1>5. Window!IndicatorIsRight
  <2> SUFFICES ASSUME Window!Settled, ~overtaken
               PROVE  indicator = "on" <=> currentSessions # {}
    BY DEF Window!IndicatorIsRight
  <2>1. sessions = currentSessions
    BY <1>2 DEF WindowIInv, WindowTyped, SetsTyped, SessionsInv, StartUntold, EndUntold
  <2>2. overtaken = FALSE
    BY DEF WindowIInv, WindowTyped, HistoryTyped
  <2>3. QED
    BY <1>2, <2>1, <2>2, EmptyQueue DEF WindowIInv, IndicatorInv, Wanted
<1>6. Window!DisabledByRun
  BY <1>2, EmptyQueue DEF Window!DisabledByRun, WindowIInv, DisabledInv
<1>7. QED
  BY <1>1, <1>3, <1>4, <1>5, <1>6 DEF Window!WindowIsRight

(***************************************************************************)
(* What a step may leave as it is.                                           *)
(***************************************************************************)

LEMMA QuietKeeps ==
  ASSUME WindowIInv, UNCHANGED <<currentSessions, untold, firing, sessions>>
  PROVE  /\ EventsInv' /\ SessionsInv' /\ Pending' = Pending
         /\ EndPending' <=> EndPending
         /\ stopping \subseteq stopping' => Connected' \subseteq Connected
BY DEF WindowIInv, EventsInv, SessionsInv, Pending, EndPending, StartUntold, EndUntold,
       Connected

LEMMA IndicatorKept ==
  ASSUME IndicatorInv, UNCHANGED <<sessions, fxQueue, indicator, overtaken>>
  PROVE  IndicatorInv'
BY DEF IndicatorInv, Wanted

LEMMA StoppedKept ==
  ASSUME WindowIInv, UNCHANGED <<currentSessions, untold, firing, sessions, fxQueue>>,
         \/ player' = Stopped \/ Running'
         \/ player' = player /\ (Running => Running')
  PROVE  StoppedInv'
BY QuietKeeps DEF WindowIInv, StoppedInv

LEMMA PlayingKept ==
  ASSUME WindowIInv, UNCHANGED <<currentSessions, untold, firing, sessions, fxQueue>>,
         stopping \subseteq stopping',
         \/ Connected' = {} \/ player'.selected = "play" \/ overruled' = TRUE
         \/ /\ player'.selected = player.selected
            /\ overruled = TRUE => overruled' = TRUE
  PROVE  PlayingInv'
BY QuietKeeps DEF WindowIInv, PlayingInv

(***************************************************************************)
(* The buttons and the timers.                                               *)
(***************************************************************************)

LEMMA RunBegins ==
  ASSUME WindowIInv, NEW p \in {"play", "stop"}, p \in {player.selected, "play"},
         runs < MaxRuns, runs' = runs + 1, compiling' = compiling + 1,
         player' = [selected |-> p, disable |-> TRUE],
         status' \in [selected : BOOLEAN, disable : BOOLEAN],
         UNCHANGED <<timers, givingUp, indicator, overruled, contented>>,
         UNCHANGED <<currentSessions, untold, firing, sessions, fxQueue, stopping>>,
         UNCHANGED <<starts, overtaken>>
  PROVE  WindowIInv'
<1>1. SetsTyped' /\ ViewTyped' /\ HistoryTyped'
  BY DEF WindowIInv, WindowTyped, SetsTyped, ViewTyped, HistoryTyped
<1>2. RunsTyped' /\ Running'
  BY Assumptions DEF WindowIInv, WindowTyped, RunsTyped, Running, Window!SessionsAssumption
<1>3. StoppedInv'
  BY <1>2, StoppedKept
<1>4. PlayingInv'
  BY PlayingKept
<1>5. IndicatorInv'
  BY IndicatorKept DEF WindowIInv
<1>6. DisabledInv'
  BY <1>2 DEF DisabledInv
<1>7. QED
  BY <1>1, <1>2, <1>3, <1>4, <1>5, <1>6, QuietKeeps DEF WindowIInv, WindowTyped

LEMMA RunFails ==
  ASSUME WindowIInv, Window!onRunError, RunsTyped',
         UNCHANGED <<currentSessions, untold, firing, sessions, fxQueue, stopping>>,
         UNCHANGED overtaken
  PROVE  WindowIInv'
<1>1. /\ player' = Stopped /\ status' = [selected |-> FALSE, disable |-> FALSE]
      /\ indicator' = indicator
  BY DEF Window!onRunError, Stopped
<1>2. overruled' \in BOOLEAN /\ contented' \in BOOLEAN
      /\ (currentSessions # {} => overruled' = TRUE)
  BY DEF Window!onRunError, WindowIInv, WindowTyped, HistoryTyped
<1>3. SetsTyped' /\ ViewTyped'
  BY <1>1 DEF WindowIInv, WindowTyped, SetsTyped, ViewTyped, Stopped
<1>4. HistoryTyped'
  BY <1>2 DEF WindowIInv, WindowTyped, HistoryTyped
<1>5. StoppedInv'
  BY <1>1, StoppedKept
<1>6. PlayingInv'
  BY <1>2, PlayingKept DEF Connected
<1>7. IndicatorInv'
  BY <1>1, IndicatorKept DEF WindowIInv
<1>8. DisabledInv'
  BY <1>1 DEF DisabledInv, Stopped
<1>9. QED
  BY <1>3, <1>4, <1>5, <1>6, <1>7, <1>8, QuietKeeps DEF WindowIInv, WindowTyped

LEMMA StopBegins ==
  ASSUME WindowIInv, stopping' = currentSessions,
         \/ player' = player
         \/ player.disable = FALSE /\ player' = Stopped,
         status' \in {status, [status EXCEPT !.selected = FALSE]},
         UNCHANGED <<currentSessions, untold, firing, sessions, fxQueue>>,
         UNCHANGED <<compiling, timers, givingUp, runs, starts, indicator>>,
         UNCHANGED <<overtaken, overruled, contented>>
  PROVE  WindowIInv'
<1>1. status' \in [selected : BOOLEAN, disable : BOOLEAN] /\ status'.disable = status.disable
  BY DEF WindowIInv, WindowTyped, ViewTyped
<1>2. SetsTyped' /\ ViewTyped'
  <2>1. SetsTyped'
    BY DEF WindowIInv, WindowTyped, SetsTyped
  <2>2. player' \in [selected : {"play", "stop"}, disable : BOOLEAN]
    <3>1. Stopped \in [selected : {"play", "stop"}, disable : BOOLEAN]
      BY DEF Stopped
    <3>2. QED
      BY <3>1 DEF WindowIInv, WindowTyped, ViewTyped
  <2>3. indicator' \in ofIndicator
    BY DEF WindowIInv, WindowTyped, ViewTyped
  <2>4. QED
    BY <1>1, <2>1, <2>2, <2>3 DEF ViewTyped
<1>3. RunsTyped' /\ HistoryTyped' /\ (Running' <=> Running)
  BY DEF WindowIInv, WindowTyped, RunsTyped, HistoryTyped, Running
<1>4. StoppedInv'
  BY <1>3, StoppedKept
<1>5. PlayingInv'
  BY DEF PlayingInv, Connected
<1>6. IndicatorInv'
  BY IndicatorKept DEF WindowIInv
<1>7. DisabledInv'
  BY <1>1, <1>3 DEF WindowIInv, DisabledInv, Stopped
<1>8. QED
  BY <1>2, <1>3, <1>4, <1>5, <1>6, <1>7, QuietKeeps DEF WindowIInv, WindowTyped

LEMMA ButtonsInv ==
  ASSUME WindowIInv, NEW valid \in BOOLEAN,
         Window!RunPressed(valid) \/ Window!PlayPressed(valid)
           \/ Window!StatusPressed(valid) \/ Window!StopPressed
  PROVE  WindowIInv'
<1>1. UNCHANGED <<currentSessions, untold, firing, sessions, fxQueue, starts, overtaken>>
  BY DEF Window!RunPressed, Window!PlayPressed, Window!StatusPressed, Window!StopPressed,
         Window!history
<1>2. player.selected \in {"play", "stop"} /\ player.disable \in BOOLEAN
      /\ player = [selected |-> player.selected, disable |-> player.disable]
      /\ status \in [selected : BOOLEAN, disable : BOOLEAN]
  BY DEF WindowIInv, WindowTyped, ViewTyped
<1>3. ASSUME NEW p \in {player.selected, "play"}, Window!RunSession(p, valid),
             UNCHANGED stopping,
             valid => status' \in [selected : BOOLEAN, disable : BOOLEAN]
      PROVE  WindowIInv'
  <2>1. CASE valid = TRUE
    BY <1>1, <1>2, <1>3, <2>1, RunBegins DEF Window!RunSession
  <2>2. CASE valid = FALSE
    <3>1. Window!onRunError /\ UNCHANGED <<compiling, timers, givingUp, runs>>
      BY <1>3, <2>2 DEF Window!RunSession, Window!run
    <3>2. RunsTyped'
      BY <1>1, <3>1 DEF WindowIInv, WindowTyped, RunsTyped
    <3>3. QED
      BY <1>1, <1>3, <3>1, <3>2, RunFails
  <2>3. QED
    BY <2>1, <2>2
<1>4. CASE Window!RunPressed(valid)
  BY <1>2, <1>3, <1>4 DEF Window!RunPressed
<1>5. CASE Window!PlayPressed(valid)
  BY <1>2, <1>3, <1>5 DEF Window!PlayPressed
<1>6. CASE Window!StatusPressed(valid) /\ ~status.selected
  <2>1. Window!RunSession(player.selected, valid) /\ UNCHANGED stopping
    BY <1>6 DEF Window!StatusPressed
  <2>2. valid => status' = [selected |-> TRUE, disable |-> TRUE]
    BY <1>6 DEF Window!StatusPressed
  <2>3. valid => status' \in [selected : BOOLEAN, disable : BOOLEAN]
    <3>1. [selected |-> TRUE, disable |-> TRUE] \in [selected : BOOLEAN, disable : BOOLEAN]
      OBVIOUS
    <3>2. QED
      BY <2>2, <3>1
  <2>4. QED
    BY <1>3, <2>1, <2>3
<1>7. CASE Window!StatusPressed(valid) /\ status.selected
  BY <1>1, <1>7, StopBegins DEF Window!StatusPressed, Window!run
<1>8. CASE Window!StopPressed
  <2>1. player.disable = FALSE /\ player' = Stopped
    BY <1>2, <1>8 DEF Window!StopPressed, Stopped
  <2>2. QED
    BY <1>1, <1>8, <2>1, StopBegins DEF Window!StopPressed, Window!run, Window!history
<1>9. QED
  BY <1>4, <1>5, <1>6, <1>7, <1>8

LEMMA RunInv ==
  ASSUME WindowIInv,
         Window!CompileFails \/ Window!onRunComplete \/ Window!TimerLooks
  PROVE  WindowIInv'
<1>1. UNCHANGED <<currentSessions, untold, firing, sessions, fxQueue, stopping>>
      /\ UNCHANGED <<starts, runs, overtaken>>
  BY DEF Window!CompileFails, Window!onRunComplete, Window!TimerLooks, Window!history
<1>2. RunsTyped'
  BY <1>1
     DEF WindowIInv, WindowTyped, RunsTyped, Window!CompileFails, Window!onRunComplete,
         Window!TimerLooks
<1>3. CASE Window!CompileFails
  BY <1>1, <1>2, <1>3, RunFails DEF Window!CompileFails
<1>4. CASE Window!onRunComplete \/ Window!TimerLooks
  <2>1. UNCHANGED <<indicator, status, player, overruled>>
    BY <1>4 DEF Window!onRunComplete, Window!TimerLooks, Window!view, Window!history
  <2>2. contented' \in BOOLEAN /\ (contented = TRUE => contented' = TRUE)
    BY <1>4
       DEF Window!onRunComplete, Window!TimerLooks, Window!history, WindowIInv,
           WindowTyped, HistoryTyped
  <2>3. Running' \/ (currentSessions # {} /\ contented' = TRUE)
    <3>1. timers \in Nat /\ givingUp \in Nat
      BY DEF WindowIInv, WindowTyped, RunsTyped
    <3>2. Window!onRunComplete => timers' = timers + 1
      BY DEF Window!onRunComplete
    <3>3. Window!TimerLooks /\ currentSessions = {} => givingUp' = givingUp + 1
      BY DEF Window!TimerLooks
    <3>4. Window!TimerLooks /\ currentSessions # {} => contented' = TRUE
      BY DEF Window!TimerLooks
    <3>5. timers' = timers + 1 \/ givingUp' = givingUp + 1 => Running'
      BY <3>1 DEF Running
    <3>6. QED
      BY <1>4, <3>2, <3>3, <3>4, <3>5
  <2>4. SetsTyped' /\ ViewTyped'
    BY <1>1, <2>1 DEF WindowIInv, WindowTyped, SetsTyped, ViewTyped
  <2>5. HistoryTyped'
    BY <1>1, <2>1, <2>2 DEF WindowIInv, WindowTyped, HistoryTyped
  <2>6. StoppedInv'
    BY <1>1, <2>3, StoppedKept DEF StoppedInv
  <2>7. PlayingInv'
    BY <1>1, <2>1, PlayingKept
  <2>8. IndicatorInv'
    BY <1>1, <2>1, IndicatorKept DEF WindowIInv
  <2>9. DisabledInv'
    BY <1>1, <2>1, <2>2, <2>3 DEF WindowIInv, DisabledInv
  <2>10. QED
    BY <1>1, <1>2, <2>4, <2>5, <2>6, <2>7, <2>8, <2>9, QuietKeeps
       DEF WindowIInv, WindowTyped
<1>5. QED
  BY <1>3, <1>4

LEMMA GiveUpInv == WindowIInv /\ Window!GiveUp => WindowIInv'
<1> SUFFICES ASSUME WindowIInv, Window!GiveUp
             PROVE  WindowIInv'
  OBVIOUS
<1>1. /\ UNCHANGED <<currentSessions, untold, firing, sessions, stopping, player>>
      /\ UNCHANGED <<indicator, status, starts, runs, overtaken, overruled, contented>>
      /\ fxQueue' = Append(fxQueue, "error")
  BY DEF Window!GiveUp, Window!view, Window!history
<1>2. RunsTyped'
  BY <1>1 DEF WindowIInv, WindowTyped, RunsTyped, Window!GiveUp
<1>3. fxQueue \in Seq(Window!Updates) /\ "error" \in Window!Updates
  BY DEF WindowIInv, WindowTyped, SetsTyped, Window!Updates
<1>4. SetsTyped'
  BY <1>1, <1>3, Appended DEF WindowIInv, WindowTyped, SetsTyped
<1>5. ViewTyped' /\ HistoryTyped'
  BY <1>1 DEF WindowIInv, WindowTyped, ViewTyped, HistoryTyped
<1>6. StoppedInv' /\ PlayingInv'
  BY <1>1, <1>3, Appended DEF StoppedInv, PlayingInv, ofPlayer
<1>7. IndicatorInv'
  BY <1>1, <1>3, Appended DEF WindowIInv, IndicatorInv, Wanted, ofIndicator
<1>8. DisabledInv'
  BY <1>1, <1>3, Appended DEF DisabledInv
<1>9. QED
  BY <1>1, <1>2, <1>4, <1>5, <1>6, <1>7, <1>8, QuietKeeps DEF WindowIInv, WindowTyped

(***************************************************************************)
(* The JavaFX thread comes to what was posted.                                 *)
(***************************************************************************)

(* What is posted for the one does not concern the other. *)
LEMMA OthersRemoved ==
  ASSUME WindowIInv, fxQueue # <<>>, fxQueue' = Tail(fxQueue)
  PROVE  /\ UNCHANGED <<sessions, indicator, overtaken>> /\ Head(fxQueue) \notin ofIndicator
              => IndicatorInv'
         /\ UNCHANGED <<currentSessions, untold, firing, sessions, player, compiling,
                        timers, givingUp>> /\ Head(fxQueue) \notin ofPlayer
              => StoppedInv'
         /\ UNCHANGED <<currentSessions, untold, firing, sessions, stopping, player,
                        overruled>> /\ Head(fxQueue) \notin ofPlayer
              => PlayingInv'
<1>1. fxQueue \in Seq(Window!Updates)
  BY DEF WindowIInv, WindowTyped, SetsTyped
<1>2. ASSUME UNCHANGED <<sessions, indicator, overtaken>>, Head(fxQueue) \notin ofIndicator
      PROVE  IndicatorInv'
  BY <1>1, <1>2, Removed DEF WindowIInv, IndicatorInv, Wanted
<1>3. ASSUME UNCHANGED <<currentSessions, untold, firing, sessions, player, compiling,
                         timers, givingUp>>, Head(fxQueue) \notin ofPlayer
      PROVE  StoppedInv'
  <2>1. (EndPending' <=> EndPending) /\ (Running' <=> Running)
    BY <1>3, QuietKeeps DEF Running
  <2>2. QED
    BY <1>1, <1>3, <2>1, Removed DEF WindowIInv, StoppedInv
<1>4. ASSUME UNCHANGED <<currentSessions, untold, firing, sessions, stopping, player,
                         overruled>>, Head(fxQueue) \notin ofPlayer
      PROVE  PlayingInv'
  <2>1. Connected' = Connected
    BY <1>4 DEF Connected, Pending
  <2>2. /\ EndsIn(fxQueue, ofPlayer, {"play", "error"})
           => EndsIn(fxQueue', ofPlayer, {"play", "error"})
        /\ Free(fxQueue', ofPlayer) => Free(fxQueue, ofPlayer)
    BY <1>1, <1>4, Removed
  <2>3. QED
    BY <1>4, <2>1, <2>2 DEF WindowIInv, PlayingInv
<1>5. QED
  BY <1>2, <1>3, <1>4

LEMMA DisabledRemoved ==
  ASSUME WindowIInv, fxQueue # <<>>, fxQueue' = Tail(fxQueue), Head(fxQueue) # "error",
         UNCHANGED <<compiling, timers, givingUp>>,
         status'.disable = TRUE \/ player'.disable = TRUE =>
           /\ status.disable = TRUE \/ player.disable = TRUE
           /\ contented = TRUE => contented' = TRUE
  PROVE  DisabledInv'
<1>1. fxQueue \in Seq(Window!Updates)
  BY DEF WindowIInv, WindowTyped, SetsTyped
<1>2. ~Free(fxQueue, {"error"}) => ~Free(fxQueue', {"error"})
  BY <1>1, Removed
<1>3. QED
  BY <1>2 DEF WindowIInv, DisabledInv, Running

LEMMA RunIndicatorInv ==
  ASSUME WindowIInv, Window!RunLater, Head(fxQueue) \in ofIndicator
  PROVE  WindowIInv'
<1>1. /\ fxQueue # <<>> /\ fxQueue' = Tail(fxQueue)
      /\ UNCHANGED <<currentSessions, untold, firing, sessions, stopping>>
      /\ UNCHANGED <<compiling, timers, givingUp, runs, starts, overtaken>>
  BY DEF Window!RunLater, Window!run
<1>2. /\ UNCHANGED <<player, overruled>> /\ indicator' = Head(fxQueue)
      /\ status' \in [selected : BOOLEAN, disable : BOOLEAN]
      /\ contented' \in BOOLEAN
      /\ status'.disable = TRUE \/ player'.disable = TRUE =>
           /\ status.disable = TRUE \/ player.disable = TRUE
           /\ contented = TRUE => contented' = TRUE
  <2>1. /\ player \in [selected : {"play", "stop"}, disable : BOOLEAN]
        /\ status \in [selected : BOOLEAN, disable : BOOLEAN] /\ contented \in BOOLEAN
    BY DEF WindowIInv, WindowTyped, ViewTyped, HistoryTyped
  <2>2. CASE Head(fxQueue) = "on"
    <3>1. Window!RunOn
      BY <2>2 DEF Window!RunLater
    <3>2. status'.disable = FALSE /\ status' \in [selected : BOOLEAN, disable : BOOLEAN]
      BY <3>1 DEF Window!RunOn
    <3>3. contented' \in BOOLEAN
          /\ (player.disable = TRUE => (contented = TRUE => contented' = TRUE))
      BY <2>1, <3>1 DEF Window!RunOn
    <3>4. QED
      BY <2>2, <3>1, <3>2, <3>3 DEF Window!RunOn
  <2>3. CASE Head(fxQueue) = "off"
    <3>1. Window!RunOff
      BY <2>3 DEF Window!RunLater
    <3>2. status'.disable = status.disable
          /\ status' \in [selected : BOOLEAN, disable : BOOLEAN]
      BY <2>1, <3>1 DEF Window!RunOff
    <3>3. QED
      BY <2>1, <2>3, <3>1, <3>2 DEF Window!RunOff
  <2>4. QED
    BY <2>2, <2>3 DEF ofIndicator
<1>3. fxQueue \in Seq(Window!Updates)
  BY DEF WindowIInv, WindowTyped, SetsTyped
<1>4. SetsTyped'
  BY <1>1, <1>3, Removed DEF WindowIInv, WindowTyped, SetsTyped
<1>5. ViewTyped'
  BY <1>2 DEF WindowIInv, WindowTyped, ViewTyped
<1>6. RunsTyped' /\ HistoryTyped'
  BY <1>1, <1>2 DEF WindowIInv, WindowTyped, RunsTyped, HistoryTyped
<1>7. StoppedInv' /\ PlayingInv'
  BY <1>1, <1>2, OthersRemoved DEF ofPlayer, ofIndicator
<1>8. IndicatorInv'
  <2>1. ASSUME overtaken = FALSE, Free(fxQueue', ofIndicator)
        PROVE  indicator' = Wanted'
    <3>1. Head(fxQueue) \in {Wanted}
      BY <1>1, <1>3, <2>1, Removed DEF WindowIInv, IndicatorInv
    <3>2. QED
      BY <1>1, <1>2, <3>1 DEF Wanted
  <2>2. overtaken = FALSE => EndsIn(fxQueue', ofIndicator, {Wanted'})
    BY <1>1, <1>3, Removed DEF WindowIInv, IndicatorInv, Wanted
  <2>3. QED
    BY <1>1, <2>1, <2>2 DEF IndicatorInv
<1>9. DisabledInv'
  BY <1>1, <1>2, DisabledRemoved DEF ofIndicator
<1>10. QED
  BY <1>1, <1>4, <1>5, <1>6, <1>7, <1>8, <1>9, QuietKeeps DEF WindowIInv, WindowTyped

LEMMA RunPlayerInv ==
  ASSUME WindowIInv, Window!RunLater, Head(fxQueue) \in {"play", "stop"}
  PROVE  WindowIInv'
<1>1. /\ fxQueue # <<>> /\ fxQueue' = Tail(fxQueue)
      /\ UNCHANGED <<currentSessions, untold, firing, sessions, stopping>>
      /\ UNCHANGED <<compiling, timers, givingUp, runs, starts, overtaken>>
  BY DEF Window!RunLater, Window!run
<1>2. /\ UNCHANGED <<status, indicator>> /\ overruled' = FALSE
      /\ player' = [selected |-> Head(fxQueue), disable |-> FALSE]
      /\ contented' = (contented /\ status.disable)
  BY DEF Window!RunLater, Window!RunPlay, Window!RunStop
<1>3. fxQueue \in Seq(Window!Updates) /\ contented \in BOOLEAN
      /\ status \in [selected : BOOLEAN, disable : BOOLEAN]
  BY DEF WindowIInv, WindowTyped, SetsTyped, HistoryTyped, ViewTyped
<1>4. SetsTyped'
  BY <1>1, <1>3, Removed DEF WindowIInv, WindowTyped, SetsTyped
<1>5. ViewTyped'
  BY <1>2 DEF WindowIInv, WindowTyped, ViewTyped
<1>6. contented' \in BOOLEAN
      /\ (status.disable = TRUE => (contented = TRUE => contented' = TRUE))
  BY <1>2, <1>3
<1>7. RunsTyped' /\ HistoryTyped'
  BY <1>1, <1>2, <1>6 DEF WindowIInv, WindowTyped, RunsTyped, HistoryTyped
<1>8. StoppedInv'
  <2>1. EndPending' <=> EndPending
    BY <1>1, QuietKeeps
  <2>2. ASSUME currentSessions = {}, ~EndPending
        PROVE  /\ EndsIn(fxQueue', ofPlayer, {"stop", "error"})
               /\ Free(fxQueue', ofPlayer) => player' = Stopped
    <3>1. EndsIn(fxQueue, ofPlayer, {"stop", "error"})
      BY <2>2 DEF WindowIInv, StoppedInv
    <3>2. Head(fxQueue) \in ofPlayer
      BY DEF ofPlayer
    <3>3. EndsIn(fxQueue', ofPlayer, {"stop", "error"})
      BY <1>1, <1>3, <3>1, Removed
    <3>4. Free(fxQueue', ofPlayer) => Head(fxQueue) \in {"stop", "error"}
      BY <1>1, <1>3, <3>1, <3>2, Removed
    <3>5. QED
      BY <1>2, <3>3, <3>4 DEF Stopped
  <2>3. QED
    BY <1>1, <2>1, <2>2 DEF StoppedInv
<1>9. PlayingInv'
  <2>1. ASSUME Connected # {}
        PROVE  /\ EndsIn(fxQueue', ofPlayer, {"play", "error"})
               /\ Free(fxQueue', ofPlayer) => player'.selected = "play"
    BY <1>1, <1>2, <1>3, <2>1, Removed DEF WindowIInv, PlayingInv, ofPlayer
  <2>2. QED
    BY <1>1, <2>1, QuietKeeps DEF PlayingInv
<1>10. IndicatorInv'
  BY <1>1, <1>2, OthersRemoved DEF ofIndicator
<1>11. DisabledInv'
  BY <1>1, <1>2, <1>6, DisabledRemoved
<1>12. QED
  BY <1>1, <1>4, <1>5, <1>7, <1>8, <1>9, <1>10, <1>11, QuietKeeps
     DEF WindowIInv, WindowTyped

LEMMA RunErrorInv ==
  ASSUME WindowIInv, Window!RunLater, Head(fxQueue) = "error"
  PROVE  WindowIInv'
<1>1. /\ fxQueue # <<>> /\ fxQueue' = Tail(fxQueue)
      /\ UNCHANGED <<currentSessions, untold, firing, sessions, stopping>>
      /\ UNCHANGED <<compiling, timers, givingUp, runs, starts, overtaken>>
  BY DEF Window!RunLater, Window!run
<1>2. Window!onRunError
  BY DEF Window!RunLater
<1>3. /\ player' = Stopped /\ status' = [selected |-> FALSE, disable |-> FALSE]
      /\ indicator' = indicator
  BY <1>2 DEF Window!onRunError, Stopped
<1>4. overruled' \in BOOLEAN /\ contented' \in BOOLEAN
      /\ (currentSessions # {} => overruled' = TRUE)
  BY <1>2 DEF Window!onRunError, WindowIInv, WindowTyped, HistoryTyped
<1>5. fxQueue \in Seq(Window!Updates)
  BY DEF WindowIInv, WindowTyped, SetsTyped
<1>6. SetsTyped'
  BY <1>1, <1>5, Removed DEF WindowIInv, WindowTyped, SetsTyped
<1>7. ViewTyped'
  BY <1>3 DEF WindowIInv, WindowTyped, ViewTyped, Stopped
<1>8. RunsTyped' /\ HistoryTyped'
  BY <1>1, <1>4 DEF WindowIInv, WindowTyped, RunsTyped, HistoryTyped
<1>9. StoppedInv'
  <2>1. EndPending' <=> EndPending
    BY <1>1, QuietKeeps
  <2>2. QED
    BY <1>1, <1>3, <1>5, <2>1, Removed DEF WindowIInv, StoppedInv
<1>10. PlayingInv'
  <2>1. Connected' = Connected /\ (Connected # {} => currentSessions # {})
    BY <1>1 DEF Connected, Pending
  <2>2. QED
    BY <1>1, <1>4, <1>5, <2>1, Removed DEF WindowIInv, PlayingInv
<1>11. IndicatorInv'
  BY <1>1, <1>3, OthersRemoved DEF ofIndicator
<1>12. DisabledInv'
  BY <1>3 DEF DisabledInv, Stopped
<1>13. QED
  BY <1>1, <1>6, <1>7, <1>8, <1>9, <1>10, <1>11, <1>12, QuietKeeps
     DEF WindowIInv, WindowTyped

LEMMA RunLaterInv == WindowIInv /\ Window!RunLater => WindowIInv'
<1> SUFFICES ASSUME WindowIInv, Window!RunLater
             PROVE  WindowIInv'
  OBVIOUS
<1>1. Head(fxQueue) \in Window!Updates
  BY Removed DEF Window!RunLater, WindowIInv, WindowTyped, SetsTyped
<1>2. QED
  BY <1>1, RunIndicatorInv, RunPlayerInv, RunErrorInv DEF Window!Updates, ofIndicator

(***************************************************************************)
(* Sessions begin and end.                                                    *)
(***************************************************************************)

LEMMA DisabledKept ==
  ASSUME WindowIInv,
         UNCHANGED <<fxQueue, status, player, compiling, timers, givingUp, contented>>
  PROVE  DisabledInv'
BY DEF WindowIInv, DisabledInv, Running

LEMMA StartInv ==
  ASSUME WindowIInv, NEW c \in Clients, Window!StartSession(c)
  PROVE  WindowIInv'
<1> DEFINE asked == [kind |-> "start", session |-> c, direct |-> FALSE]
<1>1. /\ UNCHANGED <<firing, sessions, fxQueue, stopping, indicator, status, player>>
      /\ UNCHANGED <<compiling, timers, givingUp, runs, overtaken, overruled, contented>>
      /\ currentSessions' = currentSessions \cup {c} /\ untold' = untold \cup {asked}
  BY DEF Window!StartSession, Window!view, Window!run, Window!history
<1>2. /\ c \notin currentSessions /\ firing.session # c
      /\ \A e \in untold : e.session # c
      /\ \A e \in Pending : e.session # c
  BY DEF Window!StartSession, Pending
<1>3. /\ asked \in Window!Events /\ asked.kind = "start" /\ asked.session = c
      /\ asked.direct = FALSE
  BY DEF Window!Events
<1> HIDE DEF asked
<1>4. Pending' = Pending \cup {asked}
  BY <1>1 DEF Pending
<1>5. SetsTyped'
  BY <1>1, <1>3 DEF WindowIInv, WindowTyped, SetsTyped
<1>6. ViewTyped' /\ HistoryTyped'
  BY <1>1 DEF WindowIInv, WindowTyped, ViewTyped, HistoryTyped
<1>7. RunsTyped'
  BY <1>1, Assumptions
     DEF WindowIInv, WindowTyped, RunsTyped, Window!StartSession, Window!SessionsAssumption
<1>8. EventsInv'
  <2>1. ASSUME NEW e \in Pending'
        PROVE  IF e.kind = "start" THEN ~e.direct /\ e.session \in currentSessions'
               ELSE e.session \notin currentSessions'
    <3>1. CASE e = asked
      BY <1>1, <1>3, <3>1
    <3>2. CASE e \in Pending
      BY <1>1, <1>2, <3>2 DEF WindowIInv, EventsInv
    <3>3. QED
      BY <1>4, <2>1, <3>1, <3>2
  <2>2. \A e, f \in untold' : e.session = f.session => e = f
    BY <1>1, <1>2, <1>3 DEF WindowIInv, EventsInv
  <2>3. firing' # Window!Nobody => \A e \in untold' : e.session # firing'.session
    BY <1>1, <1>2, <1>3 DEF WindowIInv, EventsInv
  <2>4. QED
    BY <2>1, <2>2, <2>3 DEF EventsInv
<1>9. SessionsInv'
  <2> SUFFICES ASSUME NEW d \in Clients
               PROVE  d \in sessions' <=> \/ d \in currentSessions' /\ ~StartUntold(d)'
                                          \/ EndUntold(d)'
    BY DEF SessionsInv
  <2>1. EndUntold(d)' <=> EndUntold(d)
    BY <1>1, <1>3 DEF EndUntold
  <2>2. CASE d = c
    <3>1. StartUntold(c)'
      BY <1>1, <1>3 DEF StartUntold
    <3>2. ~EndUntold(c)
      BY <1>2 DEF EndUntold
    <3>3. QED
      BY <1>1, <1>2, <2>1, <2>2, <3>1, <3>2 DEF WindowIInv, SessionsInv
  <2>3. CASE d # c
    <3>1. StartUntold(d)' <=> StartUntold(d)
      BY <1>1, <1>3, <2>3 DEF StartUntold
    <3>2. QED
      BY <1>1, <2>1, <2>3, <3>1 DEF WindowIInv, SessionsInv
  <2>4. QED
    BY <2>2, <2>3
<1>10. StoppedInv'
  BY <1>1 DEF StoppedInv
<1>11. PlayingInv'
  <2>1. Connected' \subseteq Connected
    BY <1>1, <1>3, <1>4 DEF Connected
  <2>2. QED
    BY <1>1, <2>1 DEF WindowIInv, PlayingInv
<1>12. IndicatorInv' /\ DisabledInv'
  BY <1>1, IndicatorKept, DisabledKept DEF WindowIInv
<1>13. QED
  BY <1>5, <1>6, <1>7, <1>8, <1>9, <1>10, <1>11, <1>12 DEF WindowIInv, WindowTyped

LEMMA EndInv ==
  ASSUME WindowIInv, NEW c \in Clients, NEW fx \in BOOLEAN, Window!EndSession(c, fx),
         stopping' \in {stopping, stopping \ {c}},
         UNCHANGED <<firing, sessions, fxQueue, indicator, status, player, starts>>,
         UNCHANGED <<compiling, timers, givingUp, runs, overtaken, overruled, contented>>
  PROVE  WindowIInv'
<1> DEFINE ended == [kind |-> "end", session |-> c, direct |-> fx]
<1>1. currentSessions' = currentSessions \ {c} /\ untold' = untold \cup {ended}
  BY DEF Window!EndSession
<1>2. /\ c \in currentSessions /\ firing.session # c
      /\ \A e \in untold : e.session # c
      /\ \A e \in Pending : e.session # c
  BY DEF Window!EndSession, Pending
<1>3. ended \in Window!Events /\ ended.kind = "end" /\ ended.session = c
  BY DEF Window!Events
<1> HIDE DEF ended
<1>4. Pending' = Pending \cup {ended}
  BY <1>1 DEF Pending
<1>5. SetsTyped'
  BY <1>1, <1>3 DEF WindowIInv, WindowTyped, SetsTyped
<1>6. ViewTyped' /\ HistoryTyped' /\ RunsTyped'
  BY DEF WindowIInv, WindowTyped, ViewTyped, HistoryTyped, RunsTyped
<1>7. EventsInv'
  <2>1. ASSUME NEW e \in Pending'
        PROVE  IF e.kind = "start" THEN ~e.direct /\ e.session \in currentSessions'
               ELSE e.session \notin currentSessions'
    <3>1. CASE e = ended
      BY <1>1, <1>3, <3>1
    <3>2. CASE e \in Pending
      BY <1>1, <1>2, <3>2 DEF WindowIInv, EventsInv
    <3>3. QED
      BY <1>4, <2>1, <3>1, <3>2
  <2>2. \A e, f \in untold' : e.session = f.session => e = f
    BY <1>1, <1>2, <1>3 DEF WindowIInv, EventsInv
  <2>3. firing' # Window!Nobody => \A e \in untold' : e.session # firing'.session
    BY <1>1, <1>2, <1>3 DEF WindowIInv, EventsInv
  <2>4. QED
    BY <2>1, <2>2, <2>3 DEF EventsInv
<1>8. SessionsInv'
  <2> SUFFICES ASSUME NEW d \in Clients
               PROVE  d \in sessions' <=> \/ d \in currentSessions' /\ ~StartUntold(d)'
                                          \/ EndUntold(d)'
    BY DEF SessionsInv
  <2>1. StartUntold(d)' <=> StartUntold(d)
    BY <1>1, <1>3 DEF StartUntold
  <2>2. CASE d = c
    <3>1. EndUntold(c)'
      BY <1>1, <1>3 DEF EndUntold
    <3>2. ~StartUntold(c)
      BY <1>2 DEF StartUntold
    <3>3. QED
      BY <1>2, <2>2, <3>1, <3>2 DEF WindowIInv, SessionsInv
  <2>3. CASE d # c
    <3>1. EndUntold(d)' <=> EndUntold(d)
      BY <1>1, <1>3, <2>3 DEF EndUntold
    <3>2. QED
      BY <1>1, <2>1, <2>3, <3>1 DEF WindowIInv, SessionsInv
  <2>4. QED
    BY <2>2, <2>3
<1>9. StoppedInv'
  BY <1>3, <1>4 DEF StoppedInv, EndPending
<1>10. PlayingInv'
  <2>1. Connected' \subseteq Connected
    BY <1>1, <1>4 DEF Connected
  <2>2. QED
    BY <2>1 DEF WindowIInv, PlayingInv
<1>11. IndicatorInv' /\ DisabledInv'
  BY IndicatorKept, DisabledKept DEF WindowIInv
<1>12. QED
  BY <1>5, <1>6, <1>7, <1>8, <1>9, <1>10, <1>11 DEF WindowIInv, WindowTyped

LEMMA SessionInv ==
  ASSUME WindowIInv, NEW c \in Clients,
         Window!StartSession(c) \/ Window!SessionEnds(c) \/ Window!StopNext(c)
  PROVE  WindowIInv'
<1>1. CASE Window!StartSession(c)
  BY <1>1, StartInv
<1>2. CASE Window!SessionEnds(c)
  BY <1>2, EndInv
     DEF Window!SessionEnds, Window!view, Window!run, Window!history
<1>3. CASE Window!StopNext(c)
  <2>1. /\ UNCHANGED <<firing, sessions, fxQueue, indicator, status, player, starts>>
        /\ UNCHANGED <<compiling, timers, givingUp, runs>>
        /\ UNCHANGED <<overtaken, overruled, contented>>
        /\ stopping' = stopping \ {c}
    BY <1>3 DEF Window!StopNext, Window!view, Window!run, Window!history
  <2>2. CASE Window!EndSession(c, TRUE)
    BY <2>1, <2>2, EndInv
  <2>3. CASE c \notin currentSessions /\ UNCHANGED <<currentSessions, untold>>
    <3>1. SetsTyped' /\ ViewTyped' /\ HistoryTyped' /\ RunsTyped'
      BY <2>1, <2>3
         DEF WindowIInv, WindowTyped, SetsTyped, ViewTyped, HistoryTyped, RunsTyped
    <3>2. StoppedInv'
      BY <2>1, <2>3, StoppedKept DEF Running
    <3>3. PlayingInv'
      <4>1. Connected' = Connected
        BY <2>1, <2>3 DEF Connected, Pending
      <4>2. QED
        BY <2>1, <4>1 DEF WindowIInv, PlayingInv
    <3>4. IndicatorInv' /\ DisabledInv'
      BY <2>1, IndicatorKept, DisabledKept DEF WindowIInv
    <3>5. QED
      BY <2>1, <2>3, <3>1, <3>2, <3>3, <3>4, QuietKeeps DEF WindowIInv, WindowTyped
  <2>4. QED
    BY <1>3, <2>2, <2>3 DEF Window!StopNext
<1>4. QED
  BY <1>1, <1>2, <1>3

(***************************************************************************)
(* The listeners are told.                                                    *)
(***************************************************************************)

(* What may become of the queue and the view when the indicator is told of e. *)
ToldOn(e) == /\ e.kind = "start" /\ sessions' = sessions \cup {e.session}
             /\ fxQueue' = Append(fxQueue, "on") /\ overtaken' = FALSE
             /\ UNCHANGED <<indicator, status, contented>>
ToldOff(e) == /\ e.kind = "end" /\ sessions' = {}
              /\ fxQueue' = Append(fxQueue, "off") /\ overtaken' = FALSE
              /\ UNCHANGED <<indicator, status, contented>>
ToldAtOnce(e) == /\ e.kind = "end" /\ sessions' = {} /\ fxQueue' = fxQueue
                 /\ overtaken' = ("on" \in Window!Range(fxQueue)) /\ indicator' = "off"
                 /\ status' = [status EXCEPT !.selected = FALSE]
                 /\ UNCHANGED contented
ToldNothing(e) == /\ e.kind = "end" /\ sessions' # {}
                  /\ UNCHANGED <<fxQueue, indicator, status, overtaken, contented>>

LEMMA Told ==
  ASSUME WindowIInv, NEW e \in Pending, Window!TellIndicator(e)
  PROVE  /\ ToldOn(e) \/ ToldOff(e) \/ ToldAtOnce(e) \/ ToldNothing(e)
         /\ e.kind = "end" => sessions' = sessions \ {e.session}
         /\ UNCHANGED <<player, overruled>>
<1>1. e.direct \in BOOLEAN /\ e.kind \in {"start", "end"}
      /\ (e.kind = "start" => ~e.direct)
  BY DEF WindowIInv, WindowTyped, SetsTyped, EventsInv, Pending, Window!Events
<1>2. CASE e.kind = "start"
  BY <1>1, <1>2
     DEF Window!TellIndicator, Window!Execute, Window!view, ToldOn
<1>3. CASE e.kind = "end" /\ sessions' # {}
  BY <1>3 DEF Window!TellIndicator, Window!view, Window!history, ToldNothing
<1>4. CASE e.kind = "end" /\ sessions' = {} /\ e.direct
  <2>1. Window!Execute(e.direct, "off", Window!RunOff)
    BY <1>4 DEF Window!TellIndicator
  <2>2. Window!RunOff /\ fxQueue' = fxQueue
    BY <1>4, <2>1 DEF Window!Execute
  <2>3. overtaken' = ("off" = "off" /\ "on" \in Window!Range(fxQueue))
    BY <1>4, <2>1 DEF Window!Execute
  <2>4. overtaken' = ("on" \in Window!Range(fxQueue))
    BY <2>3
  <2>5. sessions' = {} /\ indicator' = "off"
        /\ status' = [status EXCEPT !.selected = FALSE] /\ UNCHANGED contented
    BY <1>4, <2>2 DEF Window!RunOff
  <2>6. UNCHANGED <<player, overruled>> /\ sessions' = sessions \ {e.session}
    BY <1>4, <2>2 DEF Window!RunOff, Window!TellIndicator
  <2>7. ToldAtOnce(e)
    BY <1>4, <2>2, <2>4, <2>5, Zenon DEF ToldAtOnce
  <2>8. QED
    BY <2>6, <2>7
<1>5. CASE e.kind = "end" /\ sessions' = {} /\ ~e.direct
  BY <1>5
     DEF Window!TellIndicator, Window!Execute, Window!view, ToldOff
<1>6. QED
  BY <1>1, <1>2, <1>3, <1>4, <1>5

LEMMA FireInv ==
  ASSUME WindowIInv, NEW e \in untold, Window!Fire(e)
  PROVE  WindowIInv'
<1>1. /\ UNCHANGED <<currentSessions, stopping, compiling, timers, givingUp, runs, starts>>
      /\ untold' = untold \ {e} /\ firing' = e /\ firing = Window!Nobody
      /\ Window!TellIndicator(e)
  BY DEF Window!Fire, Window!run
<1>2. /\ e \in Pending /\ e \in Window!Events /\ e # Window!Nobody
      /\ e.session \in Clients /\ e.kind \in {"start", "end"}
      /\ untold \subseteq Window!Events /\ fxQueue \in Seq(Window!Updates)
  BY DEF WindowIInv, WindowTyped, SetsTyped, Pending, Window!Events, Window!Nobody
<1>3. /\ ToldOn(e) \/ ToldOff(e) \/ ToldAtOnce(e) \/ ToldNothing(e)
      /\ e.kind = "end" => sessions' = sessions \ {e.session}
      /\ UNCHANGED <<player, overruled>>
  BY <1>1, <1>2, Told
<1>4. Pending' = Pending /\ (EndPending' <=> EndPending) /\ Connected' = Connected
  <2>1. Pending' = Pending
    BY <1>1, <1>2 DEF Pending
  <2>2. QED
    BY <1>1, <2>1 DEF EndPending, Connected
<1>5. PICK x \in {"on", "off", "none"} :
        fxQueue' = IF x = "none" THEN fxQueue ELSE Append(fxQueue, x)
  BY <1>3 DEF ToldOn, ToldOff, ToldAtOnce, ToldNothing
<1>6. /\ fxQueue' \in Seq(Window!Updates)
      /\ Free(fxQueue', ofPlayer) <=> Free(fxQueue, ofPlayer)
      /\ Free(fxQueue', {"error"}) <=> Free(fxQueue, {"error"})
      /\ \A S : EndsIn(fxQueue, ofPlayer, S) => EndsIn(fxQueue', ofPlayer, S)
  <2>1. CASE x = "none"
    BY <1>2, <1>5, <2>1
  <2>2. CASE x # "none"
    <3>1. x \in Window!Updates /\ x \notin ofPlayer /\ x \notin {"error"}
          /\ fxQueue' = Append(fxQueue, x)
      BY <1>5, <2>2 DEF Window!Updates, ofPlayer
    <3>2. QED
      BY <1>2, <3>1, Appended
  <2>3. QED
    BY <2>1, <2>2
<1>7. SetsTyped'
  <2>1. sessions' \subseteq Clients
    BY <1>2, <1>3
       DEF ToldOn, ToldOff, ToldAtOnce, ToldNothing, WindowIInv, WindowTyped, SetsTyped
  <2>2. QED
    BY <1>1, <1>2, <1>6, <2>1 DEF WindowIInv, WindowTyped, SetsTyped
<1>8. ViewTyped' /\ status'.disable = status.disable
  <2>1. status \in [selected : BOOLEAN, disable : BOOLEAN]
    BY DEF WindowIInv, WindowTyped, ViewTyped
  <2>2. status' \in [selected : BOOLEAN, disable : BOOLEAN]
        /\ status'.disable = status.disable
    BY <1>3, <2>1 DEF ToldOn, ToldOff, ToldAtOnce, ToldNothing
  <2>3. indicator' \in ofIndicator
    BY <1>3
       DEF ToldOn, ToldOff, ToldAtOnce, ToldNothing, WindowIInv, WindowTyped, ViewTyped,
           ofIndicator
  <2>4. QED
    BY <1>3, <2>2, <2>3 DEF WindowIInv, WindowTyped, ViewTyped
<1>9. HistoryTyped' /\ contented' = contented
  <2>1. contented' = contented
    BY <1>3 DEF ToldOn, ToldOff, ToldAtOnce, ToldNothing
  <2>2. ToldAtOnce(e) => overtaken' \in BOOLEAN
    BY DEF ToldAtOnce
  <2>3. ToldOn(e) \/ ToldOff(e) \/ ToldNothing(e) => overtaken' \in {FALSE, overtaken}
    BY DEF ToldOn, ToldOff, ToldNothing
  <2>4. QED
    BY <1>3, <2>1, <2>2, <2>3 DEF WindowIInv, WindowTyped, HistoryTyped
<1>10. RunsTyped' /\ (Running' <=> Running)
  BY <1>1 DEF WindowIInv, WindowTyped, RunsTyped, Running
<1>11. EventsInv'
  BY <1>1, <1>2, <1>4 DEF WindowIInv, EventsInv
<1>12. SessionsInv'
  <2> SUFFICES ASSUME NEW d \in Clients
               PROVE  d \in sessions' <=> \/ d \in currentSessions' /\ ~StartUntold(d)'
                                          \/ EndUntold(d)'
    BY DEF SessionsInv
  <2>1. \A f \in untold' : f.session # e.session
    BY <1>1, <1>2 DEF WindowIInv, EventsInv
  <2>2. CASE d # e.session
    <3>1. (StartUntold(d)' <=> StartUntold(d)) /\ (EndUntold(d)' <=> EndUntold(d))
      BY <1>1, <2>2 DEF StartUntold, EndUntold
    <3>2. d \in sessions' <=> d \in sessions
      BY <1>2, <1>3, <2>2 DEF ToldOn, ToldOff, ToldAtOnce, ToldNothing
    <3>3. QED
      BY <1>1, <3>1, <3>2 DEF WindowIInv, SessionsInv
  <2>3. CASE d = e.session
    <3>1. ~StartUntold(d)' /\ ~EndUntold(d)'
      BY <2>1, <2>3 DEF StartUntold, EndUntold
    <3>2. d \in sessions' <=> e.kind = "start"
      BY <1>2, <1>3, <2>3 DEF ToldOn, ToldOff, ToldAtOnce, ToldNothing
    <3>3. d \in currentSessions <=> e.kind = "start"
      BY <1>2, <2>3 DEF WindowIInv, EventsInv
    <3>4. QED
      BY <1>1, <3>1, <3>2, <3>3
  <2>4. QED
    BY <2>2, <2>3
<1>13. StoppedInv' /\ PlayingInv'
  BY <1>1, <1>3, <1>4, <1>6, <1>10 DEF WindowIInv, StoppedInv, PlayingInv
<1>14. IndicatorInv'
  <2>1. CASE ToldOn(e)
    <3>1. EndsIn(fxQueue', ofIndicator, {"on"}) /\ ~Free(fxQueue', ofIndicator)
      BY <1>2, <2>1, Appended DEF ToldOn, Window!Updates, ofIndicator
    <3>2. Wanted' = "on"
      BY <2>1 DEF ToldOn, Wanted
    <3>3. QED
      BY <3>1, <3>2 DEF IndicatorInv
  <2>2. CASE ToldOff(e)
    <3>1. EndsIn(fxQueue', ofIndicator, {"off"}) /\ ~Free(fxQueue', ofIndicator)
      BY <1>2, <2>2, Appended DEF ToldOff, Window!Updates, ofIndicator
    <3>2. Wanted' = "off"
      BY <2>2 DEF ToldOff, Wanted
    <3>3. QED
      BY <3>1, <3>2 DEF IndicatorInv
  <2>3. CASE ToldAtOnce(e)
    <3>1. ASSUME overtaken' = FALSE
          PROVE  EndsIn(fxQueue, ofIndicator, {"off"})
      <4>1. "on" \notin Window!Range(fxQueue)
        BY <2>3, <3>1 DEF ToldAtOnce
      <4>2. \A i \in 1..Len(fxQueue) : fxQueue[i] # "on"
        BY <1>2, <4>1 DEF Window!Range
      <4>3. QED
        BY <4>2 DEF EndsIn, ofIndicator
    <3>2. Wanted' = "off" /\ indicator' = "off" /\ fxQueue' = fxQueue
      BY <2>3 DEF ToldAtOnce, Wanted
    <3>3. QED
      BY <3>1, <3>2 DEF IndicatorInv
  <2>4. CASE ToldNothing(e)
    <3>1. sessions' \subseteq sessions /\ sessions' # {}
      BY <1>3, <2>4 DEF ToldNothing
    <3>2. Wanted' = Wanted
      BY <3>1 DEF Wanted
    <3>3. QED
      BY <2>4, <3>2 DEF WindowIInv, IndicatorInv, ToldNothing
  <2>5. QED
    BY <1>3, <2>1, <2>2, <2>3, <2>4
<1>15. DisabledInv'
  BY <1>3, <1>6, <1>8, <1>9, <1>10 DEF WindowIInv, DisabledInv
<1>16. QED
  BY <1>7, <1>8, <1>9, <1>10, <1>11, <1>12, <1>13, <1>14, <1>15
     DEF WindowIInv, WindowTyped

LEMMA FireGUIInv ==
  ASSUME WindowIInv, Window!FireGUI
  PROVE  WindowIInv'
<1>1. /\ UNCHANGED <<currentSessions, untold, sessions, stopping, player, indicator>>
      /\ UNCHANGED <<compiling, timers, givingUp, runs, starts, status>>
      /\ UNCHANGED <<overtaken, overruled, contented>>
      /\ firing # Window!Nobody /\ firing' = Window!Nobody
      /\ fxQueue' = fxQueue \o Window!TellGUI(firing)
  BY DEF Window!FireGUI, Window!view, Window!run, Window!history
<1>2. /\ fxQueue \in Seq(Window!Updates) /\ firing.kind \in {"start", "end"}
      /\ firing \in Pending
  BY <1>1 DEF WindowIInv, WindowTyped, SetsTyped, Pending, Window!Events
<1>3. /\ fxQueue \o <<"play">> = Append(fxQueue, "play")
      /\ fxQueue \o <<"stop">> = Append(fxQueue, "stop")
      /\ fxQueue \o <<>> = fxQueue
  BY <1>2
<1>4. /\ firing.kind = "start" => fxQueue' = Append(fxQueue, "play")
      /\ firing.kind = "end" =>
           fxQueue' = IF currentSessions = {} THEN Append(fxQueue, "stop") ELSE fxQueue
  BY <1>1, <1>2, <1>3 DEF Window!TellGUI
<1>5. Pending' \subseteq Pending /\ \A e \in Pending : e \in Pending' \/ e = firing
  BY <1>1 DEF Pending
<1>6. /\ fxQueue' \in Seq(Window!Updates)
      /\ Free(fxQueue', ofIndicator) <=> Free(fxQueue, ofIndicator)
      /\ Free(fxQueue', {"error"}) <=> Free(fxQueue, {"error"})
      /\ \A S : EndsIn(fxQueue, ofIndicator, S) => EndsIn(fxQueue', ofIndicator, S)
  <2>1. ASSUME NEW x \in {"play", "stop"}, fxQueue' = Append(fxQueue, x)
        PROVE  /\ fxQueue' \in Seq(Window!Updates)
               /\ Free(fxQueue', ofIndicator) <=> Free(fxQueue, ofIndicator)
               /\ Free(fxQueue', {"error"}) <=> Free(fxQueue, {"error"})
               /\ \A S : EndsIn(fxQueue, ofIndicator, S) => EndsIn(fxQueue', ofIndicator, S)
    <3>1. x \in Window!Updates /\ x \notin ofIndicator /\ x \notin {"error"}
      BY DEF Window!Updates, ofIndicator
    <3>2. QED
      BY <1>2, <2>1, <3>1, Appended
  <2>2. CASE fxQueue' = fxQueue
    BY <1>2, <2>2
  <2>3. QED
    BY <1>2, <1>4, <2>1, <2>2
<1>7. SetsTyped'
  BY <1>1, <1>6 DEF WindowIInv, WindowTyped, SetsTyped
<1>8. ViewTyped' /\ HistoryTyped' /\ RunsTyped' /\ (Running' <=> Running)
  BY <1>1 DEF WindowIInv, WindowTyped, ViewTyped, HistoryTyped, RunsTyped, Running
<1>9. EventsInv'
  BY <1>1, <1>5 DEF WindowIInv, EventsInv
<1>10. SessionsInv'
  BY <1>1 DEF WindowIInv, SessionsInv, StartUntold, EndUntold
<1>11. StoppedInv'
  <2> SUFFICES ASSUME currentSessions' = {}, ~EndPending'
               PROVE  /\ EndsIn(fxQueue', ofPlayer, {"stop", "error"})
                      /\ ~Free(fxQueue', ofPlayer)
    BY DEF StoppedInv
  <2>1. firing.kind = "end"
    BY <1>1, <1>2 DEF WindowIInv, EventsInv
  <2>2. fxQueue' = Append(fxQueue, "stop")
    BY <1>1, <1>4, <2>1
  <2>3. QED
    BY <1>2, <2>2, Appended DEF ofPlayer, Window!Updates
<1>12. PlayingInv'
  <2>1. CASE firing.kind = "start"
    <3>1. fxQueue' = Append(fxQueue, "play")
      BY <1>4, <2>1
    <3>2. /\ "play" \in Window!Updates /\ "play" \in ofPlayer
          /\ "play" \in {"play", "error"}
      BY DEF ofPlayer, Window!Updates
    <3>3. EndsIn(fxQueue', ofPlayer, {"play", "error"}) /\ ~Free(fxQueue', ofPlayer)
      BY <1>2, <3>1, <3>2, Appended
    <3>4. QED
      BY <3>3 DEF PlayingInv
  <2>2. CASE firing.kind = "end"
    <3>1. Connected' \subseteq Connected
      BY <1>1, <1>5, <2>2 DEF Connected
    <3>2. CASE currentSessions = {}
      BY <1>1, <3>2 DEF PlayingInv, Connected
    <3>3. CASE currentSessions # {}
      BY <1>1, <1>4, <2>2, <3>1, <3>3 DEF WindowIInv, PlayingInv
    <3>4. QED
      BY <3>2, <3>3
  <2>3. QED
    BY <1>2, <2>1, <2>2
<1>13. IndicatorInv'
  BY <1>1, <1>6 DEF WindowIInv, IndicatorInv, Wanted
<1>14. DisabledInv'
  BY <1>1, <1>6, <1>8 DEF WindowIInv, DisabledInv
<1>15. QED
  BY <1>7, <1>8, <1>9, <1>10, <1>11, <1>12, <1>13, <1>14 DEF WindowIInv, WindowTyped

LEMMA WindowNextInv == WindowIInv /\ Window!Next => WindowIInv'
<1> SUFFICES ASSUME WindowIInv, Window!Next
             PROVE  WindowIInv'
  OBVIOUS
<1>1. ASSUME NEW c \in Clients,
             Window!StartSession(c) \/ Window!SessionEnds(c) \/ Window!StopNext(c)
      PROVE  WindowIInv'
  BY <1>1, SessionInv
<1>2. ASSUME NEW e \in untold, Window!Fire(e)
      PROVE  WindowIInv'
  BY <1>2, FireInv
<1>3. CASE Window!FireGUI \/ Window!RunLater \/ Window!GiveUp
  BY <1>3, FireGUIInv, RunLaterInv, GiveUpInv
<1>4. ASSUME NEW valid \in BOOLEAN,
             Window!RunPressed(valid) \/ Window!PlayPressed(valid)
               \/ Window!StatusPressed(valid)
      PROVE  WindowIInv'
  BY <1>4, ButtonsInv
<1>5. CASE Window!StopPressed
  BY <1>5, ButtonsInv
<1>6. CASE Window!CompileFails \/ Window!onRunComplete \/ Window!TimerLooks
  BY <1>6, RunInv
<1>7. QED
  BY <1>1, <1>2, <1>3, <1>4, <1>5, <1>6 DEF Window!Next

LEMMA WindowStutter == WindowIInv /\ UNCHANGED Window!vars => WindowIInv'
<1> SUFFICES ASSUME WindowIInv, UNCHANGED Window!vars
             PROVE  WindowIInv'
  OBVIOUS
<1>1. /\ UNCHANGED <<currentSessions, untold, firing, sessions, fxQueue, stopping>>
      /\ UNCHANGED <<indicator, status, player, compiling, timers, givingUp>>
      /\ UNCHANGED <<starts, runs, overtaken, overruled, contented>>
  BY DEF Window!vars, Window!view, Window!run, Window!history
<1>2. SetsTyped' /\ ViewTyped' /\ HistoryTyped' /\ RunsTyped'
  BY <1>1 DEF WindowIInv, WindowTyped, SetsTyped, ViewTyped, HistoryTyped, RunsTyped
<1>3. StoppedInv' /\ PlayingInv'
  BY <1>1, StoppedKept, PlayingKept DEF Running
<1>4. IndicatorInv' /\ DisabledInv'
  BY <1>1, IndicatorKept, DisabledKept DEF WindowIInv
<1>5. QED
  BY <1>1, <1>2, <1>3, <1>4, QuietKeeps DEF WindowIInv, WindowTyped

(* The window alone: when all is settled, the player and the indicator agree with the  *)
(* sessions that are connected, however sessions, runs and their timers overlap.      *)
THEOREM WindowAlone == Window!Spec => []Window!WindowIsRight
<1>1. QED
  BY WindowInitInv, WindowNextInv, WindowStutter, WindowIInvSound, PTL DEF Window!Spec

(* The same of the behaviours that MCUserInterface checks. *)
THEOREM WindowCorrect == Spec => []WindowIsRight
<1> DEFINE Inv == part = "window" => WindowIInv
<1>1. Init => Inv
  BY WindowInitInv DEF Init, Loop, Sides, Browser
<1>2. [Next]_everything /\ part' = "window" =>
        part = "window" /\ [Window!Next]_(Window!vars)
  BY DEF Next, OfWindow, OfLog, OfTip, OfCut, OfPolling, OfStart, OfRequest, Loop, Sides, Browser,
         everything, ofWindow, Window!vars, Window!view, Window!run, Window!history
<1>3. Inv /\ [Next]_everything => Inv'
  BY <1>2, WindowNextInv, WindowStutter
<1>4. Inv => WindowIsRight
  BY WindowIInvSound DEF WindowIsRight
<1>5. QED
  BY <1>1, <1>3, <1>4, PTL DEF Spec

(***************************************************************************)
(* Ready: until the handlers have run, ready is held or a call of it is to come.     *)
(***************************************************************************)

One(b) == IF b = TRUE THEN 1 ELSE 0

(* The calls of ready that are sure to come: by a timer, an event or the scroll check *)
Due == retries + One(listening) + One(scrolling)

StartTyped ==
  /\ dom \in 1..5 /\ body \in BOOLEAN
  /\ listening \in BOOLEAN /\ isReady \in BOOLEAN /\ scrolling \in BOOLEAN
  /\ readyWait \in Nat /\ retries \in Nat /\ held \in Nat /\ holds \in Nat
  /\ readyList \in {"none", "pending", "resolved"}
  /\ waiting \subseteq Handlers /\ started \subseteq Handlers
  /\ held <= holds /\ holds <= MaxHolds
  /\ readyWait = held + (IF isReady THEN 0 ELSE 1)

(* While the list is there and not run, ready is held, or something calls it.        *)
StartKnows(old) ==
  /\ isReady = TRUE => body = TRUE /\ dom >= 2
  /\ retries > 0 => dom >= 2
  /\ listening = TRUE => dom <= 4
  /\ ~old => scrolling = FALSE
  /\ Due <= IF old THEN 2 ELSE 1
  /\ readyList = "none" => isReady = FALSE /\ Due = 0
  /\ readyList = "resolved" => isReady = TRUE
  /\ readyList # "pending" => waiting = {}
  /\ readyList = "pending" => IF isReady = TRUE THEN held > 0 ELSE Due > 0

StartIInv(old) == StartTyped /\ StartKnows(old)

LEMMA StartInitInv ==
  ASSUME NEW old \in BOOLEAN, Start(old)!Init
  PROVE  StartIInv(old)
<1>1. MaxHolds \in Nat
  BY Assumptions DEF Start!ReadyAssumption
<1>2. /\ dom = 1 /\ body = FALSE /\ listening = FALSE /\ isReady = FALSE
      /\ scrolling = FALSE /\ readyWait = 1 /\ retries = 0 /\ held = 0 /\ holds = 0
      /\ readyList = "none" /\ waiting = {} /\ started = {}
  BY DEF Start!Init
<1>3. /\ body \in BOOLEAN /\ listening \in BOOLEAN /\ isReady \in BOOLEAN
      /\ scrolling \in BOOLEAN
  BY <1>2
<1>4. readyWait = held + (IF isReady THEN 0 ELSE 1)
  BY <1>2
<1>5. StartTyped
  BY <1>1, <1>2, <1>3, <1>4 DEF StartTyped
<1>6. Due = 0
  BY DEF Start!Init, Due, One
<1>7. StartKnows(old)
  BY <1>6 DEF Start!Init, StartKnows
<1>8. QED
  BY <1>5, <1>7 DEF StartIInv

LEMMA StartIInvSound ==
  ASSUME NEW old \in BOOLEAN, StartIInv(old)
  PROVE  Start(old)!HandlersAreRight
<1>1. MaxHolds \in Nat /\ Len(Start(old)!Phases) = 5
  BY Assumptions DEF Start!ReadyAssumption, Start!Phases
<1>2. retries <= IF old THEN 2 ELSE 1
  BY DEF StartIInv, StartTyped, StartKnows, Due, One
<1>3. Start(old)!TypeOK
  BY <1>1, <1>2 DEF StartIInv, StartTyped, Start!TypeOK
<1>4. Start(old)!HoldsCounted
  BY DEF StartIInv, StartTyped, Start!HoldsCounted
<1>5. Start(old)!RunWhenReady
  BY DEF StartIInv, StartTyped, StartKnows, Start!RunWhenReady
<1>6. Start(old)!HandlersRun
  BY <1>1 DEF StartIInv, StartTyped, StartKnows, Start!HandlersRun, Due, One
<1>7. QED
  BY <1>3, <1>4, <1>5, <1>6 DEF Start!HandlersAreRight

LEMMA DueBound ==
  ASSUME StartTyped
  PROVE  /\ One(listening) \in {0, 1} /\ (listening = TRUE <=> One(listening) = 1)
         /\ One(scrolling) \in {0, 1} /\ (scrolling = TRUE <=> One(scrolling) = 1)
         /\ Due \in Nat /\ retries <= Due /\ retries \in Nat
  BY DEF StartTyped, Due, One

(* A call of ready that leaves fewer to come *)
LEMMA ReadyCalled ==
  ASSUME NEW old \in BOOLEAN, StartIInv(old), readyList # "none",
         NEW due \in Nat, Start(old)!ready(due),
         dom' \in 2..5, UNCHANGED <<body, held, holds>>,
         listening' \in BOOLEAN, scrolling' \in BOOLEAN,
         listening' = TRUE => dom' <= 4, ~old => scrolling' = FALSE,
         due + One(listening') + One(scrolling') <= Due - 1
  PROVE  StartIInv(old)'
<1> DEFINE most == IF old THEN 2 ELSE 1
<1>1. /\ Due \in Nat /\ Due <= most /\ most \in Nat
      /\ One(listening') \in {0, 1} /\ One(scrolling') \in {0, 1}
  BY DueBound DEF StartIInv, StartKnows, One
<1> HIDE DEF most
<1>2. CASE isReady = TRUE
  <2>1. /\ retries' = due
        /\ UNCHANGED <<readyWait, isReady, readyList, waiting, started>>
    BY <1>2 DEF Start!ready, Start!Unready
  <2>2. StartTyped'
    BY <1>2, <2>1 DEF StartIInv, StartTyped
  <2>3. Due' <= most
    BY <1>1, <2>1 DEF Due
  <2>4. QED
    BY <1>2, <2>1, <2>2, <2>3 DEF StartIInv, StartKnows, most
<1>3. CASE isReady = FALSE /\ body = FALSE
  <2>1. /\ retries' = due + 1
        /\ UNCHANGED <<readyWait, isReady, readyList, waiting, started>>
    BY <1>3 DEF Start!ready, Start!Unready
  <2>2. StartTyped'
    BY <1>3, <2>1 DEF StartIInv, StartTyped
  <2>3. Due' <= most /\ Due' > 0
    BY <1>1, <2>1 DEF Due
  <2>4. QED
    BY <1>3, <2>1, <2>2, <2>3 DEF StartIInv, StartKnows, most
<1>4. CASE isReady = FALSE /\ body = TRUE
  <2>1. /\ retries' = due /\ isReady' = TRUE /\ readyWait' = readyWait - 1
        /\ readyWait = held + 1 /\ held \in Nat
    BY <1>4 DEF Start!ready, StartIInv, StartTyped
  <2>2. Due' <= most
    BY <1>1, <2>1 DEF Due
  <2>3. CASE held = 0
    <3>1. /\ readyList' = "resolved" /\ started' = started \cup waiting
          /\ waiting' = {}
      BY <1>4, <2>1, <2>3 DEF Start!ready, Start!RunHandlers
    <3>2. StartTyped'
      BY <1>4, <2>1, <2>3, <3>1 DEF StartIInv, StartTyped
    <3>3. QED
      BY <1>4, <2>1, <2>2, <3>1, <3>2 DEF StartIInv, StartKnows, most
  <2>4. CASE held > 0
    <3>1. UNCHANGED <<readyList, waiting, started>>
      BY <1>4, <2>1, <2>4 DEF Start!ready
    <3>2. StartTyped'
      BY <1>4, <2>1, <2>4, <3>1 DEF StartIInv, StartTyped
    <3>3. QED
      BY <1>4, <2>1, <2>2, <2>4, <3>1, <3>2 DEF StartIInv, StartKnows, most
  <2>5. QED
    BY <2>1, <2>3, <2>4
<1>5. QED
  BY <1>2, <1>3, <1>4 DEF StartIInv, StartTyped

LEMMA AddHandlerInv ==
  ASSUME NEW old \in BOOLEAN, StartIInv(old), NEW h \in Handlers,
         Start(old)!AddHandler(h)
  PROVE  StartIInv(old)'
<1>1. UNCHANGED <<dom, body, readyWait, isReady, held, holds>>
  BY DEF Start!AddHandler
<1>2. /\ started' \subseteq Handlers /\ waiting' \subseteq Handlers
      /\ readyList = "resolved" => waiting' = waiting
  BY DEF Start!AddHandler, StartIInv, StartTyped
<1>3. CASE readyList # "none"
  <2>1. UNCHANGED <<readyList, retries, listening, scrolling>>
    BY <1>3 DEF Start!AddHandler
  <2>2. StartTyped'
    BY <1>1, <1>2, <2>1 DEF StartIInv, StartTyped
  <2>3. Due' = Due
    BY <2>1 DEF Due
  <2>4. readyList \in {"pending", "resolved"}
    BY <1>3 DEF StartIInv, StartTyped
  <2>5. QED
    BY <1>1, <1>2, <2>1, <2>2, <2>3, <2>4 DEF StartIInv, StartKnows
<1>4. CASE readyList = "none"
  <2>1. readyList' = "pending" /\ isReady = FALSE /\ Due = 0
    BY <1>4 DEF Start!AddHandler, StartIInv, StartKnows
  <2>2. retries = 0 /\ listening = FALSE /\ scrolling = FALSE
    <3>1. /\ retries \in Nat /\ One(listening) \in {0, 1} /\ One(scrolling) \in {0, 1}
          /\ listening = TRUE <=> One(listening) = 1
          /\ scrolling = TRUE <=> One(scrolling) = 1
          /\ listening \in BOOLEAN /\ scrolling \in BOOLEAN
      BY DueBound DEF StartIInv, StartTyped
    <3>2. retries = 0 /\ One(listening) = 0 /\ One(scrolling) = 0
      BY <2>1, <3>1 DEF Due
    <3>3. QED
      BY <3>1, <3>2
  <2>3. CASE dom >= 4
    <3>1. retries' = 1 /\ UNCHANGED <<listening, scrolling>>
      BY <1>4, <2>2, <2>3 DEF Start!AddHandler
    <3>2. Due' = 1
      BY <2>2, <3>1 DEF Due, One
    <3>3. StartTyped'
      BY <1>1, <1>2, <2>1, <3>1 DEF StartIInv, StartTyped
    <3>4. /\ isReady' = FALSE /\ listening' = FALSE /\ scrolling' = FALSE
          /\ dom' >= 2 /\ Due' <= IF old THEN 2 ELSE 1
      BY <1>1, <2>1, <2>2, <2>3, <3>1, <3>2 DEF StartIInv, StartTyped
    <3>5. QED
      BY <2>1, <3>2, <3>3, <3>4 DEF StartIInv, StartKnows
  <2>4. CASE ~(dom >= 4)
    <3>1. listening' = TRUE /\ scrolling' = old /\ retries' = retries
      BY <1>4, <2>4 DEF Start!AddHandler
    <3>2. Due' = IF old THEN 2 ELSE 1
      BY <2>2, <3>1 DEF Due, One
    <3>3. StartTyped'
      BY <1>1, <1>2, <2>1, <3>1 DEF StartIInv, StartTyped
    <3>4. dom <= 4
      BY <2>4 DEF StartIInv, StartTyped
    <3>5. QED
      BY <1>1, <2>1, <2>2, <3>1, <3>2, <3>3, <3>4 DEF StartIInv, StartKnows
  <2>5. QED
    BY <2>3, <2>4
<1>5. QED
  BY <1>3, <1>4

LEMMA UnholdInv ==
  ASSUME NEW old \in BOOLEAN, StartIInv(old), Start(old)!Unhold
  PROVE  StartIInv(old)'
<1>1. /\ held > 0 /\ held' = held - 1 /\ readyWait' = readyWait - 1
      /\ UNCHANGED <<dom, body, listening, scrolling, holds>>
  BY DEF Start!Unhold, Start!readyTrue
<1>2. /\ held \in Nat /\ holds \in Nat /\ held <= holds
      /\ readyWait = held + (IF isReady THEN 0 ELSE 1)
  BY DEF StartIInv, StartTyped
<1>3. CASE isReady = TRUE /\ held = 1
  <2>1. /\ retries' = retries /\ isReady' = TRUE /\ readyList' = "resolved"
        /\ started' = started \cup waiting /\ waiting' = {}
    BY <1>2, <1>3 DEF Start!Unhold, Start!readyTrue, Start!RunHandlers, StartIInv, StartKnows
  <2>2. Due' = Due
    BY <1>1, <2>1 DEF Due
  <2>3. StartTyped'
    BY <1>1, <1>2, <1>3, <2>1 DEF StartIInv, StartTyped
  <2>4. QED
    BY <1>1, <1>3, <2>1, <2>2, <2>3 DEF StartIInv, StartKnows
<1>4. CASE ~(isReady = TRUE /\ held = 1)
  <2>1. readyWait - 1 # 0
    BY <1>1, <1>2, <1>4 DEF StartIInv, StartTyped
  <2>2. UNCHANGED <<retries, isReady, readyList, waiting, started>>
    BY <2>1 DEF Start!Unhold, Start!readyTrue, Start!Unready
  <2>3. Due' = Due
    BY <1>1, <2>2 DEF Due
  <2>4. StartTyped'
    BY <1>1, <1>2, <2>2 DEF StartIInv, StartTyped
  <2>5. isReady = TRUE => held' > 0
    BY <1>1, <1>2, <1>4
  <2>6. QED
    BY <1>1, <2>2, <2>3, <2>4, <2>5 DEF StartIInv, StartKnows
<1>5. QED
  BY <1>3, <1>4

LEMMA LoadInv ==
  ASSUME NEW old \in BOOLEAN, StartIInv(old), Start(old)!Load
  PROVE  StartIInv(old)'
<1>1. /\ dom < 5 /\ dom' = dom + 1 /\ UNCHANGED <<body, scrolling, held, holds>>
      /\ dom \in 1..5
  BY DEF Start!Load, Start!Phases, StartIInv, StartTyped
<1>2. CASE UNCHANGED <<listening, retries, readyWait, isReady, readyList, waiting, started>>
           /\ (listening = TRUE => dom' <= 4)
  <2>1. StartTyped' /\ Due' = Due
    BY <1>1, <1>2 DEF StartIInv, StartTyped, Due
  <2>2. QED
    BY <1>1, <1>2, <2>1 DEF StartIInv, StartKnows
<1>3. CASE listening = TRUE /\ listening' = FALSE /\ Start(old)!ready(retries)
  <2>1. /\ One(listening) = 1 /\ One(listening') = 0 /\ Due \in Nat /\ retries \in Nat
        /\ One(scrolling') = One(scrolling) /\ One(scrolling) \in {0, 1}
    BY <1>1, <1>3, DueBound DEF StartIInv, One
  <2>2. readyList # "none"
    BY <2>1 DEF StartIInv, StartKnows, Due
  <2>3. retries + One(listening') + One(scrolling') <= Due - 1
    BY <2>1 DEF Due
  <2>4. scrolling' \in BOOLEAN /\ (~old => scrolling' = FALSE)
    BY <1>1 DEF StartIInv, StartTyped, StartKnows
  <2>5. listening' \in BOOLEAN /\ listening' # TRUE
    BY <1>3
  <2>6. dom' \in 2..5
    BY <1>1
  <2>7. QED
    BY <1>1, <1>3, <2>1, <2>2, <2>3, <2>4, <2>5, <2>6, ReadyCalled
<1>4. CASE Start(old)!completed
  BY <1>2, <1>3, <1>4 DEF Start!completed, StartIInv, StartTyped
<1>5. CASE UNCHANGED <<listening, retries, readyWait, isReady, readyList, waiting, started>>
           /\ ~(Start(old)!Phases[dom + 1] = "loaded")
  <2>1. dom + 1 # 5
    BY <1>5 DEF Start!Phases
  <2>2. dom' <= 4
    BY <1>1, <2>1
  <2>3. QED
    BY <1>2, <1>5, <2>2
<1>6. QED
  BY <1>4, <1>5 DEF Start!Load

LEMMA ScrollCheckInv ==
  ASSUME NEW old \in BOOLEAN, StartIInv(old), Start(old)!ScrollCheck
  PROVE  StartIInv(old)'
<1>1. /\ scrolling = TRUE /\ scrolling' = FALSE /\ UNCHANGED <<dom, body, held, holds>>
  BY DEF Start!ScrollCheck, StartIInv, StartTyped
<1>2. /\ One(scrolling) = 1 /\ One(scrolling') = 0 /\ One(listening) \in {0, 1}
      /\ Due \in Nat /\ retries \in Nat
  BY <1>1, DueBound DEF StartIInv, One
<1>3. CASE isReady = TRUE
  <2>1. UNCHANGED <<listening, retries, readyWait, isReady, readyList, waiting, started>>
    BY <1>3 DEF Start!ScrollCheck
  <2>2. StartTyped'
    BY <1>1, <2>1 DEF StartIInv, StartTyped
  <2>3. Due' = Due - 1
    BY <1>2, <2>1 DEF Due
  <2>4. QED
    BY <1>1, <1>2, <1>3, <2>1, <2>2, <2>3 DEF StartIInv, StartKnows
<1>4. CASE isReady # TRUE
  <2>1. dom >= 2 /\ listening' = FALSE /\ Start(old)!ready(retries)
    BY <1>4 DEF Start!ScrollCheck, StartIInv, StartTyped
  <2>2. readyList # "none"
    BY <1>2 DEF StartIInv, StartKnows, Due
  <2>3. retries + One(listening') + One(scrolling') <= Due - 1
    BY <1>2, <2>1 DEF Due, One
  <2>4. dom' \in 2..5
    BY <1>1, <2>1 DEF StartIInv, StartTyped
  <2>5. QED
    BY <1>1, <1>2, <2>1, <2>2, <2>3, <2>4, ReadyCalled
<1>5. QED
  BY <1>3, <1>4

LEMMA StartTimerInv ==
  ASSUME NEW old \in BOOLEAN, StartIInv(old), Start(old)!Timer
  PROVE  StartIInv(old)'
<1>1. /\ retries > 0 /\ Start(old)!ready(retries - 1)
      /\ UNCHANGED <<dom, body, listening, scrolling, held, holds>>
  BY DEF Start!Timer
<1>2. /\ One(scrolling) \in {0, 1} /\ One(listening) \in {0, 1}
      /\ One(scrolling') = One(scrolling) /\ One(listening') = One(listening)
      /\ Due \in Nat /\ retries \in Nat /\ retries - 1 \in Nat
  BY <1>1, DueBound DEF StartIInv, One
<1>3. readyList # "none"
  BY <1>1, <1>2 DEF StartIInv, StartKnows, Due
<1>4. (retries - 1) + One(listening') + One(scrolling') <= Due - 1
  BY <1>2 DEF Due
<1>5. /\ dom' \in 2..5 /\ listening' \in BOOLEAN /\ scrolling' \in BOOLEAN
      /\ listening' = TRUE => dom' <= 4
      /\ ~old => scrolling' = FALSE
  BY <1>1 DEF StartIInv, StartTyped, StartKnows
<1>6. QED
  BY <1>1, <1>2, <1>3, <1>4, <1>5, ReadyCalled

LEMMA StartNextInv ==
  ASSUME NEW old \in BOOLEAN, StartIInv(old), Start(old)!Next
  PROVE  StartIInv(old)'
<1>1. CASE Start(old)!Hold
  BY <1>1, Assumptions
     DEF Start!Hold, Start!ReadyAssumption, StartIInv, StartTyped, StartKnows, Due
<1>2. CASE Start(old)!ParseBody
  BY <1>2 DEF Start!ParseBody, StartIInv, StartTyped, StartKnows, Due
<1>3. QED
  BY <1>1, <1>2, AddHandlerInv, UnholdInv, LoadInv, ScrollCheckInv, StartTimerInv
     DEF Start!Next

LEMMA StartStutter ==
  ASSUME NEW old \in BOOLEAN, StartIInv(old), UNCHANGED Start(old)!vars
  PROVE  StartIInv(old)'
  BY DEF Start!vars, StartIInv, StartTyped, StartKnows, Due

(* How a page starts alone: in old and new browsers, whatever the handlers and holds,  *)
(* the handlers run when the document is read, has its body and is not held, and none   *)
(* that was added waits for ever once it is loaded.                                 *)
THEOREM StartAlone ==
  ASSUME NEW old \in BOOLEAN
  PROVE  Start(old)!Spec => []Start(old)!HandlersAreRight
<1>1. Start(old)!Init => StartIInv(old)
  BY StartInitInv
<1>2. StartIInv(old) /\ [Start(old)!Next]_(Start(old)!vars) => StartIInv(old)'
  BY StartNextInv, StartStutter
<1>3. StartIInv(old) => Start(old)!HandlersAreRight
  BY StartIInvSound
<1>4. QED
  BY <1>1, <1>2, <1>3, PTL DEF Start!Spec

(* The same of the behaviours that MCUserInterface checks. *)
THEOREM StartCorrect == Spec => []HandlersAreRight
<1> DEFINE Inv == \A old \in BOOLEAN : part = Browser(old) => StartIInv(old)
<1>1. Init => Inv
  BY StartInitInv DEF Init, Loop, Sides, Browser
<1>2. Inv /\ [Next]_everything => Inv'
  <2> SUFFICES ASSUME Inv, [Next]_everything, NEW old \in BOOLEAN, part' = Browser(old)
               PROVE  StartIInv(old)'
    BY DEF Browser
  <2>1. CASE part = Browser(old) /\ Start(old)!Next
    BY <2>1, StartNextInv
  <2>2. CASE part = Browser(old) /\ UNCHANGED Start(old)!vars
    BY <2>2, StartStutter
  <2>3. QED
    BY <2>1, <2>2
       DEF Next, OfWindow, OfLog, OfTip, OfCut, OfPolling, OfStart, OfRequest, Loop, Sides,
           Browser, everything, ofStart, Start!vars
<1>3. Inv => HandlersAreRight
  BY StartIInvSound DEF HandlersAreRight
<1>4. QED
  BY <1>1, <1>2, <1>3, PTL DEF Spec

(***************************************************************************)
(* Ajax: the calls on the stack are nested, and each request is where its state       *)
(* says.                                                                   *)
(***************************************************************************)

Places == Request!CallPlaces \cup Request!DonePlaces
Frame == [req : Requests, at : Places]

(* The call of a request returns before what completes it.                        *)
Nested(s) ==
  \A i, j \in 1..Len(s) :
    i < j /\ s[i].req = s[j].req =>
      s[i].at \in Request!CallPlaces /\ s[j].at \in Request!DonePlaces

Holds(s, r, place) == \E i \in 1..Len(s) : s[i] = [req |-> r, at |-> place]

(* t is s with request r at place p on top; s is t without the call f at its top.    *)
Pushes(s, r, p, t) ==
  /\ t \in Seq(Frame) /\ Nested(t)
  /\ \A q, place : Holds(t, q, place) <=> Holds(s, q, place) \/ (q = r /\ place = p)

Pops(s, f, t) ==
  /\ f \in Frame /\ t \in Seq(Frame) /\ Nested(t)
  /\ Holds(s, f.req, f.at)
  /\ \A q, place : Holds(t, q, place) <=>
                     Holds(s, q, place) /\ ~(q = f.req /\ place = f.at)
  /\ f.at \in Request!CallPlaces => \A q : ~Holds(t, f.req, q)
  /\ f.at \in Request!DonePlaces => \A q \in Request!DonePlaces : ~Holds(t, f.req, q)

LEMMA PlacesApart ==
  Request!CallPlaces \cap Request!DonePlaces = {}
  BY DEF Request!CallPlaces, Request!DonePlaces

LEMMA Pushed ==
  ASSUME NEW s \in Seq(Frame), Nested(s), NEW r \in Requests, NEW p \in Places,
         NEW t, t = Append(s, [req |-> r, at |-> p]),
         \/ \A q : ~Holds(s, r, q)
         \/ p \in Request!DonePlaces /\ \A q \in Request!DonePlaces : ~Holds(s, r, q)
  PROVE  Pushes(s, r, p, t)
<1> DEFINE f == [req |-> r, at |-> p]
<1>1. f \in Frame /\ f.req = r /\ f.at = p
  BY DEF Frame
<1>2. /\ t \in Seq(Frame) /\ Len(s) \in Nat /\ Len(t) = Len(s) + 1 /\ t[Len(t)] = f
      /\ \A i \in 1..Len(s) : t[i] = s[i] /\ s[i] \in Frame
  BY <1>1, AppendProperties, ElementOfSeq, LenProperties
<1> HIDE DEF f
<1>3. ASSUME NEW i \in 1..Len(s), s[i].req = r
      PROVE  s[i].at \in Request!CallPlaces /\ p \in Request!DonePlaces
  <2>1. s[i] = [req |-> r, at |-> s[i].at] /\ s[i].at \in Places
    BY <1>2, <1>3 DEF Frame
  <2>2. Holds(s, r, s[i].at)
    BY <2>1 DEF Holds
  <2>3. QED
    BY <2>1, <2>2 DEF Places
<1>4. Nested(t)
  <2> SUFFICES ASSUME NEW i \in 1..Len(t), NEW j \in 1..Len(t), i < j, t[i].req = t[j].req
               PROVE  t[i].at \in Request!CallPlaces /\ t[j].at \in Request!DonePlaces
    BY DEF Nested
  <2>1. i \in 1..Len(s) /\ t[i] = s[i]
    BY <1>2
  <2>2. CASE j \in 1..Len(s)
    BY <1>2, <2>1, <2>2 DEF Nested
  <2>3. CASE j = Len(t)
    BY <1>1, <1>2, <1>3, <2>1, <2>3
  <2>4. QED
    BY <1>2, <2>2, <2>3
<1>5. ASSUME NEW q, NEW place
      PROVE  Holds(t, q, place) <=> Holds(s, q, place) \/ (q = r /\ place = p)
  <2>1. ASSUME Holds(t, q, place)
        PROVE  Holds(s, q, place) \/ (q = r /\ place = p)
    <3>1. PICK i \in 1..Len(t) : t[i] = [req |-> q, at |-> place]
      BY <2>1 DEF Holds
    <3>2. CASE i \in 1..Len(s)
      BY <1>2, <3>1, <3>2 DEF Holds
    <3>3. CASE i = Len(t)
      BY <1>1, <1>2, <3>1, <3>3 DEF f
    <3>4. QED
      BY <1>2, <3>2, <3>3
  <2>2. ASSUME Holds(s, q, place)
        PROVE  Holds(t, q, place)
    <3>1. PICK i \in 1..Len(s) : s[i] = [req |-> q, at |-> place]
      BY <2>2 DEF Holds
    <3>2. i \in 1..Len(t) /\ t[i] = s[i]
      BY <1>2
    <3>3. QED
      BY <3>1, <3>2 DEF Holds
  <2>3. Holds(t, r, p)
    BY <1>2 DEF Holds, f
  <2>4. QED
    BY <2>1, <2>2, <2>3
<1>6. QED
  BY <1>2, <1>4, <1>5 DEF Pushes

LEMMA Popped ==
  ASSUME NEW s \in Seq(Frame), s # <<>>, Nested(s),
         NEW f, f = s[Len(s)], NEW t, t = SubSeq(s, 1, Len(s) - 1)
  PROVE  Pops(s, f, t)
<1> DEFINE n == Len(s)
<1>1. n \in Nat /\ n >= 1 /\ \A i \in 1..n : s[i] \in Frame
  BY EmptySeq, ElementOfSeq
<1>2. /\ t \in Seq(Frame) /\ Len(t) = n - 1
      /\ \A i \in 1..(n - 1) : t[i] = s[i]
  <2>1. 1 \in Int /\ n - 1 \in Int /\ \A i \in 1..(n - 1) : s[i] \in Frame
    BY <1>1
  <2> HIDE DEF n
  <2>2. /\ SubSeq(s, 1, n - 1) \in Seq(Frame)
        /\ Len(SubSeq(s, 1, n - 1)) = IF 1 <= n - 1 THEN n - 1 - 1 + 1 ELSE 0
        /\ \A i \in 1..(n - 1 - 1 + 1) : SubSeq(s, 1, n - 1)[i] = s[1 + i - 1]
    BY <2>1, SubSeqProperties
  <2>3. t = SubSeq(s, 1, n - 1)
    BY DEF n
  <2>4. QED
    BY <1>1, <2>2, <2>3
<1>3. f \in Frame /\ f = [req |-> f.req, at |-> f.at]
  BY <1>1 DEF Frame
<1> HIDE DEF n
<1>4. Nested(t)
  BY <1>1, <1>2 DEF Nested, n
<1>5. ASSUME NEW i \in 1..(n - 1), s[i].req = f.req
      PROVE  s[i].at \in Request!CallPlaces /\ f.at \in Request!DonePlaces
  BY <1>1, <1>5 DEF Nested, n
<1>6. ASSUME NEW place, Holds(t, f.req, place)
      PROVE  place \in Request!CallPlaces /\ f.at \in Request!DonePlaces
  <2>1. PICK i \in 1..(n - 1) : t[i] = [req |-> f.req, at |-> place]
    BY <1>2, <1>6 DEF Holds
  <2>2. s[i].req = f.req /\ s[i].at = place
    BY <1>2, <2>1
  <2>3. QED
    BY <1>5, <2>2
<1>7. ASSUME NEW q, NEW place
      PROVE  Holds(t, q, place) <=> Holds(s, q, place) /\ ~(q = f.req /\ place = f.at)
  <2>1. ASSUME Holds(t, q, place)
        PROVE  Holds(s, q, place) /\ ~(q = f.req /\ place = f.at)
    <3>1. PICK i \in 1..(n - 1) : t[i] = [req |-> q, at |-> place]
      BY <1>2, <2>1 DEF Holds
    <3>2. i \in 1..n /\ s[i] = [req |-> q, at |-> place]
      BY <1>1, <1>2, <3>1
    <3>3. Holds(s, q, place)
      BY <3>2 DEF Holds, n
    <3>4. QED
      BY <1>6, <2>1, <3>3, PlacesApart
  <2>2. ASSUME Holds(s, q, place), ~(q = f.req /\ place = f.at)
        PROVE  Holds(t, q, place)
    <3>1. PICK i \in 1..n : s[i] = [req |-> q, at |-> place]
      BY <2>2 DEF Holds, n
    <3>2. i # n
      BY <2>2, <3>1 DEF n
    <3>3. i \in 1..(n - 1) /\ t[i] = s[i]
      BY <1>1, <1>2, <3>2
    <3>4. QED
      BY <1>2, <3>1, <3>3 DEF Holds
  <2>3. QED
    BY <2>1, <2>2
<1>8. Holds(s, f.req, f.at)
  BY <1>1, <1>3 DEF Holds, n
<1>9. QED
  BY <1>2, <1>3, <1>4, <1>6, <1>7, <1>8, PlacesApart DEF Pops

(* Ajax counts as this module does. *)
LEMMA SameCount ==
  ASSUME NEW S
  PROVE  /\ Request!IsFiniteSet(S) <=> IsFiniteSet(S)
         /\ Request!Cardinality(S) = Cardinality(S)
<1>1. Request!IsFiniteSet(S) <=> IsFiniteSet(S)
  BY DEF Request!IsFiniteSet, IsFiniteSet
<1>2. Request!Cardinality(S) = Cardinality(S)
  BY DEF Request!Cardinality, Cardinality
<1>3. QED
  BY <1>1, <1>2

RequestTyped ==
  /\ called \subseteq Requests /\ state \in [Requests -> 0..2]
  /\ installed \in [Requests -> BOOLEAN]
  /\ transport \in [Requests -> BOOLEAN] /\ timer \in [Requests -> BOOLEAN]
  /\ xhr \in [Requests -> {"none", "open", "over"}]
  /\ result \in [Requests -> {"pending", "success", "error"}]
  /\ dones \in [Requests -> Nat]

(* What is known of a request from where it is in the stack, and of its parts      *)
Known(r) ==
  /\ \A p \in Places : Holds(stack, r, p) => r \in called
  /\ \A p \in Request!DonePlaces : Holds(stack, r, p) => state[r] = 2
  /\ \A p \in Request!CallPlaces : Holds(stack, r, p) => state[r] # 1
  /\ Holds(stack, r, "ajaxSend") => state[r] = 0 /\ transport[r] = TRUE
  /\ dones[r] = IF state[r] = 2 THEN 1 ELSE 0
  /\ r \notin called => state[r] = 0
  /\ timer[r] = TRUE => state[r] = 1
  /\ xhr[r] = "open" => state[r] = 1 /\ transport[r] = TRUE

(* The requests that active counts *)
Counts(r) ==
  /\ r \in called /\ ~Holds(stack, r, "prefilter")
  /\ state[r] # 2 \/ Holds(stack, r, "settle") \/ Holds(stack, r, "complete")

Live == {r \in Requests : Counts(r)}

RequestIInv ==
  /\ RequestTyped
  /\ stack \in Seq(Frame) /\ Nested(stack)
  /\ \A r \in Requests : Known(r)
  /\ active \in Nat /\ active = Cardinality(Live)
  /\ begun \in {0, 1} /\ (begun = 1 <=> active > 0)

(* A step of request r leaves the others where they are. *)
StepOf(r) ==
  /\ RequestTyped' /\ stack' \in Seq(Frame) /\ Nested(stack')
  /\ \A q \in Requests \ {r} :
       /\ q \in called' <=> q \in called
       /\ state'[q] = state[q] /\ transport'[q] = transport[q] /\ timer'[q] = timer[q]
       /\ xhr'[q] = xhr[q] /\ dones'[q] = dones[q]
       /\ \A p : Holds(stack', q, p) <=> Holds(stack, q, p)

CountKept == UNCHANGED <<active, begun>>
CountUp == active' = active + 1 /\ begun' = IF active = 0 THEN begun + 1 ELSE begun
CountDown == active' = active - 1 /\ begun' = IF active = 1 THEN begun - 1 ELSE begun

LEMMA StepInv ==
  ASSUME RequestIInv, NEW r \in Requests, StepOf(r), Known(r)',
         \/ (Counts(r)' <=> Counts(r)) /\ CountKept
         \/ Counts(r)' /\ ~Counts(r) /\ CountUp
         \/ ~Counts(r)' /\ Counts(r) /\ CountDown
  PROVE  RequestIInv'
<1>1. IsFiniteSet(Requests) /\ Live \subseteq Requests /\ Live' \subseteq Requests
  BY Assumptions, SameCount DEF Request!AjaxAssumption, Live
<1>2. IsFiniteSet(Live) /\ Cardinality(Live) \in Nat
  BY <1>1, FS_Subset, FS_CardinalityType
<1>3. ASSUME NEW q \in Requests, q # r
      PROVE  Known(q)' /\ (Counts(q)' <=> Counts(q))
  <2>1. /\ q \in called' <=> q \in called
        /\ state'[q] = state[q] /\ transport'[q] = transport[q] /\ timer'[q] = timer[q]
        /\ xhr'[q] = xhr[q] /\ dones'[q] = dones[q]
        /\ \A p : Holds(stack', q, p) <=> Holds(stack, q, p)
    BY <1>3 DEF StepOf
  <2>2. Known(q)
    BY DEF RequestIInv
  <2>3. Known(q)'
    BY <2>1, <2>2 DEF Known
  <2>4. Counts(q)' <=> Counts(q)
    BY <2>1 DEF Counts
  <2>5. QED
    BY <2>3, <2>4
<1>4. ASSUME Counts(r)' <=> Counts(r)
      PROVE  Live' = Live
  BY <1>3, <1>4 DEF Live
<1>5. ASSUME Counts(r)', ~Counts(r)
      PROVE  Live' = Live \cup {r} /\ r \notin Live
  BY <1>3, <1>5 DEF Live
<1>6. ASSUME ~Counts(r)', Counts(r)
      PROVE  Live' = Live \ {r} /\ r \in Live
  BY <1>3, <1>6 DEF Live
<1>7. active = Cardinality(Live) /\ active \in Nat /\ begun \in {0, 1} /\ (begun = 1 <=> active > 0)
  BY DEF RequestIInv
<1>8. /\ active' \in Nat /\ active' = Cardinality(Live')
      /\ begun' \in {0, 1} /\ (begun' = 1 <=> active' > 0)
  <2>1. CASE (Counts(r)' <=> Counts(r)) /\ CountKept
    BY <1>4, <1>7, <2>1 DEF CountKept
  <2>2. CASE Counts(r)' /\ ~Counts(r) /\ CountUp
    <3>1. Cardinality(Live') = active + 1
      BY <1>2, <1>5, <1>7, <2>2, FS_AddElement
    <3>2. QED
      BY <1>7, <2>2, <3>1 DEF CountUp
  <2>3. CASE ~Counts(r)' /\ Counts(r) /\ CountDown
    <3>1. Cardinality(Live') = active - 1
      BY <1>2, <1>6, <1>7, <2>3, FS_RemoveElement
    <3>2. active > 0
      BY <1>2, <1>6, <1>7, <2>3, FS_EmptySet
    <3>3. QED
      BY <1>7, <2>3, <3>1, <3>2 DEF CountDown
  <2>4. QED
    BY <2>1, <2>2, <2>3
<1>9. \A q \in Requests : Known(q)'
  BY <1>3
<1>10. QED
  BY <1>8, <1>9 DEF RequestIInv, StepOf

LEMMA RequestInitInv ==
  ASSUME Request!Init
  PROVE  RequestIInv
<1>1. stack = <<>> /\ Len(stack) = 0 /\ \A r, p : ~Holds(stack, r, p)
  BY DEF Request!Init, Holds
<1>2. RequestTyped
  BY DEF Request!Init, RequestTyped
<1>3. stack \in Seq(Frame) /\ Nested(stack)
  BY <1>1 DEF Nested
<1>4. \A r \in Requests : Known(r)
  BY <1>1 DEF Request!Init, Known
<1>5. Live = {}
  BY <1>1 DEF Request!Init, Live, Counts
<1>6. Cardinality(Live) = 0
  BY <1>5, FS_EmptySet
<1>7. QED
  BY <1>2, <1>3, <1>4, <1>6 DEF Request!Init, RequestIInv

LEMMA InsideHolds ==
  ASSUME stack \in Seq(Frame)
  PROVE  \A r, p : Request!Inside(r, p) <=> Holds(stack, r, p)
  BY LenProperties DEF Request!Inside, Holds

LEMMA RequestIInvSound ==
  ASSUME RequestIInv
  PROVE  Request!CountIsRight
<1>1. IsFiniteSet(Requests)
  BY Assumptions, SameCount DEF Request!AjaxAssumption
<1>2. Request!DoneOnce
  BY DEF RequestIInv, Known, Request!DoneOnce, RequestTyped
<1>3. Request!ActiveIsRight
  <2>1. Live = {r \in called :
                  /\ ~Request!Inside(r, "prefilter")
                  /\ \/ state[r] # 2
                     \/ Request!Inside(r, "settle") \/ Request!Inside(r, "complete")}
    BY InsideHolds DEF Live, Counts, RequestIInv, RequestTyped
  <2>2. QED
    BY <2>1, SameCount DEF Request!ActiveIsRight, RequestIInv
<1>4. Request!StartedWhileActive
  BY DEF Request!StartedWhileActive, RequestIInv
<1>5. Request!NothingGoesOn
  BY DEF Request!NothingGoesOn, RequestIInv, Known, RequestTyped
<1>6. active \in 0..Cardinality(Requests)
  <2>1. Cardinality(Live) <= Cardinality(Requests) /\ Cardinality(Requests) \in Nat
    BY <1>1, FS_Subset, FS_CardinalityType DEF Live
  <2>2. QED
    BY <2>1 DEF RequestIInv
<1>7. \A i \in DOMAIN stack : stack[i].req \in called /\ stack[i].at \in Places
  <2> SUFFICES ASSUME NEW i \in DOMAIN stack
               PROVE  stack[i].req \in called /\ stack[i].at \in Places
    OBVIOUS
  <2>1. i \in 1..Len(stack) /\ stack[i] \in Frame
    BY LenProperties, ElementOfSeq DEF RequestIInv
  <2>2. stack[i] = [req |-> stack[i].req, at |-> stack[i].at]
        /\ stack[i].req \in Requests /\ stack[i].at \in Places
    BY <2>1 DEF Frame
  <2>3. Holds(stack, stack[i].req, stack[i].at)
    BY <2>1, <2>2 DEF Holds
  <2>4. QED
    BY <2>2, <2>3 DEF RequestIInv, Known
<1>8. Request!TypeOK
  BY <1>6, <1>7, SameCount DEF Request!TypeOK, RequestIInv, RequestTyped, Places
<1>9. QED
  BY <1>2, <1>3, <1>4, <1>5, <1>8 DEF Request!CountIsRight

(* The call on top of the stack returns. *)
LEMMA TopReturns ==
  ASSUME RequestIInv, NEW place, Request!Running(place)
  PROVE  /\ Request!Top.req \in called /\ Request!Top.req \in Requests
         /\ place \in Places /\ Holds(stack, Request!Top.req, place)
         /\ Request!Outer \in Seq(Frame) /\ Nested(Request!Outer)
         /\ \A q, p : Holds(Request!Outer, q, p) <=>
                        Holds(stack, q, p) /\ ~(q = Request!Top.req /\ p = place)
         /\ place \in Request!CallPlaces => \A p : ~Holds(Request!Outer, Request!Top.req, p)
         /\ place \in Request!DonePlaces =>
              \A p \in Request!DonePlaces : ~Holds(Request!Outer, Request!Top.req, p)
<1>1. stack # <<>> /\ Request!Top.at = place /\ stack \in Seq(Frame) /\ Nested(stack)
  BY DEF Request!Running, RequestIInv
<1>2. /\ Request!Top = stack[Len(stack)]
      /\ Request!Outer = SubSeq(stack, 1, Len(stack) - 1)
  BY DEF Request!Top, Request!Outer
<1>3. Pops(stack, Request!Top, Request!Outer)
  BY <1>1, <1>2, Popped
<1>4. Request!Top.req \in Requests /\ place \in Places
  BY <1>1, <1>3 DEF Frame, Pops
<1>5. Request!Top.req \in called
  BY <1>1, <1>3, <1>4 DEF RequestIInv, Known, Pops
<1>6. QED
  BY <1>1, <1>3, <1>4, <1>5 DEF Pops

(* It goes on to another place. *)
LEMMA TopMoves ==
  ASSUME RequestIInv, NEW place, Request!Running(place), NEW p \in Places,
         place \in Request!CallPlaces \/ (place \in Request!DonePlaces /\ p \in Request!DonePlaces),
         NEW t, t = Request!At(Request!Top.req, p)
  PROVE  /\ t \in Seq(Frame) /\ Nested(t)
         /\ \A q, pl : Holds(t, q, pl) <=>
              \/ Holds(stack, q, pl) /\ ~(q = Request!Top.req /\ pl = place)
              \/ q = Request!Top.req /\ pl = p
<1> DEFINE r == Request!Top.req
<1>1. /\ r \in Requests /\ Request!Outer \in Seq(Frame) /\ Nested(Request!Outer)
      /\ \A q, pl : Holds(Request!Outer, q, pl) <=>
                      Holds(stack, q, pl) /\ ~(q = r /\ pl = place)
      /\ place \in Request!CallPlaces => \A q : ~Holds(Request!Outer, r, q)
      /\ place \in Request!DonePlaces =>
           \A q \in Request!DonePlaces : ~Holds(Request!Outer, r, q)
  BY TopReturns
<1>2. t = Append(Request!Outer, [req |-> r, at |-> p])
  BY DEF Request!At
<1> HIDE DEF r
<1>3. \/ \A q : ~Holds(Request!Outer, r, q)
      \/ p \in Request!DonePlaces /\ \A q \in Request!DonePlaces : ~Holds(Request!Outer, r, q)
  BY <1>1
<1>4. Pushes(Request!Outer, r, p, t)
  BY <1>1, <1>2, <1>3, Pushed
<1>5. QED
  BY <1>1, <1>4 DEF r, Pushes

(* A request ends: the calls of done begin, on top of all others or instead of the     *)
(* call that ends it.                                                          *)
Ends(r) ==
  /\ state' = [state EXCEPT ![r] = 2] /\ timer' = [timer EXCEPT ![r] = FALSE]
  /\ transport' = [transport EXCEPT ![r] = FALSE]
  /\ dones' = [dones EXCEPT ![r] = @ + 1]
  /\ result' \in [Requests -> {"pending", "success", "error"}]
  /\ installed' \in [Requests -> BOOLEAN]
  /\ xhr' \in [Requests -> {"none", "open", "over"}] /\ xhr'[r] # "open"
  /\ \A q \in Requests \ {r} : xhr'[q] = xhr[q]
  /\ UNCHANGED <<called, active, begun>>

LEMMA EndsInv ==
  ASSUME RequestIInv, NEW r \in Requests, r \in called, state[r] # 2, Ends(r),
         stack' \in Seq(Frame), Nested(stack'),
         \A q \in Requests \ {r} : \A p : Holds(stack', q, p) <=> Holds(stack, q, p),
         \A p \in Places \ {"settle"} : Holds(stack', r, p) => Holds(stack, r, p),
         Holds(stack', r, "settle"), ~Holds(stack', r, "ajaxSend"),
         Holds(stack', r, "prefilter") <=> Holds(stack, r, "prefilter")
  PROVE  RequestIInv'
<1> USE DEF Ends
<1>1. RequestTyped'
  BY DEF RequestIInv, RequestTyped
<1>2. StepOf(r)
  BY <1>1 DEF RequestIInv, RequestTyped, StepOf
<1>3. /\ state'[r] = 2 /\ timer'[r] = FALSE /\ dones'[r] = dones[r] + 1 /\ dones[r] = 0
      /\ xhr'[r] # "open"
  BY DEF RequestIInv, RequestTyped, Known
<1>4. Known(r)'
  BY <1>3 DEF Known
<1>5. Counts(r)' <=> Counts(r)
  BY <1>3 DEF Counts
<1>6. QED
  BY <1>2, <1>4, <1>5, StepInv DEF CountKept

(* By BeginDone in the call on top, that has passed the prefilters *)
LEMMA TopEnds ==
  ASSUME RequestIInv, NEW place \in {"beforeSend", "ajaxSend"}, Request!Running(place),
         state[Request!Top.req] # 2, Ends(Request!Top.req),
         stack' = Request!At(Request!Top.req, "settle")
  PROVE  RequestIInv'
<1> DEFINE r == Request!Top.req
<1>1. /\ place \in Request!CallPlaces /\ place \in Places /\ "settle" \in Places
      /\ "settle" \notin Request!CallPlaces
  BY DEF Places, Request!CallPlaces, Request!DonePlaces
<1>2. /\ r \in called /\ r \in Requests
      /\ \A p : ~Holds(Request!Outer, r, p)
      /\ \A q, p : Holds(Request!Outer, q, p) <=> Holds(stack, q, p) /\ ~(q = r /\ p = place)
  BY <1>1, TopReturns
<1>3. /\ stack' \in Seq(Frame) /\ Nested(stack')
      /\ \A q, p : Holds(stack', q, p) <=>
           \/ Holds(stack, q, p) /\ ~(q = r /\ p = place)
           \/ q = r /\ p = "settle"
  BY <1>1, TopMoves
<1> HIDE DEF r
<1>4. /\ \A q \in Requests \ {r} : \A p : Holds(stack', q, p) <=> Holds(stack, q, p)
      /\ \A p : Holds(stack', r, p) <=> p = "settle"
      /\ ~Holds(stack, r, "prefilter")
  BY <1>2, <1>3
<1>5. state[r] # 2 /\ Ends(r)
  BY DEF r
<1>6. QED
  BY <1>2, <1>3, <1>4, <1>5, EndsInv

LEMMA AbortInv ==
  ASSUME RequestIInv, NEW r \in Requests, Request!Abort(r), ~Holds(stack, r, "ajaxSend")
  PROVE  RequestIInv'
<1> DEFINE after == IF transport[r] /\ xhr[r] = "open" THEN "over" ELSE xhr[r]
<1>1. /\ r \in called /\ state[r] # 2 /\ xhr' = [xhr EXCEPT ![r] = after]
      /\ UNCHANGED <<called, active, begun, installed>>
      /\ stack' = Append(stack, [req |-> r, at |-> "settle"])
  BY DEF Request!Abort, Request!BeginDone
<1>2. after \in {"none", "over"}
  BY DEF RequestIInv, RequestTyped, Known
<1> HIDE DEF after
<1>3. Ends(r)
  BY <1>1, <1>2 DEF Request!Abort, Request!BeginDone, Ends, RequestIInv, RequestTyped
<1>4. "settle" \in Places /\ "settle" \in Request!DonePlaces
  BY DEF Places, Request!DonePlaces
<1>5. \A q \in Request!DonePlaces : ~Holds(stack, r, q)
  BY <1>1 DEF RequestIInv, Known
<1>6. Pushes(stack, r, "settle", stack')
  BY <1>1, <1>4, <1>5, Pushed DEF RequestIInv
<1>7. /\ stack' \in Seq(Frame) /\ Nested(stack')
      /\ \A q, p : Holds(stack', q, p) <=> Holds(stack, q, p) \/ (q = r /\ p = "settle")
  BY <1>6 DEF Pushes
<1>8. QED
  BY <1>1, <1>3, <1>7, EndsInv

LEMMA AnswerInv ==
  ASSUME RequestIInv, NEW r \in Requests, NEW outcome \in Request!Outcomes,
         Request!Answer(r, outcome)
  PROVE  RequestIInv'
<1>1. /\ stack = <<>> /\ xhr[r] = "open" /\ xhr' = [xhr EXCEPT ![r] = "over"]
      /\ UNCHANGED <<called, installed, active, begun>>
  BY DEF Request!Answer
<1>2. r \in called /\ state[r] = 1
  BY <1>1 DEF RequestIInv, Known
<1>3. Request!BeginDone(r, outcome, stack)
  BY <1>2 DEF Request!Answer
<1>4. Ends(r)
  BY <1>1, <1>3
     DEF Request!BeginDone, Request!Outcomes, Ends, RequestIInv, RequestTyped
<1>5. \A q, p : ~Holds(stack, q, p)
  BY <1>1 DEF Holds
<1>6. "settle" \in Places /\ "settle" \in Request!DonePlaces
  BY DEF Places, Request!DonePlaces
<1>7. stack' = Append(stack, [req |-> r, at |-> "settle"])
  BY <1>3 DEF Request!BeginDone
<1>8. Pushes(stack, r, "settle", stack')
  BY <1>5, <1>6, <1>7, Pushed DEF RequestIInv
<1>9. /\ stack' \in Seq(Frame) /\ Nested(stack')
      /\ \A q, p : Holds(stack', q, p) <=> q = r /\ p = "settle"
  BY <1>5, <1>8 DEF Pushes
<1>10. QED
  BY <1>2, <1>4, <1>5, <1>9, EndsInv

LEMMA AjaxInv ==
  ASSUME RequestIInv, NEW r \in Requests, Request!Ajax(r)
  PROVE  RequestIInv'
<1>1. /\ r \notin called /\ called' = called \cup {r}
      /\ stack' = Append(stack, [req |-> r, at |-> "prefilter"])
      /\ UNCHANGED <<state, installed, transport, xhr, timer, result, active, begun, dones>>
  BY DEF Request!Ajax
<1>2. "prefilter" \in Places /\ "prefilter" \notin Request!DonePlaces
  BY DEF Places, Request!CallPlaces, Request!DonePlaces
<1>3. \A p \in Places : ~Holds(stack, r, p)
  BY <1>1 DEF RequestIInv, Known
<1>4. \A p : ~Holds(stack, r, p)
  <2> SUFFICES ASSUME NEW p, Holds(stack, r, p)
               PROVE  FALSE
    OBVIOUS
  <2>1. PICK i \in 1..Len(stack) : stack[i] = [req |-> r, at |-> p]
    BY DEF Holds
  <2>2. stack[i] \in Frame
    BY ElementOfSeq DEF RequestIInv
  <2>3. p \in Places
    BY <2>1, <2>2 DEF Frame
  <2>4. QED
    BY <1>3, <2>3
<1>5. Pushes(stack, r, "prefilter", stack')
  BY <1>1, <1>2, <1>4, Pushed DEF RequestIInv
<1>6. /\ stack' \in Seq(Frame) /\ Nested(stack')
      /\ \A q, p : Holds(stack', q, p) <=> Holds(stack, q, p) \/ (q = r /\ p = "prefilter")
  BY <1>5 DEF Pushes
<1>7. StepOf(r)
  BY <1>1, <1>6 DEF StepOf, RequestIInv, RequestTyped
<1>8. Known(r)'
  BY <1>1, <1>2, <1>4, <1>6 DEF Known, RequestIInv
<1>9. ~Counts(r) /\ ~Counts(r)'
  BY <1>1, <1>6 DEF Counts
<1>10. QED
  BY <1>1, <1>7, <1>8, <1>9, StepInv DEF CountKept

FieldsOf(r) ==
  /\ RequestTyped' /\ UNCHANGED called
  /\ \A q \in Requests \ {r} :
       /\ state'[q] = state[q] /\ transport'[q] = transport[q] /\ timer'[q] = timer[q]
       /\ xhr'[q] = xhr[q] /\ dones'[q] = dones[q]

Fields == <<called, state, installed, transport, xhr, timer, result, dones>>

LEMMA FieldsKept ==
  ASSUME RequestIInv, UNCHANGED Fields, NEW r
  PROVE  FieldsOf(r)
  BY DEF Fields, FieldsOf, RequestIInv, RequestTyped

LEMMA MoveStep ==
  ASSUME RequestIInv, NEW place, Request!Running(place), NEW p \in Places,
         place \in Request!CallPlaces \/ (place \in Request!DonePlaces /\ p \in Request!DonePlaces),
         stack' = Request!At(Request!Top.req, p), FieldsOf(Request!Top.req)
  PROVE  /\ StepOf(Request!Top.req)
         /\ \A pl : Holds(stack', Request!Top.req, pl) <=>
                      \/ Holds(stack, Request!Top.req, pl) /\ pl # place
                      \/ pl = p
<1>1. /\ stack' \in Seq(Frame) /\ Nested(stack')
      /\ \A q, pl : Holds(stack', q, pl) <=>
           \/ Holds(stack, q, pl) /\ ~(q = Request!Top.req /\ pl = place)
           \/ q = Request!Top.req /\ pl = p
  BY TopMoves
<1>2. QED
  BY <1>1 DEF StepOf, FieldsOf

LEMMA PopStep ==
  ASSUME RequestIInv, NEW place, Request!Running(place),
         stack' = Request!Outer, FieldsOf(Request!Top.req)
  PROVE  /\ StepOf(Request!Top.req)
         /\ \A pl : Holds(stack', Request!Top.req, pl) <=>
                      Holds(stack, Request!Top.req, pl) /\ pl # place
<1>1. /\ stack' \in Seq(Frame) /\ Nested(stack')
      /\ \A q, pl : Holds(stack', q, pl) <=>
           Holds(stack, q, pl) /\ ~(q = Request!Top.req /\ pl = place)
  BY TopReturns
<1>2. QED
  BY <1>1 DEF StepOf, FieldsOf

(* Where the top is, its request is at no other place of that kind. *)
LEMMA TopPlace ==
  ASSUME RequestIInv, NEW place, Request!Running(place)
  PROVE  /\ place \in Request!CallPlaces =>
              /\ state[Request!Top.req] # 1
              /\ \A p : Holds(stack, Request!Top.req, p) => p = place
         /\ place \in Request!DonePlaces =>
              /\ state[Request!Top.req] = 2
              /\ \A p \in Request!DonePlaces : Holds(stack, Request!Top.req, p) => p = place
<1>1. /\ Request!Top.req \in Requests /\ Holds(stack, Request!Top.req, place)
      /\ \A p : Holds(stack, Request!Top.req, p) /\ p # place => Holds(Request!Outer, Request!Top.req, p)
      /\ place \in Request!CallPlaces => \A p : ~Holds(Request!Outer, Request!Top.req, p)
      /\ place \in Request!DonePlaces =>
           \A p \in Request!DonePlaces : ~Holds(Request!Outer, Request!Top.req, p)
  BY TopReturns
<1>2. Known(Request!Top.req)
  BY <1>1 DEF RequestIInv
<1>3. QED
  BY <1>1, <1>2 DEF Known

LEMMA KindsOfPlace ==
  /\ {"prefilter", "ajaxStart", "beforeSend", "ajaxSend"} = Request!CallPlaces
  /\ {"settle", "complete", "ajaxStop"} = Request!DonePlaces
  /\ Places = Request!CallPlaces \cup Request!DonePlaces
  BY DEF Request!CallPlaces, Request!DonePlaces, Places

LEMMA SettledInv == RequestIInv /\ Request!Settled => RequestIInv'
<1> SUFFICES ASSUME RequestIInv, Request!Settled
             PROVE  RequestIInv'
  OBVIOUS
<1>1. /\ Request!Running("settle") /\ stack' = Request!At(Request!Top.req, "complete")
      /\ UNCHANGED Fields /\ CountKept
  BY DEF Request!Settled, Fields, CountKept
<1>2. PICK r \in Requests :
      /\ r = Request!Top.req /\ r \in called /\ Holds(stack, r, "settle") /\ state[r] = 2
      /\ Known(r)
  BY <1>1, TopReturns, TopPlace, KindsOfPlace DEF RequestIInv
<1>3. /\ StepOf(r)
      /\ \A p : Holds(stack', r, p) <=> (Holds(stack, r, p) /\ p # "settle") \/ p = "complete"
  BY <1>1, <1>2, FieldsKept, MoveStep, KindsOfPlace
<1>4. Known(r)'
  BY <1>1, <1>2, <1>3, KindsOfPlace DEF Known, Fields
<1>5. Counts(r)' <=> Counts(r)
  BY <1>1, <1>2, <1>3 DEF Counts, Fields
<1>6. QED
  BY <1>1, <1>2, <1>3, <1>4, <1>5, StepInv

LEMMA AjaxStartedInv == RequestIInv /\ Request!AjaxStarted => RequestIInv'
<1> SUFFICES ASSUME RequestIInv, Request!AjaxStarted
             PROVE  RequestIInv'
  OBVIOUS
<1>1. /\ Request!Running("ajaxStart") /\ stack' = Request!At(Request!Top.req, "beforeSend")
      /\ UNCHANGED Fields /\ CountKept
  BY DEF Request!AjaxStarted, Fields, CountKept
<1>2. PICK r \in Requests :
      /\ r = Request!Top.req /\ r \in called /\ state[r] # 1 /\ Known(r)
  BY <1>1, TopReturns, TopPlace, KindsOfPlace DEF RequestIInv
<1>3. /\ StepOf(r)
      /\ \A p : Holds(stack', r, p) <=>
                  (Holds(stack, r, p) /\ p # "ajaxStart") \/ p = "beforeSend"
  BY <1>1, <1>2, FieldsKept, MoveStep, KindsOfPlace
<1>4. Known(r)'
  BY <1>1, <1>2, <1>3, KindsOfPlace DEF Known, Fields
<1>5. Counts(r)' <=> Counts(r)
  BY <1>1, <1>2, <1>3 DEF Counts, Fields
<1>6. QED
  BY <1>1, <1>2, <1>3, <1>4, <1>5, StepInv

LEMMA AjaxStoppedInv == RequestIInv /\ Request!AjaxStopped => RequestIInv'
<1> SUFFICES ASSUME RequestIInv, Request!AjaxStopped
             PROVE  RequestIInv'
  OBVIOUS
<1>1. /\ Request!Running("ajaxStop") /\ stack' = Request!Outer
      /\ UNCHANGED Fields /\ CountKept
  BY DEF Request!AjaxStopped, Fields, CountKept
<1>2. PICK r \in Requests :
      /\ r = Request!Top.req /\ r \in called /\ Known(r)
  BY <1>1, TopReturns DEF RequestIInv
<1>3. /\ StepOf(r)
      /\ \A p : Holds(stack', r, p) <=> Holds(stack, r, p) /\ p # "ajaxStop"
  BY <1>1, <1>2, FieldsKept, PopStep
<1>4. Known(r)'
  BY <1>1, <1>2, <1>3, KindsOfPlace DEF Known, Fields
<1>5. Counts(r)' <=> Counts(r)
  BY <1>1, <1>2, <1>3 DEF Counts, Fields
<1>6. QED
  BY <1>1, <1>2, <1>3, <1>4, <1>5, StepInv

LEMMA CompleteInv == RequestIInv /\ Request!Complete => RequestIInv'
<1> SUFFICES ASSUME RequestIInv, Request!Complete
             PROVE  RequestIInv'
  OBVIOUS
<1>1. Request!Running("complete") /\ UNCHANGED Fields
  BY DEF Request!Complete, Fields
<1>2. PICK r \in Requests :
      /\ r = Request!Top.req /\ r \in called /\ Known(r) /\ state[r] = 2
      /\ Holds(stack, r, "complete") /\ ~Holds(stack, r, "settle")
      /\ Request!Inside(r, "prefilter") <=> Holds(stack, r, "prefilter")
  BY <1>1, TopReturns, TopPlace, KindsOfPlace, InsideHolds DEF RequestIInv
<1>3. FieldsOf(r)
  BY <1>1, FieldsKept
<1>4. CASE Holds(stack, r, "prefilter")
  <2>1. stack' = Request!Outer /\ CountKept
    BY <1>2, <1>4 DEF Request!Complete, CountKept
  <2>2. /\ StepOf(r)
        /\ \A p : Holds(stack', r, p) <=> Holds(stack, r, p) /\ p # "complete"
    BY <1>1, <1>2, <1>3, <2>1, PopStep
  <2>3. Known(r)'
    BY <1>1, <1>2, <2>2, KindsOfPlace DEF Known, Fields
  <2>4. ~Counts(r)' /\ ~Counts(r)
    BY <1>4, <2>2 DEF Counts
  <2>5. QED
    BY <1>2, <2>1, <2>2, <2>3, <2>4, StepInv
<1>5. CASE ~Holds(stack, r, "prefilter")
  <2>1. CountDown
    BY <1>2, <1>5 DEF Request!Complete, CountDown
  <2>2. CASE stack' = Request!At(r, "ajaxStop")
    <3>1. /\ StepOf(r)
          /\ \A p : Holds(stack', r, p) <=>
                      (Holds(stack, r, p) /\ p # "complete") \/ p = "ajaxStop"
      BY <1>1, <1>2, <1>3, <2>2, MoveStep, KindsOfPlace
    <3>2. Known(r)'
      BY <1>1, <1>2, <3>1, KindsOfPlace DEF Known, Fields
    <3>3. ~Counts(r)' /\ Counts(r)
      BY <1>1, <1>2, <1>5, <3>1 DEF Counts, Fields
    <3>4. QED
      BY <1>2, <2>1, <3>1, <3>2, <3>3, StepInv
  <2>3. CASE stack' = Request!Outer
    <3>1. /\ StepOf(r)
          /\ \A p : Holds(stack', r, p) <=> Holds(stack, r, p) /\ p # "complete"
      BY <1>1, <1>2, <1>3, <2>3, PopStep
    <3>2. Known(r)'
      BY <1>1, <1>2, <3>1, KindsOfPlace DEF Known, Fields
    <3>3. ~Counts(r)' /\ Counts(r)
      BY <1>1, <1>2, <1>5, <3>1 DEF Counts, Fields
    <3>4. QED
      BY <1>2, <2>1, <3>1, <3>2, <3>3, StepInv
  <2>4. QED
    BY <1>2, <1>5, <2>2, <2>3 DEF Request!Complete
<1>6. QED
  BY <1>4, <1>5

LEMMA PrefilteredInv == RequestIInv /\ Request!Prefiltered => RequestIInv'
<1> SUFFICES ASSUME RequestIInv, Request!Prefiltered
             PROVE  RequestIInv'
  OBVIOUS
<1>1. Request!Running("prefilter") /\ UNCHANGED Fields
  BY DEF Request!Prefiltered, Fields
<1>2. PICK r \in Requests :
        /\ r = Request!Top.req /\ r \in called /\ Known(r) /\ state[r] # 1
        /\ \A p : Holds(stack, r, p) <=> p = "prefilter"
  BY <1>1, TopReturns, TopPlace, KindsOfPlace DEF RequestIInv
<1>3. FieldsOf(r) /\ ~Counts(r)
  BY <1>1, <1>2, FieldsKept DEF Counts
<1>4. CASE state[r] = 2
  <2>1. stack' = Request!Outer /\ CountKept
    BY <1>2, <1>4 DEF Request!Prefiltered, CountKept
  <2>2. StepOf(r) /\ \A p : ~Holds(stack', r, p)
    BY <1>1, <1>2, <1>3, <2>1, PopStep
  <2>3. Known(r)'
    BY <1>1, <1>2, <2>2 DEF Known, Fields
  <2>4. ~Counts(r)'
    BY <1>1, <1>4, <2>2 DEF Counts, Fields
  <2>5. QED
    BY <1>3, <2>1, <2>2, <2>3, <2>4, StepInv
<1>5. CASE state[r] # 2
  <2>1. PICK p \in {"ajaxStart", "beforeSend"} : stack' = Request!At(Request!Top.req, p)
    BY <1>2, <1>5 DEF Request!Prefiltered
  <2>2. CountUp
    BY <1>2, <1>5 DEF Request!Prefiltered, CountUp
  <2>3. StepOf(r) /\ \A pl : Holds(stack', r, pl) <=> pl = p
    BY <1>1, <1>2, <1>3, <2>1, MoveStep, KindsOfPlace
  <2>4. Known(r)'
    BY <1>1, <1>2, <2>3, KindsOfPlace DEF Known, Fields
  <2>5. Counts(r)'
    BY <1>1, <1>2, <1>5, <2>3 DEF Counts, Fields
  <2>6. QED
    BY <1>3, <2>2, <2>3, <2>4, <2>5, StepInv
<1>6. QED
  BY <1>4, <1>5

(* Ends that leave the browser's request as it is, or over *)
LEMMA BegunEnds ==
  ASSUME RequestIInv, NEW r \in Requests, NEW outcome \in Request!Outcomes,
         NEW below, Request!BeginDone(r, outcome, below),
         xhr' \in {xhr, [xhr EXCEPT ![r] = "over"]}, xhr[r] # "open",
         installed' \in {installed, [installed EXCEPT ![r] = TRUE]},
         UNCHANGED <<called, active, begun>>
  PROVE  Ends(r)
  BY DEF Request!BeginDone, Request!Outcomes, Ends, RequestIInv, RequestTyped

LEMMA CallEnds ==
  ASSUME RequestIInv, NEW place \in {"beforeSend", "ajaxSend"}, Request!Running(place),
         state[Request!Top.req] # 2, NEW outcome \in Request!Outcomes,
         Request!BeginDone(Request!Top.req, outcome, Request!Outer),
         xhr' \in {xhr, [xhr EXCEPT ![Request!Top.req] = "over"]},
         installed' \in {installed, [installed EXCEPT ![Request!Top.req] = TRUE]},
         UNCHANGED <<called, active, begun>>
  PROVE  RequestIInv'
<1>1. /\ Request!Top.req \in Requests /\ state[Request!Top.req] # 1
      /\ Known(Request!Top.req)
  BY TopReturns, TopPlace, KindsOfPlace DEF RequestIInv
<1>2. xhr[Request!Top.req] # "open"
  BY <1>1 DEF Known
<1>3. Ends(Request!Top.req)
  BY <1>1, <1>2, BegunEnds
<1>4. stack' = Request!At(Request!Top.req, "settle")
  BY DEF Request!BeginDone, Request!At
<1>5. QED
  BY <1>3, <1>4, TopEnds

LEMMA OutcomesAre == Request!Outcomes = {"success", "error"}
  BY DEF Request!Outcomes

LEMMA NoTransportInv == RequestIInv /\ Request!NoTransport => RequestIInv'
  BY CallEnds, OutcomesAre DEF Request!NoTransport

LEMMA BeforeSentInv ==
  ASSUME RequestIInv, NEW goesOn \in BOOLEAN, Request!BeforeSent(goesOn)
  PROVE  RequestIInv'
<1>1. Request!Running("beforeSend") /\ UNCHANGED <<called, xhr, active, begun>>
  BY DEF Request!BeforeSent
<1>2. PICK r \in Requests :
        /\ r = Request!Top.req /\ r \in called /\ Known(r) /\ state[r] # 1
        /\ \A p : Holds(stack, r, p) <=> p = "beforeSend"
  BY <1>1, TopReturns, TopPlace, KindsOfPlace DEF RequestIInv
<1>3. CASE state[r] = 2
  <2>1. stack' = Request!Outer /\ UNCHANGED Fields /\ CountKept
    BY <1>1, <1>2, <1>3 DEF Request!BeforeSent, Fields, CountKept
  <2>2. StepOf(r) /\ \A p : ~Holds(stack', r, p)
    BY <1>1, <1>2, <2>1, FieldsKept, PopStep
  <2>3. Known(r)'
    BY <1>2, <2>1, <2>2 DEF Known, Fields
  <2>4. ~Counts(r) /\ ~Counts(r)'
    BY <1>2, <1>3, <2>1, <2>2 DEF Counts, Fields
  <2>5. QED
    BY <2>1, <2>2, <2>3, <2>4, StepInv
<1>4. CASE state[r] # 2 /\ ~goesOn
  <2>1. Request!BeginDone(Request!Top.req, "error", Request!Outer) /\ UNCHANGED installed
    BY <1>2, <1>4 DEF Request!BeforeSent
  <2>2. QED
    BY <1>1, <1>2, <1>4, <2>1, CallEnds, OutcomesAre
<1>5. CASE state[r] # 2 /\ goesOn
  <2>1. /\ installed' = [installed EXCEPT ![r] = TRUE]
        /\ transport' = [transport EXCEPT ![r] = TRUE]
        /\ stack' = Request!At(Request!Top.req, "ajaxSend")
        /\ UNCHANGED <<state, timer, result, dones>> /\ CountKept
    BY <1>1, <1>2, <1>5 DEF Request!BeforeSent, CountKept
  <2>2. FieldsOf(r)
    BY <1>1, <2>1 DEF FieldsOf, RequestIInv, RequestTyped
  <2>3. StepOf(r) /\ \A p : Holds(stack', r, p) <=> p = "ajaxSend"
    BY <1>1, <1>2, <2>1, <2>2, MoveStep, KindsOfPlace
  <2>4. transport'[r] = TRUE /\ state[r] = 0
    BY <1>2, <1>5, <2>1 DEF RequestIInv, RequestTyped
  <2>5. Known(r)'
    BY <1>1, <1>2, <2>1, <2>3, <2>4, KindsOfPlace DEF Known
  <2>6. Counts(r) /\ Counts(r)'
    BY <1>1, <1>2, <1>5, <2>1, <2>3 DEF Counts
  <2>7. QED
    BY <2>1, <2>3, <2>5, <2>6, StepInv
<1>6. QED
  BY <1>3, <1>4, <1>5

LEMMA SendInv ==
  ASSUME RequestIInv, NEW throws \in BOOLEAN, Request!Send(throws)
  PROVE  RequestIInv'
<1>1. Request!Running("ajaxSend") /\ UNCHANGED <<called, installed, active, begun>>
  BY DEF Request!Send
<1>2. PICK r \in Requests :
        /\ r = Request!Top.req /\ r \in called /\ Known(r)
        /\ state[r] = 0 /\ transport[r] = TRUE
        /\ \A p : Holds(stack, r, p) <=> p = "ajaxSend"
  <2>1. PICK r \in Requests :
          /\ r = Request!Top.req /\ r \in called /\ Known(r)
          /\ \A p : Holds(stack, r, p) <=> p = "ajaxSend"
    BY <1>1, TopReturns, TopPlace, KindsOfPlace DEF RequestIInv
  <2>2. state[r] = 0 /\ transport[r] = TRUE
    BY <2>1 DEF Known
  <2>3. QED
    BY <2>1, <2>2
<1>3. CASE throws
  <2>1. Request!BeginDone(Request!Top.req, "error", Request!Outer) /\ UNCHANGED xhr
    BY <1>3 DEF Request!Send
  <2>2. QED
    BY <1>1, <1>2, <2>1, CallEnds, OutcomesAre
<1>4. CASE ~throws
  <2> DEFINE timed == r \in Timed \ Sync
  <2>1. /\ state' = [state EXCEPT ![r] = 1] /\ timer' = [timer EXCEPT ![r] = timed]
        /\ xhr' = [xhr EXCEPT ![r] = "open"] /\ stack' = Request!Outer
        /\ UNCHANGED <<transport, result, dones>> /\ CountKept
    BY <1>1, <1>2, <1>4 DEF Request!Send, CountKept
  <2>2. FieldsOf(r)
    BY <1>1, <2>1 DEF FieldsOf, RequestIInv, RequestTyped
  <2>3. StepOf(r) /\ \A p : ~Holds(stack', r, p)
    BY <1>1, <1>2, <2>1, <2>2, PopStep
  <2>4. state'[r] = 1 /\ dones'[r] = dones[r] /\ transport'[r] = TRUE /\ called' = called
    BY <1>1, <1>2, <2>1 DEF RequestIInv, RequestTyped
  <2>5. Known(r)'
    BY <1>2, <2>3, <2>4 DEF Known
  <2>6. Counts(r) /\ Counts(r)'
    BY <1>2, <2>3, <2>4 DEF Counts
  <2>7. QED
    BY <2>1, <2>3, <2>5, <2>6, StepInv
<1>5. QED
  BY <1>3, <1>4

LEMMA SendSyncInv ==
  ASSUME RequestIInv, NEW outcome \in Request!Outcomes, Request!SendSync(outcome)
  PROVE  RequestIInv'
<1>1. /\ Request!Running("ajaxSend") /\ UNCHANGED <<called, installed, active, begun>>
      /\ Request!BeginDone(Request!Top.req, outcome, Request!Outer)
      /\ xhr' = [xhr EXCEPT ![Request!Top.req] = "over"]
  BY DEF Request!SendSync
<1>2. state[Request!Top.req] # 2
  <2>1. /\ Request!Top.req \in Requests /\ Holds(stack, Request!Top.req, "ajaxSend")
        /\ Known(Request!Top.req)
    BY <1>1, TopReturns DEF RequestIInv
  <2>2. QED
    BY <2>1 DEF Known
<1>3. QED
  BY <1>1, <1>2, CallEnds

LEMMA RequestNextInv == RequestIInv /\ Request!Next => RequestIInv'
<1> SUFFICES ASSUME RequestIInv, Request!Next
             PROVE  RequestIInv'
  OBVIOUS
<1>1. CASE Request!Returns
  BY <1>1, SettledInv, CompleteInv, AjaxStoppedInv, PrefilteredInv, AjaxStartedInv,
     NoTransportInv, BeforeSentInv, SendInv, SendSyncInv DEF Request!Returns
<1>2. ASSUME NEW r \in Requests, Request!PageAborts(r)
      PROVE  RequestIInv'
  BY <1>2, AbortInv, InsideHolds DEF Request!PageAborts, RequestIInv
<1>3. ASSUME NEW r \in Requests, Request!Expire(r)
      PROVE  RequestIInv'
  <2>1. Request!Abort(r) /\ ~Holds(stack, r, "ajaxSend")
    BY <1>3 DEF Request!Expire, Holds
  <2>2. QED
    BY <2>1, AbortInv
<1>4. QED
  BY <1>1, <1>2, <1>3, AjaxInv, AnswerInv DEF Request!Next

LEMMA RequestStutter == RequestIInv /\ UNCHANGED Request!vars => RequestIInv'
  BY DEF Request!vars, RequestIInv, RequestTyped, Known, Live, Counts

(* Requests alone: however many there are and however the page's functions make and    *)
(* abort others, each is completed once, active counts those under way, ajaxStart and    *)
(* ajaxStop alternate, and the browser does not go on with one that is done.          *)
THEOREM RequestsAlone == Request!Spec => []Request!CountIsRight
<1>1. QED
  BY RequestInitInv, RequestNextInv, RequestStutter, RequestIInvSound, PTL DEF Request!Spec

(* The same of the behaviours that MCUserInterface checks. *)
THEOREM RequestsCorrect == Spec => []CountIsRight
<1> DEFINE Inv == part = "request" => RequestIInv
<1>1. Init => Inv
  BY RequestInitInv DEF Init, Loop, Sides, Browser
<1>2. Inv /\ [Next]_everything => Inv'
  <2> SUFFICES ASSUME Inv, [Next]_everything, part' = "request"
               PROVE  RequestIInv'
    OBVIOUS
  <2>1. CASE part = "request" /\ Request!Next
    BY <2>1, RequestNextInv
  <2>2. CASE part = "request" /\ UNCHANGED Request!vars
    BY <2>2, RequestStutter
  <2>3. QED
    BY <2>1, <2>2
       DEF Next, OfWindow, OfLog, OfTip, OfCut, OfPolling, OfStart, OfRequest, Loop, Sides,
           Browser, everything, ofRequest, Request!vars
<1>3. Inv => CountIsRight
  BY RequestIInvSound DEF CountIsRight
<1>4. QED
  BY <1>1, <1>2, <1>3, PTL DEF Spec

(***************************************************************************)
(* Trunk8: the binary search finds the longest bite that fits, because a bite that    *)
(* replaces fewer letters is not shorter.                                        *)
(***************************************************************************)

Chars == Letters \cup {"blank", "dots"}

(* How much stays of a part of a text, without the blanks at its ends. *)
Kept(side, s, i, j) == Len(Cut(side)!Trim(SubSeq(s, i, j)))

Bite(side, n) == Cut(side)!EatStr(uncut, Len(uncut) - n)

(* During the search: no bite that keeps less than "lower" is longer than the one that    *)
(* was found, and none that keeps more than "upper" fits. *)
SearchInv(side) ==
  /\ lower \in 0..Len(uncut) /\ upper \in -1..(Len(uncut) - 1) /\ lower <= upper + 1
  /\ maxBite \in Seq(Chars) /\ Len(maxBite) <= Len(uncut) + 1 /\ Len(maxBite) <= room
  /\ \A n \in 0..(Len(uncut) - 1) :
       /\ n < lower => Len(Bite(side, n)) <= Len(maxBite)
       /\ n > upper => Len(Bite(side, n)) > room

CutIInv(side) ==
  /\ uncut \in CutTexts /\ room \in 0..MaxLength /\ current \in BOOLEAN
  /\ phase \in {"new", "idle", "searching"}
  /\ html \in Seq(Chars) /\ Len(html) <= Len(uncut) + 1
  /\ phase = "searching" => SearchInv(side)
  /\ Cut(side)!BestBite

LEMMA GreatestElement ==
  ASSUME NEW n \in Nat, NEW S \in SUBSET (1..n), S # {}
  PROVE  \E e \in S : \A f \in S : e >= f
<1> DEFINE T == {n - e : e \in S}
<1>1. T \in SUBSET Nat /\ T # {}
  <2>1. \A e \in S : n - e \in Nat
    OBVIOUS
  <2>2. QED
    BY <2>1
<1>2. PICK m \in T : \A f \in T : m <= f
  BY <1>1, LeastElement
<1>3. PICK e \in S : m = n - e
  OBVIOUS
<1>4. ASSUME NEW f \in S
      PROVE  e >= f
  <2>1. n - f \in T
    OBVIOUS
  <2>2. n - e <= n - f
    BY <1>2, <1>3, <2>1
  <2>3. QED
    BY <2>2
<1>5. QED
  BY <1>4

LEMMA CutTextFacts ==
  ASSUME NEW s \in CutTexts
  PROVE  s \in Seq(Chars) /\ Len(s) \in Nat /\ Len(s) > 1
<1>1. PICK n \in 2..MaxLength : s \in [1..n -> Letters \cup {"blank"}]
  BY DEF CutTexts
<1>2. n \in Nat /\ n > 1
  BY <1>1, Assumptions
<1>3. s \in Seq(Letters \cup {"blank"}) /\ Len(s) = n
  BY <1>1, <1>2
<1>4. s \in Seq(Chars)
  BY <1>3, SeqMonotonic DEF Chars
<1>5. QED
  BY <1>2, <1>3, <1>4

(* The part t of s reaches over all its letters, and from one to another. *)
AllLetters(s, t) ==
  \A p, q \in 1..Len(s) : s[p] # "blank" /\ s[q] # "blank" => q - p + 1 <= Len(t)
FromLetter(s, t) ==
  \E p, q \in 1..Len(s) :
    /\ p <= q /\ s[p] # "blank" /\ s[q] # "blank" /\ Len(t) = q - p + 1
    /\ \A i \in 1..Len(t) : t[i] = s[i + (p - 1)]

(* What Trim leaves reaches from the first to the last letter. *)
LEMMA TrimFacts ==
  ASSUME NEW side \in Sides, NEW U, NEW s \in Seq(U), NEW t, t = Cut(side)!Trim(s)
  PROVE  /\ t \in Seq(U) /\ Len(t) \in Nat /\ Len(t) <= Len(s)
         /\ AllLetters(s, t) /\ (Len(t) = 0 \/ FromLetter(s, t))
<1>1. PICK S : S = {i \in 1..Len(s) : s[i] # "blank"}
  OBVIOUS
<1>2. Len(s) \in Nat /\ DOMAIN s = 1..Len(s) /\ S \in SUBSET (1..Len(s)) /\ S \in SUBSET Nat
  <2>1. Len(s) \in Nat /\ DOMAIN s = 1..Len(s)
    OBVIOUS
  <2>2. S \in SUBSET (1..Len(s))
    BY <1>1
  <2>3. QED
    BY <2>1, <2>2
<1>3. CASE S = {}
  <2>1. t = <<>>
    BY <1>1, <1>2, <1>3 DEF Cut!Trim, Cut!Blank
  <2>2. t \in Seq(U) /\ Len(t) = 0
    BY <2>1
  <2>3. \A i \in 1..Len(s) : s[i] = "blank"
    BY <1>1, <1>3
  <2>4. QED
    BY <1>2, <2>2, <2>3 DEF AllLetters
<1>4. CASE S # {}
  <2>1. PICK p, q : p = Cut(side)!Min(S) /\ q = Cut(side)!Max(S)
    OBVIOUS
  <2>2. p \in S /\ \A i \in S : p <= i
    BY <1>2, <1>4, <2>1, LeastElement DEF Cut!Min
  <2>3. q \in S /\ \A i \in S : i <= q
    <3>1. \E x \in S : \A y \in S : x >= y
      BY <1>2, <1>4, GreatestElement
    <3>2. QED
      BY <1>2, <2>1, <3>1 DEF Cut!Max
  <2>4. t = SubSeq(s, p, q)
    BY <1>1, <1>2, <1>4, <2>1 DEF Cut!Trim, Cut!Blank
  <2>5. p \in 1..Len(s) /\ q \in 1..Len(s) /\ p <= q
    BY <1>2, <2>2, <2>3
  <2>6. /\ t \in Seq(U) /\ Len(t) = q - p + 1
        /\ \A i \in 1..Len(t) : t[i] = s[i + (p - 1)]
    BY <1>2, <2>4, <2>5
  <2>7. s[p] # "blank" /\ s[q] # "blank"
    BY <1>1, <2>2, <2>3
  <2>8. \A a, b \in 1..Len(s) : s[a] # "blank" /\ s[b] # "blank" => b - a + 1 <= Len(t)
    <3>1. ASSUME NEW a \in 1..Len(s), NEW b \in 1..Len(s), s[a] # "blank", s[b] # "blank"
          PROVE  b - a + 1 <= Len(t)
      <4>1. a \in S /\ b \in S
        BY <1>1, <3>1
      <4>2. p <= a /\ b <= q
        BY <2>2, <2>3, <4>1
      <4>3. QED
        BY <1>2, <2>5, <2>6, <4>2
    <3>2. QED
      BY <3>1
  <2>9. Len(t) \in Nat /\ Len(t) <= Len(s)
    BY <1>2, <2>5, <2>6
  <2>10. QED
    BY <2>5, <2>6, <2>7, <2>8, <2>9 DEF AllLetters, FromLetter
<1>5. QED
  BY <1>3, <1>4

(* More of a text keeps no less. *)
LEMMA KeptGrows ==
  ASSUME NEW side \in Sides, NEW U, NEW s \in Seq(U), NEW i \in Nat, NEW j \in Nat, NEW k \in Nat,
         NEW m \in Nat, 1 <= k, k <= i, i <= j + 1, j <= m, m <= Len(s)
  PROVE  Kept(side, s, i, j) <= Kept(side, s, k, m)
<1>1. PICK a, b : a = SubSeq(s, i, j) /\ b = SubSeq(s, k, m)
  OBVIOUS
<1>2. /\ a \in Seq(U) /\ Len(a) = j - i + 1 /\ \A x \in 1..Len(a) : a[x] = s[x + (i - 1)]
      /\ b \in Seq(U) /\ Len(b) = m - k + 1 /\ \A x \in 1..Len(b) : b[x] = s[x + (k - 1)]
      /\ Len(s) \in Nat
  BY <1>1
<1>3. PICK v, w : v = Cut(side)!Trim(a) /\ w = Cut(side)!Trim(b)
  OBVIOUS
<1>4. /\ Len(v) \in Nat /\ Len(w) \in Nat
      /\ AllLetters(b, w) /\ (Len(v) = 0 \/ FromLetter(a, v))
  BY <1>2, <1>3, TrimFacts
<1>5. ASSUME Len(v) # 0
      PROVE  Len(v) <= Len(w)
  <2>1. PICK p, q \in 1..Len(a) : p <= q /\ a[p] # "blank" /\ a[q] # "blank" /\ Len(v) = q - p + 1
    BY <1>4, <1>5 DEF FromLetter
  <2>2. PICK x, y : x = p + (i - k) /\ y = q + (i - k)
    OBVIOUS
  <2>3. x \in 1..Len(b) /\ y \in 1..Len(b) /\ x + (k - 1) = p + (i - 1) /\ y + (k - 1) = q + (i - 1)
    BY <1>2, <2>2
  <2>4. b[x] = a[p] /\ b[y] = a[q]
    BY <1>2, <2>3
  <2>5. y - x + 1 <= Len(w)
    BY <1>4, <2>1, <2>3, <2>4 DEF AllLetters
  <2>6. QED
    BY <2>1, <2>2, <2>5
<1>6. Len(v) <= Len(w)
  BY <1>4, <1>5
<1>7. QED
  BY <1>1, <1>3, <1>6 DEF Kept

LEMMA TrimTwice ==
  ASSUME NEW side \in Sides, NEW U, NEW s \in Seq(U), NEW t, t = Cut(side)!Trim(s)
  PROVE  Len(Cut(side)!Trim(t)) = Len(t)
<1>1. t \in Seq(U) /\ Len(t) \in Nat
  BY TrimFacts
<1>2. PICK u : u = Cut(side)!Trim(t)
  OBVIOUS
<1>3. Len(u) \in Nat /\ Len(u) <= Len(t) /\ AllLetters(t, u)
  BY <1>1, <1>2, TrimFacts
<1>4. ASSUME Len(t) # 0
      PROVE  Len(t) <= Len(u)
  <2>1. PICK p, q \in 1..Len(s) :
          /\ p <= q /\ s[p] # "blank" /\ s[q] # "blank" /\ Len(t) = q - p + 1
          /\ \A i \in 1..Len(t) : t[i] = s[i + (p - 1)]
    <3>1. FromLetter(s, t)
      BY <1>4, TrimFacts
    <3>2. QED
      BY <3>1 DEF FromLetter
  <2>2. 1 \in 1..Len(t) /\ Len(t) \in 1..Len(t) /\ 1 + (p - 1) = p /\ Len(t) + (p - 1) = q
    BY <1>1, <1>4, <2>1
  <2>3. t[1] = s[p] /\ t[Len(t)] = s[q]
    BY <2>1, <2>2
  <2>4. Len(t) - 1 + 1 <= Len(u)
    BY <1>3, <2>1, <2>2, <2>3 DEF AllLetters
  <2>5. QED
    BY <1>1, <2>4
<1>5. QED
  BY <1>1, <1>2, <1>3, <1>4

LEMMA HalfFacts ==
  ASSUME NEW n \in Nat
  PROVE  n \div 2 \in Nat /\ 2 * (n \div 2) <= n /\ n <= 2 * (n \div 2) + 1
  OBVIOUS

LEMMA KeptIsLength ==
  ASSUME NEW side \in Sides, NEW U, NEW s \in Seq(U), NEW i \in Nat, NEW j \in Nat,
         1 <= i, i <= j + 1, j <= Len(s)
  PROVE  /\ Cut(side)!Trim(SubSeq(s, i, j)) \in Seq(U)
         /\ Kept(side, s, i, j) \in Nat /\ Kept(side, s, i, j) <= j - i + 1
<1>1. PICK a : a = SubSeq(s, i, j)
  OBVIOUS
<1>2. a \in Seq(U) /\ Len(a) = j - i + 1
  BY <1>1
<1>3. PICK t : t = Cut(side)!Trim(a)
  OBVIOUS
<1>4. t \in Seq(U) /\ Len(t) \in Nat /\ Len(t) <= Len(a)
  BY <1>2, <1>3, TrimFacts
<1>5. QED
  BY <1>1, <1>2, <1>3, <1>4 DEF Kept

(* What is left of a half when letters of its side are eaten and blanks go with them. *)
LEMMA HalfEaten ==
  ASSUME NEW side \in Sides, NEW U, NEW s \in Seq(U), NEW x \in Nat, x <= Len(s)
  PROVE  /\ Cut(side)!Trim(Cut(side)!EatRight(s, x, <<>>)) \in Seq(U)
         /\ Len(Cut(side)!Trim(Cut(side)!EatRight(s, x, <<>>))) = Kept(side, s, 1, Len(s) - x)
         /\ Cut(side)!Trim(Cut(side)!EatLeft(s, x, <<>>)) \in Seq(U)
         /\ Len(Cut(side)!Trim(Cut(side)!EatLeft(s, x, <<>>))) = Kept(side, s, x + 1, Len(s))
<1>1. Len(s) \in Nat
  OBVIOUS
<1>2. CASE x = 0
  <2>1. Cut(side)!EatRight(s, x, <<>>) = s /\ Cut(side)!EatLeft(s, x, <<>>) = s
    BY <1>2 DEF Cut!EatRight, Cut!EatLeft
  <2>2. SubSeq(s, 1, Len(s)) = s
    BY SubSeqFull
  <2>3. Cut(side)!Trim(s) \in Seq(U)
    BY TrimFacts
  <2>4. Len(s) - x = Len(s) /\ x + 1 = 1
    BY <1>1, <1>2
  <2>5. Kept(side, s, 1, Len(s) - x) = Len(Cut(side)!Trim(s))
    BY <2>2, <2>4 DEF Kept
  <2>6. Kept(side, s, x + 1, Len(s)) = Len(Cut(side)!Trim(s))
    BY <2>2, <2>4 DEF Kept
  <2>7. QED
    BY <2>1, <2>3, <2>5, <2>6
<1>3. CASE x # 0
  <2>1. PICK a, b : a = SubSeq(s, 1, Len(s) - x) /\ b = SubSeq(s, x + 1, Len(s))
    OBVIOUS
  <2>2. a \in Seq(U) /\ b \in Seq(U)
    BY <1>1, <2>1
  <2>3. PICK v, w : v = Cut(side)!Trim(a) /\ w = Cut(side)!Trim(b)
    OBVIOUS
  <2>4. v \in Seq(U) /\ w \in Seq(U)
    BY <2>2, <2>3, TrimFacts
  <2>5. v \o <<>> = v /\ <<>> \o w = w
    BY <2>4, ConcatEmptySeq
  <2>6. Cut(side)!EatRight(s, x, <<>>) = v
    BY <1>3, <2>1, <2>3, <2>5 DEF Cut!EatRight
  <2>7. Cut(side)!EatLeft(s, x, <<>>) = w
    BY <1>3, <2>1, <2>3, <2>5 DEF Cut!EatLeft
  <2>8. Cut(side)!Trim(v) \in Seq(U) /\ Cut(side)!Trim(w) \in Seq(U)
    BY <2>4, TrimFacts
  <2>9. Len(Cut(side)!Trim(v)) = Len(v) /\ Len(Cut(side)!Trim(w)) = Len(w)
    BY <2>2, <2>3, TrimTwice
  <2>10. Kept(side, s, 1, Len(s) - x) = Len(v) /\ Kept(side, s, x + 1, Len(s)) = Len(w)
    BY <2>1, <2>3 DEF Kept
  <2>11. QED
    BY <2>6, <2>7, <2>8, <2>9, <2>10
<1>4. QED
  BY <1>2, <1>3

FirstHalf(s) == SubSeq(s, 1, Len(s) - (Len(s) \div 2))
SecondHalf(s) == SubSeq(s, (Len(s) - (Len(s) \div 2)) + 1, Len(s))

LEMMA HalvesFacts ==
  ASSUME NEW U, NEW s \in Seq(U)
  PROVE  /\ FirstHalf(s) \in Seq(U) /\ Len(FirstHalf(s)) = Len(s) - (Len(s) \div 2)
         /\ SecondHalf(s) \in Seq(U) /\ Len(SecondHalf(s)) = Len(s) \div 2
         /\ Len(s) \in Nat /\ Len(s) \div 2 \in Nat
         /\ 2 * (Len(s) \div 2) <= Len(s) /\ Len(s) <= 2 * (Len(s) \div 2) + 1
<1>1. PICK n, h : n = Len(s) /\ h = n \div 2
  OBVIOUS
<1>2. n \in Nat
  BY <1>1
<1>3. h \in Nat /\ 2 * h <= n /\ n <= 2 * h + 1
  BY <1>1, <1>2, HalfFacts
<1>4. SubSeq(s, 1, n - h) \in Seq(U) /\ Len(SubSeq(s, 1, n - h)) = n - h
  <2>1. PICK m : m = n - h
    OBVIOUS
  <2>2. m \in Nat /\ m <= Len(s)
    BY <1>1, <1>2, <1>3, <2>1
  <2>3. SubSeq(s, 1, m) \in Seq(U) /\ Len(SubSeq(s, 1, m)) = m
    BY <2>2
  <2>4. QED
    BY <2>1, <2>3
<1>5. SubSeq(s, n - h + 1, n) \in Seq(U) /\ Len(SubSeq(s, n - h + 1, n)) = h
  BY <1>1, <1>2, <1>3
<1>6. QED
  BY <1>1, <1>2, <1>3, <1>4, <1>5 DEF FirstHalf, SecondHalf

(* How many characters of the text stay when so many are replaced. *)
KeptOf(side, s, bite) ==
  IF side = "right" THEN Kept(side, s, 1, Len(s) - bite)
  ELSE Kept(side, FirstHalf(s), 1, Len(FirstHalf(s)) - (bite - (bite \div 2)))
       + Kept(side, SecondHalf(s), (bite \div 2) + 1, Len(SecondHalf(s)))

(* What is eaten of each half: there is as much. *)
LEMMA PartsOfBite ==
  ASSUME NEW U, NEW s \in Seq(U), NEW bite \in 1..Len(s)
  PROVE  /\ bite \div 2 \in Nat /\ bite - (bite \div 2) \in Nat
         /\ bite - (bite \div 2) <= Len(FirstHalf(s))
         /\ bite \div 2 <= Len(SecondHalf(s))
         /\ Len(FirstHalf(s)) - (bite - (bite \div 2)) \in Nat
<1>1. PICK n, h, x : n = Len(s) /\ h = n \div 2 /\ x = bite \div 2
  OBVIOUS
<1>2. /\ n \in Nat /\ h \in Nat /\ 2 * h <= n /\ n <= 2 * h + 1
      /\ Len(FirstHalf(s)) = n - h /\ Len(SecondHalf(s)) = h
  BY <1>1, HalvesFacts
<1>3. bite \in Nat /\ bite <= n
  BY <1>1, <1>2
<1>4. x \in Nat /\ 2 * x <= bite /\ bite <= 2 * x + 1
  BY <1>1, <1>3, HalfFacts
<1>5. x <= h /\ bite - x \in Nat /\ bite - x <= n - h
  BY <1>2, <1>3, <1>4
<1>6. QED
  BY <1>1, <1>2, <1>3, <1>4, <1>5

LEMMA BiteFacts ==
  ASSUME NEW side \in Sides, NEW s \in Seq(Chars), NEW bite \in 1..Len(s),
         NEW t, t = Cut(side)!EatStr(s, bite)
  PROVE  /\ t \in Seq(Chars) /\ Len(t) = KeptOf(side, s, bite) + 1
         /\ KeptOf(side, s, bite) \in Nat /\ KeptOf(side, s, bite) <= Len(s) - bite
<1>1. <<"dots">> \in Seq(Chars) /\ Len(<<"dots">>) = 1
  BY DEF Chars
<1>2. bite # 0 /\ Len(s) \in Nat /\ Len(s) - bite \in Nat
  OBVIOUS
<1>3. CASE side = "right"
  <2>1. PICK v : v = Cut(side)!Trim(SubSeq(s, 1, Len(s) - bite))
    OBVIOUS
  <2>2. /\ v \in Seq(Chars) /\ Kept(side, s, 1, Len(s) - bite) \in Nat
        /\ Kept(side, s, 1, Len(s) - bite) <= Len(s) - bite - 1 + 1
    BY <1>2, <2>1, KeptIsLength
  <2>3. t = v \o <<"dots">>
    BY <1>2, <1>3, <2>1 DEF Cut!EatStr, Cut!EatRight
  <2>4. t \in Seq(Chars) /\ Len(t) = Len(v) + 1
    BY <1>1, <2>2, <2>3, ConcatProperties
  <2>5. KeptOf(side, s, bite) = Len(v)
    BY <1>3, <2>1 DEF KeptOf, Kept
  <2>6. Kept(side, s, 1, Len(s) - bite) = Len(v)
    BY <2>1 DEF Kept
  <2>7. QED
    BY <1>2, <2>2, <2>4, <2>5, <2>6
<1>4. CASE side = "center"
  <2>1. PICK x, a, b : x = bite \div 2 /\ a = FirstHalf(s) /\ b = SecondHalf(s)
    OBVIOUS
  <2>2. /\ a \in Seq(Chars) /\ b \in Seq(Chars) /\ x \in Nat /\ bite - x \in Nat
        /\ bite - x <= Len(a) /\ x <= Len(b) /\ Len(a) - (bite - x) \in Nat
        /\ Len(a) + Len(b) = Len(s) /\ Len(a) \in Nat /\ Len(b) \in Nat
    <3>1. /\ a \in Seq(Chars) /\ Len(a) = Len(s) - (Len(s) \div 2)
          /\ b \in Seq(Chars) /\ Len(b) = Len(s) \div 2 /\ Len(s) \div 2 \in Nat
      BY <2>1, HalvesFacts
    <3>2. /\ x \in Nat /\ bite - x \in Nat /\ bite - x <= Len(a) /\ x <= Len(b)
          /\ Len(a) - (bite - x) \in Nat
      BY <2>1, PartsOfBite
    <3>3. Len(a) \in Nat /\ Len(b) \in Nat
      BY <3>1
    <3>4. Len(a) + Len(b) = Len(s)
      BY <1>2, <3>1
    <3>5. QED
      BY <3>1, <3>2, <3>3, <3>4
  <2>3. PICK v, w : /\ v = Cut(side)!Trim(Cut(side)!EatRight(a, bite - x, <<>>))
                    /\ w = Cut(side)!Trim(Cut(side)!EatLeft(b, x, <<>>))
    OBVIOUS
  <2>4. /\ v \in Seq(Chars) /\ Len(v) = Kept(side, a, 1, Len(a) - (bite - x))
        /\ w \in Seq(Chars) /\ Len(w) = Kept(side, b, x + 1, Len(b))
    BY <2>2, <2>3, HalfEaten
  <2>5. t = v \o <<"dots">> \o w
    BY <1>2, <1>4, <2>1, <2>3 DEF Cut!EatStr, FirstHalf, SecondHalf
  <2>6. v \o <<"dots">> \in Seq(Chars) /\ Len(v \o <<"dots">>) = Len(v) + 1
    BY <1>1, <2>4, ConcatProperties
  <2>7. t \in Seq(Chars) /\ Len(t) = Len(v) + 1 + Len(w)
    <3>1. PICK u : u = v \o <<"dots">>
      OBVIOUS
    <3>2. u \in Seq(Chars) /\ Len(u) = Len(v) + 1 /\ t = u \o w
      BY <2>5, <2>6, <3>1
    <3>3. t \in Seq(Chars) /\ Len(t) = Len(u) + Len(w)
      BY <2>4, <3>2, ConcatProperties
    <3>4. QED
      BY <3>2, <3>3
  <2>8. KeptOf(side, s, bite) = Len(v) + Len(w)
    BY <1>4, <2>1, <2>4 DEF KeptOf
  <2>9. /\ Kept(side, a, 1, Len(a) - (bite - x)) \in Nat
        /\ Kept(side, a, 1, Len(a) - (bite - x)) <= Len(a) - (bite - x) - 1 + 1
    BY <2>2, KeptIsLength
  <2>10. /\ Kept(side, b, x + 1, Len(b)) \in Nat
         /\ Kept(side, b, x + 1, Len(b)) <= Len(b) - (x + 1) + 1
    <3>1. x + 1 \in Nat /\ 1 <= x + 1 /\ x + 1 <= Len(b) + 1 /\ Len(b) <= Len(b)
      BY <2>2
    <3>2. QED
      BY <2>2, <3>1, KeptIsLength
  <2>11. Len(v) + Len(w) <= Len(s) - bite /\ Len(v) \in Nat /\ Len(w) \in Nat
    BY <1>2, <2>2, <2>4, <2>9, <2>10
  <2>12. QED
    BY <2>7, <2>8, <2>11
<1>5. QED
  BY <1>3, <1>4 DEF Sides

(* A bite that replaces more is not longer. *)
LEMMA BiteShrinks ==
  ASSUME NEW side \in Sides, NEW s \in Seq(Chars), NEW b \in 1..Len(s), NEW c \in 1..Len(s),
         b <= c
  PROVE  KeptOf(side, s, c) <= KeptOf(side, s, b)
<1>1. Len(s) \in Nat /\ Len(s) - c \in Nat /\ Len(s) - b \in Nat /\ Len(s) - c <= Len(s) - b
  OBVIOUS
<1>2. CASE side = "right"
  <2>1. Kept(side, s, 1, Len(s) - c) <= Kept(side, s, 1, Len(s) - b)
    BY <1>1, KeptGrows
  <2>2. QED
    BY <1>2, <2>1 DEF KeptOf
<1>3. CASE side # "right"
  <2>1. PICK u, w, x, y : u = FirstHalf(s) /\ w = SecondHalf(s) /\ x = b \div 2 /\ y = c \div 2
    OBVIOUS
  <2>2. /\ u \in Seq(Chars) /\ w \in Seq(Chars) /\ Len(u) \in Nat /\ Len(w) \in Nat
        /\ x \in Nat /\ y \in Nat /\ Len(u) - (b - x) \in Nat /\ Len(u) - (c - y) \in Nat
        /\ x <= Len(w) /\ y <= Len(w) /\ b - x \in Nat /\ c - y \in Nat
    BY <2>1, HalvesFacts, PartsOfBite
  <2>3. x <= y /\ b - x <= c - y
    <3>1. b \in Nat /\ c \in Nat
      OBVIOUS
    <3>2. 2 * x <= b /\ b <= 2 * x + 1 /\ 2 * y <= c /\ c <= 2 * y + 1
      BY <2>1, <3>1, HalfFacts
    <3>3. QED
      BY <2>2, <3>1, <3>2
  <2>4. Kept(side, u, 1, Len(u) - (c - y)) <= Kept(side, u, 1, Len(u) - (b - x))
    BY <2>2, <2>3, KeptGrows
  <2>5. Kept(side, w, y + 1, Len(w)) <= Kept(side, w, x + 1, Len(w))
    BY <2>2, <2>3, KeptGrows
  <2>6. /\ Kept(side, u, 1, Len(u) - (c - y)) \in Nat
        /\ Kept(side, u, 1, Len(u) - (b - x)) \in Nat
        /\ Kept(side, w, y + 1, Len(w)) \in Nat /\ Kept(side, w, x + 1, Len(w)) \in Nat
    <3>1. /\ x + 1 \in Nat /\ 1 <= x + 1 /\ x + 1 <= Len(w) + 1 /\ Len(w) <= Len(w)
          /\ y + 1 \in Nat /\ 1 <= y + 1 /\ y + 1 <= Len(w) + 1
      BY <2>2
    <3>2. Kept(side, w, y + 1, Len(w)) \in Nat /\ Kept(side, w, x + 1, Len(w)) \in Nat
      BY <2>2, <3>1, KeptIsLength
    <3>3. PICK i, j : i = Len(u) - (c - y) /\ j = Len(u) - (b - x)
      OBVIOUS
    <3>4. Kept(side, u, 1, i) \in Nat /\ Kept(side, u, 1, j) \in Nat
      <4>1. /\ i \in Nat /\ j \in Nat /\ i <= Len(u) /\ j <= Len(u)
            /\ 1 <= i + 1 /\ 1 <= j + 1 /\ 1 <= 1 /\ 1 \in Nat
        BY <2>2, <3>3
      <4>2. Kept(side, u, 1, i) \in Nat
        BY <2>2, <4>1, KeptIsLength
      <4>3. Kept(side, u, 1, j) \in Nat
        BY <2>2, <4>1, KeptIsLength
      <4>4. QED
        BY <4>2, <4>3
    <3>5. QED
      BY <3>2, <3>3, <3>4
  <2>7. QED
    BY <1>3, <2>1, <2>4, <2>5, <2>6 DEF KeptOf
<1>4. QED
  BY <1>2, <1>3

(* The bites of the text that is shown, by what stays of it. *)
LEMMA BitesOrdered ==
  ASSUME NEW side \in Sides, uncut \in CutTexts, NEW n \in 0..(Len(uncut) - 1)
  PROVE  /\ Bite(side, n) \in Seq(Chars) /\ Len(Bite(side, n)) \in Nat
         /\ Len(Bite(side, n)) <= Len(uncut) + 1
         /\ \A m \in 0..(Len(uncut) - 1) :
              m <= n => Len(Bite(side, m)) <= Len(Bite(side, n))
<1>1. uncut \in Seq(Chars) /\ Len(uncut) \in Nat
  BY CutTextFacts
<1>2. ASSUME NEW m \in 0..(Len(uncut) - 1)
      PROVE  /\ Len(uncut) - m \in 1..Len(uncut) /\ Bite(side, m) \in Seq(Chars)
             /\ Len(Bite(side, m)) = KeptOf(side, uncut, Len(uncut) - m) + 1
             /\ KeptOf(side, uncut, Len(uncut) - m) \in Nat
             /\ KeptOf(side, uncut, Len(uncut) - m) <= m
  <2>1. PICK b : b = Len(uncut) - m
    OBVIOUS
  <2>2. b \in 1..Len(uncut) /\ Len(uncut) - b = m
    BY <1>1, <2>1
  <2>3. Bite(side, m) = Cut(side)!EatStr(uncut, b)
    BY <2>1 DEF Bite
  <2>4. /\ Bite(side, m) \in Seq(Chars)
        /\ Len(Bite(side, m)) = KeptOf(side, uncut, b) + 1
        /\ KeptOf(side, uncut, b) \in Nat /\ KeptOf(side, uncut, b) <= Len(uncut) - b
    BY <1>1, <2>2, <2>3, BiteFacts
  <2>5. QED
    BY <2>1, <2>2, <2>4
<1>3. ASSUME NEW m \in 0..(Len(uncut) - 1), m <= n
      PROVE  Len(Bite(side, m)) <= Len(Bite(side, n))
  <2>1. PICK b, c : b = Len(uncut) - n /\ c = Len(uncut) - m
    OBVIOUS
  <2>2. b \in 1..Len(uncut) /\ c \in 1..Len(uncut) /\ b <= c
    BY <1>1, <1>3, <2>1
  <2>3. KeptOf(side, uncut, c) <= KeptOf(side, uncut, b)
    BY <1>1, <2>2, BiteShrinks
  <2>4. /\ Len(Bite(side, m)) = KeptOf(side, uncut, c) + 1 /\ KeptOf(side, uncut, c) \in Nat
        /\ Len(Bite(side, n)) = KeptOf(side, uncut, b) + 1 /\ KeptOf(side, uncut, b) \in Nat
    BY <1>2, <2>1
  <2>5. QED
    BY <2>3, <2>4
<1>4. Len(Bite(side, n)) \in Nat /\ Len(Bite(side, n)) <= Len(uncut) + 1
  <2>1. PICK k : k = KeptOf(side, uncut, Len(uncut) - n)
    OBVIOUS
  <2>2. Len(Bite(side, n)) = k + 1 /\ k \in Nat /\ k <= n
    BY <1>2, <2>1
  <2>3. QED
    BY <1>1, <2>2
<1>5. QED
  BY <1>2, <1>3, <1>4

LEMMA CutInitInv ==
  ASSUME NEW side \in Sides, Cut(side)!Init
  PROVE  CutIInv(side)
<1>1. /\ uncut \in CutTexts /\ html = uncut /\ room \in 0..MaxLength /\ phase = "new"
      /\ current = FALSE
  BY DEF Cut!Init
<1>2. html \in Seq(Chars) /\ Len(html) <= Len(uncut) + 1
  BY <1>1, CutTextFacts
<1>3. QED
  BY <1>1, <1>2 DEF CutIInv, Cut!BestBite

(* A text that does not fit is searched; a bite of it is to be found from the start. *)
LEMMA TruncateInv ==
  ASSUME NEW side \in Sides, NEW u \in CutTexts, Cut(side)!Truncate(u), uncut' = u,
         room \in 0..MaxLength, room' = room
  PROVE  CutIInv(side)'
<1>1. u \in Seq(Chars) /\ Len(u) \in Nat /\ Len(u) > 1
  BY CutTextFacts
<1>2. html' = u /\ current' = TRUE
  BY DEF Cut!Truncate
<1>3. Len(u) <= Len(u) + 1 /\ html' \in Seq(Chars)
  BY <1>1, <1>2
<1>4. CASE Cut(side)!Fits(u)
  <2>1. phase' = "idle"
    BY <1>4 DEF Cut!Truncate
  <2>2. (Cut(side)!BestBite)'
    BY <1>2 DEF Cut!BestBite
  <2>3. QED
    BY <1>2, <1>3, <2>1, <2>2 DEF CutIInv
<1>5. CASE ~Cut(side)!Fits(u)
  <2>1. phase' = "searching" /\ lower' = 0 /\ upper' = Len(u) - 1 /\ maxBite' = <<>>
    BY <1>5 DEF Cut!Truncate
  <2>2. room \in Nat
    BY Assumptions
  <2>3. maxBite' \in Seq(Chars) /\ Len(maxBite') = 0
    BY <2>1
  <2>4. SearchInv(side)'
    <3>1. /\ lower' \in 0..Len(uncut') /\ upper' \in -1..(Len(uncut') - 1)
          /\ lower' <= upper' + 1
      BY <1>1, <2>1
    <3>2. Len(maxBite') <= Len(uncut') + 1 /\ Len(maxBite') <= room'
      BY <1>1, <2>2, <2>3
    <3>3. \A n \in 0..(Len(uncut') - 1) : ~(n < lower') /\ ~(n > upper')
      BY <1>1, <2>1
    <3>4. QED
      BY <2>3, <3>1, <3>2, <3>3 DEF SearchInv
  <2>5. (Cut(side)!BestBite)'
    BY <2>1 DEF Cut!BestBite
  <2>6. QED
    BY <1>2, <1>3, <2>1, <2>4, <2>5 DEF CutIInv
<1>6. QED
  BY <1>4, <1>5

LEMMA HalveInv ==
  ASSUME NEW side \in Sides, CutIInv(side), Cut(side)!Halve
  PROVE  CutIInv(side)'
<1>1. phase = "searching" /\ lower <= upper /\ SearchInv(side) /\ uncut \in CutTexts
  BY DEF Cut!Halve, CutIInv
<1>2. PICK n : n = lower + ((upper - lower) \div 2)
  OBVIOUS
<1>3. /\ Len(uncut) \in Nat /\ lower \in Nat /\ upper \in Nat /\ upper - lower \in Nat
      /\ upper <= Len(uncut) - 1
  <2>1. Len(uncut) \in Nat
    BY <1>1, CutTextFacts
  <2>2. QED
    BY <1>1, <2>1 DEF SearchInv
<1>4. n \in Nat /\ lower <= n /\ n <= upper /\ n \in 0..(Len(uncut) - 1)
  <2>1. PICK d, h : d = upper - lower /\ h = d \div 2
    OBVIOUS
  <2>2. h \in Nat /\ 2 * h <= d /\ d \in Nat
    BY <1>3, <2>1, HalfFacts
  <2>3. n = lower + h
    BY <1>2, <2>1
  <2>4. QED
    BY <1>3, <2>1, <2>2, <2>3
<1>5. PICK t : t = Bite(side, n)
  OBVIOUS
<1>6. /\ t \in Seq(Chars) /\ Len(t) \in Nat /\ Len(t) <= Len(uncut) + 1
      /\ \A m \in 0..(Len(uncut) - 1) : m <= n => Len(Bite(side, m)) <= Len(t)
  BY <1>1, <1>4, <1>5, BitesOrdered
<1>7. /\ html' = t /\ UNCHANGED <<uncut, room, phase, current>>
  BY <1>2, <1>5 DEF Cut!Halve, Bite
<1>8. maxBite \in Seq(Chars) /\ Len(maxBite) \in Nat /\ room \in Nat
  BY <1>1, Assumptions DEF SearchInv, CutIInv
<1>9. \A m : Bite(side, m)' = Bite(side, m)
  BY <1>7 DEF Bite, Cut!EatStr, Cut!EatRight, Cut!EatLeft, Cut!Trim, Cut!Blank
<1>10. CASE Len(t) > room
  <2>1. upper' = n - 1 /\ UNCHANGED <<lower, maxBite>>
    BY <1>2, <1>5, <1>8, <1>6, <1>10 DEF Cut!Halve, Bite, Cut!Fits
  <2>2. ASSUME NEW m \in 0..(Len(uncut) - 1), m > n - 1
        PROVE  Len(Bite(side, m)) > room
    <3>1. n <= m
      BY <1>4, <2>2
    <3>2. Len(t) <= Len(Bite(side, m)) /\ Len(Bite(side, m)) \in Nat
      BY <1>1, <1>4, <1>5, <3>1, BitesOrdered
    <3>3. QED
      BY <1>6, <1>8, <1>10, <3>2
  <2>3. SearchInv(side)'
    <3>1. /\ lower' \in 0..Len(uncut') /\ upper' \in -1..(Len(uncut') - 1)
          /\ lower' <= upper' + 1
      BY <1>1, <1>3, <1>4, <1>7, <2>1 DEF SearchInv
    <3>2. QED
      BY <1>1, <1>7, <1>9, <2>1, <2>2, <3>1 DEF SearchInv
  <2>4. QED
    BY <1>1, <1>6, <1>7, <2>3 DEF CutIInv, Cut!BestBite
<1>11. CASE Len(t) <= room
  <2>1. /\ lower' = n + 1 /\ upper' = upper
        /\ maxBite' = IF Len(maxBite) > Len(t) THEN maxBite ELSE t
    BY <1>2, <1>5, <1>11 DEF Cut!Halve, Bite, Cut!Fits
  <2>2. /\ maxBite' \in Seq(Chars) /\ Len(maxBite') \in Nat /\ Len(maxBite') <= room
        /\ Len(maxBite') <= Len(uncut) + 1 /\ Len(t) <= Len(maxBite')
    BY <1>1, <1>6, <1>8, <1>11, <2>1 DEF SearchInv
  <2>3. ASSUME NEW m \in 0..(Len(uncut) - 1), m < n + 1
        PROVE  Len(Bite(side, m)) <= Len(maxBite')
    <3>1. Len(Bite(side, m)) <= Len(t)
      BY <1>4, <1>6, <2>3
    <3>2. Len(Bite(side, m)) \in Nat
      BY <1>1, BitesOrdered
    <3>3. QED
      BY <1>6, <2>2, <3>1, <3>2
  <2>4. SearchInv(side)'
    <3>1. /\ lower' \in 0..Len(uncut') /\ upper' \in -1..(Len(uncut') - 1)
          /\ lower' <= upper' + 1
      BY <1>1, <1>3, <1>4, <1>7, <2>1 DEF SearchInv
    <3>2. QED
      BY <1>1, <1>7, <1>9, <2>1, <2>2, <2>3, <3>1 DEF SearchInv
  <2>5. QED
    BY <1>1, <1>6, <1>7, <2>4 DEF CutIInv, Cut!BestBite
<1>12. QED
  BY <1>6, <1>8, <1>10, <1>11

LEMMA FoundInv ==
  ASSUME NEW side \in Sides, CutIInv(side), Cut(side)!Found
  PROVE  CutIInv(side)'
<1>1. /\ phase = "searching" /\ lower > upper /\ SearchInv(side) /\ uncut \in CutTexts
      /\ html' = maxBite /\ phase' = "idle" /\ UNCHANGED <<uncut, room, current>>
  BY DEF Cut!Found, CutIInv
<1>2. Len(uncut) \in Nat /\ lower \in Int /\ upper \in Int /\ room \in Nat
  <2>1. Len(uncut) \in Nat
    BY <1>1, CutTextFacts
  <2>2. room \in Nat
    BY Assumptions DEF CutIInv
  <2>3. QED
    BY <1>1, <2>1, <2>2 DEF SearchInv
<1>3. ASSUME NEW n \in 0..(Len(uncut) - 1), Len(Bite(side, n)) <= room
      PROVE  Len(Bite(side, n)) <= Len(maxBite)
  <2>1. Len(Bite(side, n)) \in Nat
    BY <1>1, BitesOrdered
  <2>2. ~(n > upper)
    BY <1>1, <1>2, <1>3, <2>1 DEF SearchInv
  <2>3. n < lower
    BY <1>1, <1>2, <2>2
  <2>4. QED
    BY <1>1, <2>3 DEF SearchInv
<1>4. \A m : Bite(side, m)' = Bite(side, m)
  BY <1>1 DEF Bite, Cut!EatStr, Cut!EatRight, Cut!EatLeft, Cut!Trim, Cut!Blank
<1>5. (Cut(side)!BestBite)'
  <2>1. (Cut(side)!Fits(html))'
    BY <1>1 DEF Cut!Fits, SearchInv
  <2>2. ASSUME NEW n \in 0..(Len(uncut') - 1), Len(Bite(side, n)') <= room'
        PROVE  Len(Bite(side, n)') <= Len(html')
    BY <1>1, <1>3, <1>4, <2>2
  <2>3. QED
    BY <2>1, <2>2 DEF Cut!BestBite, Cut!Bites, Cut!Fits, Bite
<1>6. html' \in Seq(Chars) /\ Len(html') <= Len(uncut') + 1
  BY <1>1 DEF SearchInv
<1>7. QED
  BY <1>1, <1>5, <1>6 DEF CutIInv

(* Nothing is left out of what is shown. *)
LEMMA WholeInv ==
  ASSUME NEW side \in Sides, uncut' \in CutTexts, html' = uncut', room' \in 0..MaxLength,
         current' \in BOOLEAN, phase' \in {"new", "idle"}
  PROVE  CutIInv(side)'
<1>1. html' \in Seq(Chars) /\ Len(html') <= Len(uncut') + 1
  <2>1. PICK u \in CutTexts : u = uncut'
    OBVIOUS
  <2>2. u \in Seq(Chars) /\ Len(u) \in Nat
    BY CutTextFacts
  <2>3. QED
    BY <2>1, <2>2
<1>2. QED
  BY <1>1 DEF CutIInv, Cut!BestBite

LEMMA CutNextInv ==
  ASSUME NEW side \in Sides, CutIInv(side), Cut(side)!Next
  PROVE  CutIInv(side)'
<1>1. /\ uncut \in CutTexts /\ room \in 0..MaxLength
      /\ phase \in {"new", "idle", "searching"} /\ current \in BOOLEAN
  BY DEF CutIInv
<1>2. CASE Cut(side)!Trunk8
  BY <1>1, <1>2, TruncateInv DEF Cut!Trunk8
<1>3. CASE Cut(side)!Update
  <2>1. phase = "idle" /\ uncut' = uncut /\ room' = room
    BY <1>3 DEF Cut!Update
  <2>2. CASE uncut # html
    BY <1>1, <1>3, <2>1, <2>2, TruncateInv DEF Cut!Update
  <2>3. CASE uncut = html
    <3>1. current' = TRUE /\ html' = html /\ phase' = phase
      BY <1>3, <2>3 DEF Cut!Update
    <3>2. QED
      BY <1>1, <2>1, <2>3, <3>1, WholeInv
  <2>4. QED
    BY <2>2, <2>3
<1>4. ASSUME NEW u \in CutTexts, Cut(side)!UpdateText(u)
      PROVE  CutIInv(side)'
  <2>1. phase = "idle" /\ uncut' = u /\ room' = room
    BY <1>4 DEF Cut!UpdateText
  <2>2. CASE u # html
    BY <1>1, <1>4, <2>1, <2>2, TruncateInv DEF Cut!UpdateText
  <2>3. CASE u = html
    <3>1. current' = TRUE /\ html' = html /\ phase' = phase
      BY <1>4, <2>3 DEF Cut!UpdateText
    <3>2. QED
      BY <1>1, <2>1, <2>3, <3>1, WholeInv
  <2>4. QED
    BY <2>2, <2>3
<1>5. CASE Cut(side)!Revert
  <2>1. /\ phase = "idle" /\ html' = uncut /\ current' = FALSE
        /\ uncut' = uncut /\ room' = room /\ phase' = phase
    BY <1>5 DEF Cut!Revert
  <2>2. QED
    BY <1>1, <2>1, WholeInv
<1>6. ASSUME NEW r \in 0..MaxLength, Cut(side)!Resize(r)
      PROVE  CutIInv(side)'
  <2>1. /\ phase # "searching" /\ room' = r /\ current' = FALSE
        /\ uncut' = uncut /\ html' = html /\ phase' = phase
    BY <1>6 DEF Cut!Resize
  <2>2. QED
    BY <1>1, <2>1 DEF CutIInv, Cut!BestBite
<1>7. QED
  BY <1>2, <1>3, <1>4, <1>5, <1>6, HalveInv, FoundInv DEF Cut!Next

LEMMA CutStutter ==
  ASSUME NEW side \in Sides, CutIInv(side), UNCHANGED Cut(side)!vars
  PROVE  CutIInv(side)'
<1>1. UNCHANGED <<uncut, html, room, phase, lower, upper, maxBite, current>>
  BY DEF Cut!vars
<1>2. \A m : Bite(side, m)' = Bite(side, m)
  BY <1>1 DEF Bite, Cut!EatStr, Cut!EatRight, Cut!EatLeft, Cut!Trim, Cut!Blank
<1>3. SearchInv(side) => SearchInv(side)'
  BY <1>1, <1>2 DEF SearchInv
<1>4. (Cut(side)!BestBite)'
  BY <1>1, <1>2 DEF CutIInv, Cut!BestBite, Cut!Bites, Cut!Fits, Bite
<1>5. QED
  BY <1>1, <1>3, <1>4 DEF CutIInv

(* A part without blanks stays as it is. *)
LEMMA KeptWhole ==
  ASSUME NEW side \in Sides, NEW U, NEW s \in Seq(U), NEW i \in Nat, NEW j \in Nat,
         1 <= i, i <= j + 1, j <= Len(s), \A k \in 1..Len(s) : s[k] # "blank"
  PROVE  Kept(side, s, i, j) = j - i + 1
<1>1. PICK a : a = SubSeq(s, i, j)
  OBVIOUS
<1>2. a \in Seq(U) /\ Len(a) = j - i + 1 /\ \A x \in 1..Len(a) : a[x] = s[x + (i - 1)]
  BY <1>1
<1>3. PICK t : t = Cut(side)!Trim(a)
  OBVIOUS
<1>4. Len(t) \in Nat /\ Len(t) <= Len(a) /\ AllLetters(a, t)
  BY <1>2, <1>3, TrimFacts
<1>5. ASSUME Len(a) # 0
      PROVE  Len(a) <= Len(t)
  <2>1. /\ 1 \in 1..Len(a) /\ Len(a) \in 1..Len(a)
        /\ 1 + (i - 1) \in 1..Len(s) /\ Len(a) + (i - 1) \in 1..Len(s)
    BY <1>2, <1>5
  <2>2. a[1] # "blank" /\ a[Len(a)] # "blank"
    BY <1>2, <2>1
  <2>3. Len(a) - 1 + 1 <= Len(t)
    BY <1>4, <2>1, <2>2 DEF AllLetters
  <2>4. QED
    BY <1>2, <2>3
<1>6. Len(t) = Len(a)
  <2>1. Len(a) \in Nat
    BY <1>2
  <2>2. QED
    BY <1>4, <1>5, <2>1
<1>7. QED
  BY <1>1, <1>2, <1>3, <1>6 DEF Kept

LEMMA CutIInvSound ==
  ASSUME NEW side \in Sides, CutIInv(side)
  PROVE  Cut(side)!CutIsRight
<1>1. uncut \in Seq(Chars) /\ Len(uncut) \in Nat /\ Len(uncut) > 1
  BY CutTextFacts DEF CutIInv
<1>2. Cut(side)!TypeOK
  <2>1. Len(<<"dots">>) = 1
    OBVIOUS
  <2>2. QED
    BY <2>1 DEF CutIInv, SearchInv, Cut!TypeOK
<1>3. ASSUME side = "center"
      PROVE  Cut(side)!ReplacesBite
  <2>1. SUFFICES ASSUME \A k \in 1..Len(uncut) : uncut[k] # "blank",
                        NEW bite \in 1..Len(uncut)
                 PROVE  Len(Cut(side)!EatStr(uncut, bite)) = Len(uncut) - bite + 1
    <3>1. Len(<<"dots">>) = 1 /\ DOMAIN uncut = 1..Len(uncut)
      BY <1>1
    <3>2. QED
      BY <3>1 DEF Cut!ReplacesBite, Cut!Blank
  <2>2. PICK a, b, x : a = FirstHalf(uncut) /\ b = SecondHalf(uncut) /\ x = bite \div 2
    OBVIOUS
  <2>3. /\ a \in Seq(Chars) /\ Len(a) = Len(uncut) - (Len(uncut) \div 2)
        /\ b \in Seq(Chars) /\ Len(b) = Len(uncut) \div 2 /\ Len(uncut) \div 2 \in Nat
        /\ 2 * (Len(uncut) \div 2) <= Len(uncut)
    BY <1>1, <2>2, HalvesFacts
  <2>4. /\ x \in Nat /\ bite - x \in Nat /\ x <= Len(b) /\ Len(a) - (bite - x) \in Nat
        /\ Len(a) \in Nat /\ Len(b) \in Nat
    BY <1>1, <2>2, <2>3, PartsOfBite
  <2>5. \A k \in 1..Len(a) : a[k] # "blank"
    <3>1. PICK m : m = Len(uncut) - (Len(uncut) \div 2)
      OBVIOUS
    <3>2. a = SubSeq(uncut, 1, m)
      BY <2>2, <3>1 DEF FirstHalf
    <3>3. Len(a) = m /\ m \in Nat /\ m <= Len(uncut)
      BY <1>1, <2>3, <2>4, <3>1
    <3>4. \A k \in 1..m : a[k] = uncut[k] /\ k \in 1..Len(uncut)
      BY <1>1, <3>2, <3>3
    <3>5. QED
      BY <2>1, <3>3, <3>4
  <2>6. \A k \in 1..Len(b) : b[k] # "blank"
    <3>1. PICK m : m = Len(uncut) - (Len(uncut) \div 2)
      OBVIOUS
    <3>2. /\ b = SubSeq(uncut, m + 1, Len(uncut)) /\ Len(b) = Len(uncut) - m
          /\ m \in Nat /\ m <= Len(uncut)
      BY <1>1, <2>2, <2>3, <3>1 DEF SecondHalf
    <3>3. \A k \in 1..Len(b) : b[k] = uncut[k + m] /\ k + m \in 1..Len(uncut)
      BY <1>1, <3>2
    <3>4. QED
      BY <2>1, <3>3
  <2>7. Kept(side, a, 1, Len(a) - (bite - x)) = Len(a) - (bite - x) - 1 + 1
    <3>1. PICK m : m = Len(a) - (bite - x)
      OBVIOUS
    <3>2. m \in Nat /\ 1 \in Nat /\ 1 <= 1 /\ 1 <= m + 1 /\ m <= Len(a)
      BY <2>4, <3>1
    <3>3. Kept(side, a, 1, m) = m - 1 + 1
      BY <2>3, <2>5, <3>2, KeptWhole
    <3>4. QED
      BY <3>1, <3>3
  <2>8. Kept(side, b, x + 1, Len(b)) = Len(b) - (x + 1) + 1
    <3>1. /\ x + 1 \in Nat /\ 1 <= x + 1 /\ x + 1 <= Len(b) + 1 /\ Len(b) <= Len(b)
      BY <2>4
    <3>2. QED
      BY <2>3, <2>4, <2>6, <3>1, KeptWhole
  <2>9. KeptOf(side, uncut, bite) = (Len(a) - (bite - x)) + (Len(b) - x)
    <3>1. KeptOf(side, uncut, bite)
            = Kept(side, a, 1, Len(a) - (bite - x)) + Kept(side, b, x + 1, Len(b))
      BY <1>3, <2>2 DEF KeptOf
    <3>2. QED
      BY <2>4, <2>7, <2>8, <3>1
  <2>10. KeptOf(side, uncut, bite) = Len(uncut) - bite
    BY <1>1, <2>3, <2>4, <2>9
  <2>11. Len(Cut(side)!EatStr(uncut, bite)) = KeptOf(side, uncut, bite) + 1
    BY <1>1, BiteFacts
  <2>12. QED
    BY <2>10, <2>11
<1>4. QED
  BY <1>2, <1>3 DEF CutIInv, Cut!CutIsRight

(* A cut text is the longest of its bites that fits, and in the middle as many letters    *)
(* are replaced as are said to be: of the behaviours that MCUserInterface checks, for    *)
(* texts over any letters, of any length.                                         *)
THEOREM CutCorrect == Spec => []CutIsRight
<1> DEFINE Inv == \A side \in Sides : part = side => CutIInv(side)
<1>1. Init => Inv
  BY CutInitInv DEF Init, Loop, Sides, Browser
<1>2. Inv /\ [Next]_everything => Inv'
  <2> SUFFICES ASSUME Inv, [Next]_everything, NEW side \in Sides, part' = side
               PROVE  CutIInv(side)'
    BY DEF Sides
  <2>1. CASE part = side /\ Cut(side)!Next
    BY <2>1, CutNextInv
  <2>2. CASE part = side /\ UNCHANGED Cut(side)!vars
    BY <2>2, CutStutter
  <2>3. QED
    BY <2>1, <2>2
       DEF Next, OfWindow, OfLog, OfTip, OfCut, OfPolling, OfStart, OfRequest, Loop, Sides,
           Browser, everything, ofCut, Cut!vars
<1>3. Inv => CutIsRight
  BY CutIInvSound DEF CutIsRight
<1>4. QED
  BY <1>1, <1>2, <1>3, PTL DEF Spec
================================================================================
