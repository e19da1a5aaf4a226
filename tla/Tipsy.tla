--------------------------------- MODULE Tipsy ---------------------------------
(***************************************************************************)
(* The tipsy plugin: the tooltip of an element of the log, shown and hidden some  *)
(* time after the mouse comes and goes.  The timers of earlier visits are not     *)
(* cancelled; what they find when they go off decides.                         *)
(*                                                                         *)
(* The title of the element is moved to another attribute, so that the browser   *)
(* does not show it as well.  The tip's gravity, the side it points to, is chosen *)
(* by where the element is in the window (autoBounds).                         *)
(***************************************************************************)
EXTENDS Integers, FiniteSets

CONSTANTS DelayIn, DelayOut, \* whether there are delays
          Fade,              \* whether the tip fades out
          Prefer,            \* the preferred gravity: "n", "sw", "w"
          MaxPending         \* bound: timers of either kind

TipsyAssumption ==
  /\ DelayIn \in BOOLEAN /\ DelayOut \in BOOLEAN /\ Fade \in BOOLEAN
  /\ Prefer \in {"n", "sw", "w"} /\ MaxPending \in Nat \ {0}

Titles == {"first", "second"}
Edges == {"top", "left", "right", "bottom"}

(* A gravity: its first letter, and its second or "". *)
Gravities == ({"n", "s"} \X {"e", "w", ""}) \cup {<<"e", "">>, <<"w", "">>}
Preferred == CASE Prefer = "n" -> <<"n", "">> [] Prefer = "sw" -> <<"s", "w">>
               [] Prefer = "w" -> <<"w", "">>

VARIABLES
  over,         \* whether the mouse is over the element
  hoverState,   \* "none", "in", "out"
  pendingIn, pendingOut, \* timers
  tip,          \* "off", "on", "fading": the tip in the document
  enabled,
  title, original, \* the attributes title and original-title, "" for none
  text,         \* of the tip
  gravity,      \* of the tip
  near,         \* the edges of the window the element is near to
  last          \* history: the last title of the page's

vars == <<over, hoverState, pendingIn, pendingOut, tip, enabled, title, original, text,
          gravity, near, last>>

TypeOK ==
  /\ over \in BOOLEAN /\ hoverState \in {"none", "in", "out"}
  /\ pendingIn \in 0..MaxPending /\ pendingOut \in 0..MaxPending
  /\ tip \in {"off", "on", "fading"} /\ enabled \in BOOLEAN
  /\ title \in Titles \cup {""} /\ original \in Titles \cup {""} /\ text \in Titles \cup {""}
  /\ gravity[1] \in {"n", "s", "e", "w"} /\ gravity[2] \in {"e", "w", ""}
  /\ near \subseteq Edges /\ last \in Titles

(* tipsy() has been called for the element. *)
Init ==
  /\ over = FALSE /\ hoverState = "none" /\ pendingIn = 0 /\ pendingOut = 0
  /\ tip = "off" /\ enabled = TRUE
  /\ title = "" /\ original = "first" /\ last = "first" /\ text = ""
  /\ gravity = Preferred /\ near = {}

(***************************************************************************)
(* show and hide.                                                          *)
(***************************************************************************)

(* The function that autoBounds yields *)
AutoBounds(edges) ==
  LET ns == IF "bottom" \in edges THEN "s" ELSE IF "top" \in edges THEN "n" ELSE Preferred[1]
      ew == IF "right" \in edges THEN "e" ELSE IF "left" \in edges THEN "w" ELSE Preferred[2]
  IN  <<ns, ew>>

FixTitle ==
  IF title # "" THEN original' = title /\ title' = "" ELSE UNCHANGED <<original, title>>

Show ==
  /\ FixTitle
  /\ IF enabled
     THEN /\ tip' = "on" /\ text' = original'
          /\ gravity' = AutoBounds(near)
     ELSE UNCHANGED <<tip, text, gravity>>

(* A tip that fades is removed when it has faded. *)
Hide == tip' = IF tip # "off" /\ Fade THEN "fading" ELSE "off"

(***************************************************************************)
(* The mouse and the timers.                                                *)
(***************************************************************************)

Enter ==
  /\ ~over
  /\ over' = TRUE /\ hoverState' = "in"
  /\ IF DelayIn
     THEN /\ pendingIn < MaxPending
          /\ pendingIn' = pendingIn + 1
          /\ FixTitle /\ UNCHANGED <<tip, text, gravity>>
     ELSE Show /\ UNCHANGED pendingIn
  /\ UNCHANGED <<pendingOut, enabled, near, last>>

Leave ==
  /\ over
  /\ over' = FALSE /\ hoverState' = "out"
  /\ IF DelayOut
     THEN /\ pendingOut < MaxPending
          /\ pendingOut' = pendingOut + 1
          /\ UNCHANGED tip
     ELSE Hide /\ UNCHANGED pendingOut
  /\ UNCHANGED <<pendingIn, enabled, title, original, text, gravity, near, last>>

ShowTimer ==
  /\ pendingIn > 0
  /\ pendingIn' = pendingIn - 1
  /\ IF hoverState = "in" THEN Show ELSE UNCHANGED <<tip, text, gravity, title, original>>
  /\ UNCHANGED <<over, hoverState, pendingOut, enabled, near, last>>

(* Variant: the timer hides the tip whatever has happened since. *)
HideTimerAlways ==
  /\ pendingOut > 0
  /\ pendingOut' = pendingOut - 1
  /\ Hide
  /\ UNCHANGED <<over, hoverState, pendingIn, enabled, title, original, text, gravity, near, last>>

HideTimer ==
  /\ pendingOut > 0
  /\ pendingOut' = pendingOut - 1
  /\ IF hoverState = "out" THEN Hide ELSE UNCHANGED tip
  /\ UNCHANGED <<over, hoverState, pendingIn, enabled, title, original, text, gravity, near, last>>

(* The end of fadeOut; show would have stopped it. *)
Faded ==
  /\ tip = "fading"
  /\ tip' = "off"
  /\ UNCHANGED <<over, hoverState, pendingIn, pendingOut, enabled, title, original, text,
                 gravity, near, last>>

(***************************************************************************)
(* The page.                                                               *)
(***************************************************************************)

SetTitle(t) ==
  /\ title' = t /\ last' = t
  /\ UNCHANGED <<over, hoverState, pendingIn, pendingOut, tip, enabled, original, text,
                 gravity, near>>

(* enable, disable and toggleEnabled *)
Enable(b) ==
  /\ enabled' = b
  /\ UNCHANGED <<over, hoverState, pendingIn, pendingOut, tip, title, original, text,
                 gravity, near, last>>

(* revalidate takes every tip away: when a tip is shown, remove() has deleted the *)
(* data that name its element. *)
Revalidate ==
  /\ tip' = "off"
  /\ UNCHANGED <<over, hoverState, pendingIn, pendingOut, enabled, title, original, text,
                 gravity, near, last>>

Scroll(edges) ==
  /\ near' = edges
  /\ UNCHANGED <<over, hoverState, pendingIn, pendingOut, tip, enabled, title, original, text,
                 gravity, last>>

Next ==
  \/ Enter \/ Leave \/ ShowTimer \/ HideTimer \/ Faded \/ Revalidate
  \/ \E t \in Titles : SetTitle(t)
  \/ \E b \in BOOLEAN : Enable(b)
  \/ \E edges \in SUBSET Edges : Scroll(edges)

Spec == Init /\ [][Next]_vars

(***************************************************************************)
(* Correctness.                                                            *)
(***************************************************************************)

(* The tip is there for the mouse, or it is about to go: no timer of an earlier   *)
(* visit brings it back after the mouse has left.                             *)
ShownForMouse == tip = "on" /\ ~over => pendingOut > 0

(* "suitable for use as an autogravity function": the tip has a gravity there is. *)
GravityIsKnown == gravity \in Gravities

(* The timer of an earlier leave does not take the tip of a later visit away. *)
Stays == (tip = "on" /\ tip' # "on" /\ over /\ over') => Revalidate

(* A tip that comes shows the title the page has last given, although titles      *)
(* have been moved away before, and no title is left for the browser to show.    *)
ShowsLast == tip # "on" /\ tip' = "on" => text' = last /\ title' = ""

(* "It will try to vary from this minimally": near one edge only, the tip points  *)
(* to this edge, and it keeps the component that the edge has no part in.        *)
VariesMinimally ==
  tip # "on" /\ tip' = "on" =>
    /\ near = {} => gravity' = Preferred
    /\ near = {"top"} => gravity' = <<"n", Preferred[2]>>
    /\ near = {"bottom"} => gravity' = <<"s", Preferred[2]>>
    /\ near = {"left"} => gravity' = <<Preferred[1], "w">>
    /\ near = {"right"} => gravity' = <<Preferred[1], "e">>

(* What a step may do to the tip. *)
StepIsRight == Stays /\ ShowsLast /\ VariesMinimally

(* And what holds of it at any time. *)
TipIsRight == TypeOK /\ ShownForMouse /\ (Prefer # "w" => GravityIsKnown)

===============================================================================
