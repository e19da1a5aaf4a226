-------------------------------- MODULE Trunk8 --------------------------------
(***************************************************************************)
(* The trunk8 plugin: the text of a message is cut to what fits into its lines,   *)
(* by a binary search for the longest bite.  The log view truncates a message     *)
(* when it comes, reverts it when it is selected and updates it when the window   *)
(* has been resized.                                                        *)
(*                                                                         *)
(* A text is a sequence of letters and blanks; it fits if it is not longer than   *)
(* the room, which the height of an element of the page tells.                 *)
(***************************************************************************)
EXTENDS Integers, Sequences, FiniteSets, FiniteSetsExt

CONSTANTS Texts,       \* what the page shows
          Side,        \* "right", "left" or "center": where the fill goes
          Fill,        \* what stands for the text left out
          Rooms        \* of the element

Trunk8Assumption ==
  /\ \A t \in Texts : Len(t) > 1
  /\ Side \in {"right", "left", "center"}
  /\ Rooms \subseteq Nat /\ IsFiniteSet(Rooms)

Blank == "blank"  \* the character

VARIABLES
  original,  \* original_text
  html,      \* what the element shows
  room,      \* the length of a text that fits
  phase,     \* "new", "idle", "searching"
  lower, upper, maxBite, \* of the search
  current    \* history: the room has not changed since the last truncate or update,
             \* and the text has not been reverted

vars == <<original, html, room, phase, lower, upper, maxBite, current>>

TypeOK ==
  /\ original \in Texts /\ room \in Rooms
  /\ Len(html) <= Len(original) + Len(Fill)
  /\ phase \in {"new", "idle", "searching"}
  /\ phase = "searching" => lower \in 0..Len(original) /\ upper \in -1..(Len(original) - 1)
  /\ current \in BOOLEAN

Init ==
  /\ original \in Texts /\ html = original /\ room \in Rooms
  /\ phase = "new" /\ lower = 0 /\ upper = 0 /\ maxBite = <<>> /\ current = FALSE

Fits(s) == Len(s) <= room

(***************************************************************************)
(* eatStr                                                                  *)
(***************************************************************************)

(* jQuery.trim *)
Trim(s) ==
  LET letters == {i \in DOMAIN s : s[i] # Blank}
  IN  IF letters = {} THEN <<>> ELSE SubSeq(s, Min(letters), Max(letters))

EatRight(s, bite, fill) == IF bite = 0 THEN s ELSE Trim(SubSeq(s, 1, Len(s) - bite)) \o fill
EatLeft(s, bite, fill) == IF bite = 0 THEN s ELSE fill \o Trim(SubSeq(s, bite + 1, Len(s)))

(* What is left when so many letters of the side are replaced by the fill *)
EatStr(s, bite) ==
  LET half == Len(s) - (Len(s) \div 2)
  IN  CASE bite = 0 -> s
        [] bite # 0 /\ Side = "right" -> EatRight(s, bite, Fill)
        [] bite # 0 /\ Side = "left" -> EatLeft(s, bite, Fill)
        [] OTHER ->
             Trim(EatRight(SubSeq(s, 1, half), bite - (bite \div 2), <<>>)) \o Fill
             \o Trim(EatLeft(SubSeq(s, half + 1, Len(s)), bite \div 2, <<>>))

(***************************************************************************)
(* truncate                                                                *)
(***************************************************************************)

(* The whole text is tried first. *)
Truncate(text) ==
  /\ html' = text
  /\ current' = TRUE
  /\ IF Fits(text)
     THEN phase' = "idle" /\ UNCHANGED <<lower, upper, maxBite>>
     ELSE phase' = "searching" /\ lower' = 0 /\ upper' = Len(text) - 1 /\ maxBite' = <<>>

(* Variant: the middle one is left out when it is too long. *)
HalveSkipping ==
  LET size == lower + ((upper - lower) \div 2)
      bite == EatStr(original, Len(original) - size)
  IN  /\ phase = "searching" /\ lower <= upper
      /\ html' = bite
      /\ IF ~Fits(bite)
         THEN upper' = size - 2 /\ UNCHANGED <<lower, maxBite>>
         ELSE /\ lower' = size + 1 /\ UNCHANGED upper
              /\ maxBite' = IF Len(maxBite) > Len(bite) THEN maxBite ELSE bite
      /\ UNCHANGED <<original, room, phase, current>>

(* One step of the search. *)
Halve ==
  LET size == lower + ((upper - lower) \div 2)
      bite == EatStr(original, Len(original) - size)
  IN  /\ phase = "searching" /\ lower <= upper
      /\ html' = bite
      /\ IF ~Fits(bite)
         THEN upper' = size - 1 /\ UNCHANGED <<lower, maxBite>>
         ELSE /\ lower' = size + 1 /\ UNCHANGED upper
              /\ maxBite' = IF Len(maxBite) > Len(bite) THEN maxBite ELSE bite
      /\ UNCHANGED <<original, room, phase, current>>

Found ==
  /\ phase = "searching" /\ lower > upper
  /\ html' = maxBite /\ phase' = "idle"
  /\ UNCHANGED <<original, room, lower, upper, maxBite, current>>

(***************************************************************************)
(* The methods.                                                            *)
(***************************************************************************)

(* trunk8({...}), the first time and later *)
Trunk8 ==
  /\ phase # "searching"
  /\ Truncate(original)
  /\ UNCHANGED <<original, room>>

(* trunk8("update") *)
Update ==
  /\ phase = "idle"
  /\ IF original # html THEN Truncate(original)
     ELSE current' = TRUE /\ UNCHANGED <<html, phase, lower, upper, maxBite>>
  /\ UNCHANGED <<original, room>>

(* trunk8("update", text) *)
UpdateText(text) ==
  /\ phase = "idle"
  /\ original' = text
  /\ IF text # html THEN Truncate(text)
     ELSE current' = TRUE /\ UNCHANGED <<html, phase, lower, upper, maxBite>>
  /\ UNCHANGED room

Revert ==
  /\ phase = "idle"
  /\ html' = original /\ current' = FALSE
  /\ UNCHANGED <<original, room, phase, lower, upper, maxBite>>

(* The window *)
Resize(r) ==
  /\ phase # "searching"
  /\ r # room
  /\ room' = r /\ current' = FALSE
  /\ UNCHANGED <<original, html, phase, lower, upper, maxBite>>

Next ==
  \/ Halve \/ Found \/ Trunk8 \/ Update \/ Revert
  \/ \E text \in Texts : UpdateText(text)
  \/ \E r \in Rooms : Resize(r)

Spec == Init /\ [][Next]_vars

(***************************************************************************)
(* Correctness.                                                            *)
(***************************************************************************)

(* The bites there are, by the letters that stay *)
Bites == {EatStr(original, Len(original) - size) : size \in 0..(Len(original) - 1)}

(* "Find the maximum bite without overflowing": a text that has been truncated     *)
(* fits, and no longer bite of it would; nothing is shown only if not even the     *)
(* fill fits. *)
BestBite ==
  phase = "idle" /\ current /\ html # original =>
    /\ Fits(html)
    /\ \A b \in Bites : Fits(b) => Len(b) <= Len(html)

(* "Replaces [bite_size] [side]-most chars": nothing else is replaced, and as many  *)
(* letters as that, if blanks at the ends do not go with them. *)
ReplacesBite ==
  (Blank \notin {original[i] : i \in DOMAIN original}) =>
    \A bite \in 1..Len(original) :
      Len(EatStr(original, bite)) = Len(original) - bite + Len(Fill)

(* The text is cut as it should be. *)
CutIsRight == TypeOK /\ BestBite /\ (Side = "center" => ReplacesBite)

===============================================================================
