------------------------------ MODULE TextboxList -----------------------------
(***************************************************************************)
(* jquery-textboxlist.js: the list of bits in which a set of files is edited.  *)
(* A bit is a box that holds a value or an editable input between boxes.      *)
(*                                                                         *)
(* Every function of the widget runs to its end on the JavaFX thread, so each  *)
(* is an operator from one state of the page to the next.  A state is a        *)
(* record:                                                                 *)
(*   list     the bits in their order in the document                        *)
(*   kind     "box" or "editable", of every bit                              *)
(*   text     the value of a box, what was typed into an editable             *)
(*   current  the current bit or NoBit; it need not be in the list any more    *)
(*   on       the bits whose own flag "focused" is set                        *)
(*   focused  the list's flag                                               *)
(*   timers   how many blur timers are set                                   *)
(*   original what update wrote into the form's field                        *)
(*   page     what the page keeps beside the widget (see FilesetInput)         *)
(*                                                                         *)
(* Whether a bit is shown or hidden is left out, and so are the options that   *)
(* the page does not use (max, unique, plugins).  The input of the current     *)
(* editable bit is the one that has the keyboard.                            *)
(***************************************************************************)
EXTENDS Naturals, Sequences, SequencesExt, FiniteSets

CONSTANTS MaxBits,              \* bound: bits that exist at a time
          BoxChanged(_)         \* what the page does on bitBoxAdd, bitBoxRemove

NoBit == 0
Bits == 1..MaxBits
Blank == ""

InList(s, b) == b \in Range(s.list)
IsBox(s, b) == s.kind[b] = "box"
Position(s, b) == CHOOSE i \in DOMAIN s.list : s.list[i] = b

(* An id that neither the list nor the current bit has: "new TextboxListBit". *)
Fresh(s) ==
  CHOOSE b \in Bits : /\ ~InList(s, b) /\ b # s.current
                      /\ \A c \in Bits : c < b => InList(s, c) \/ c = s.current

Boxes(s) == SelectSeq(s.list, LAMBDA b : IsBox(s, b))

getValues(s) ==
  LET boxes == Boxes(s)
  IN  [i \in DOMAIN boxes |-> s.text[boxes[i]]]

(* Listens to bitAdd and bitRemove. *)
update(s) == [s EXCEPT !.original = getValues(s)]

(***************************************************************************)
(* Adding.                                                                 *)
(***************************************************************************)

(* inject, without its events: at position i of the list, or nowhere if the    *)
(* bit it is to be put before is no longer in the document (i = 0).           *)
PutBit(s, type, value, i) ==
  LET b == Fresh(s)
  IN  [s EXCEPT !.list = IF i = 0 THEN @ ELSE InsertAt(@, i, b),
                !.kind[b] = type,
                !.text[b] = value]

(* An editable bit: of the events only bitAdd has a listener. *)
PutEditable(s, i) == update(PutBit(s, "editable", Blank, i))

(* Variant: boxes get no editable bit before them unless they come first. *)
OnAddFirstOnly(s, i) == IF i <= 1 THEN PutEditable(s, 1) ELSE s

(* onAdd of a box at position i: an editable bit before it if it follows a     *)
(* box or comes first, which a box outside the list seems to do.             *)
onAdd(s, i) ==
  IF i <= 1 THEN PutEditable(s, 1)
  ELSE IF IsBox(s, s.list[i - 1]) THEN PutEditable(s, i)
  ELSE s

PutBox(s, value, i) ==
  BoxChanged(update(onAdd(PutBit(s, "box", value, i), i)))

(* After the last box, or at the top if there is none. *)
add(s, value) ==
  LET places == {i \in DOMAIN s.list : IsBox(s, s.list[i])}
      last == CHOOSE i \in places : \A j \in places : j <= i
  IN  PutBox(s, value, IF places = {} THEN 1 ELSE last + 1)

(* The text of an editable bit becomes a box before it. *)
toBox(s, b) ==
  IF s.text[b] = Blank THEN s
  ELSE [PutBox(s, s.text[b], IF InList(s, b) THEN Position(s, b) ELSE 0)
          EXCEPT !.text[b] = Blank]

(***************************************************************************)
(* Focus.  element.blur() runs the handlers of the input, which make a box of  *)
(* its text; the handlers of a bit that was removed are gone.                *)
(***************************************************************************)

onBlur(s) == [s EXCEPT !.current = NoBit, !.timers = @ + 1]

blurBit(s, b) ==
  IF b \notin s.on THEN s
  ELSE LET t == onBlur([s EXCEPT !.on = @ \ {b}])
       IN  IF IsBox(s, b) \/ ~InList(s, b) THEN t ELSE toBox(t, b)

(* clearTimeout(blurtimer): blurtimer is the timer set last. *)
ClearTimer(s) == [s EXCEPT !.timers = IF @ = 0 THEN 0 ELSE @ - 1]

onFocus(s, b) ==
  LET t == IF s.current = NoBit THEN s ELSE blurBit(s, s.current)
  IN  [ClearTimer(t) EXCEPT !.current = b, !.focused = TRUE]

focusBit(s, b) ==
  IF b \in s.on THEN s ELSE onFocus([s EXCEPT !.on = @ \cup {b}], b)

(* Nothing happens if there is no bit in that direction. *)
focusRelative(s, dir, b) ==
  LET i == IF InList(s, b)
           THEN IF dir = "next" THEN Position(s, b) + 1 ELSE Position(s, b) - 1
           ELSE 0
  IN  IF i \in DOMAIN s.list THEN focusBit(s, s.list[i]) ELSE s

focusLast(s) == focusBit(s, Last(s.list))

(* The blur of the whole list. *)
blurList(s) ==
  IF ~s.focused THEN s
  ELSE [(IF s.current = NoBit THEN s ELSE blurBit(s, s.current))
          EXCEPT !.focused = FALSE]

(* The browser takes the keyboard from the input that has it. *)
NativeBlur(s) ==
  IF s.current # NoBit /\ InList(s, s.current) /\ ~IsBox(s, s.current)
  THEN blurBit(s, s.current) ELSE s

(***************************************************************************)
(* Removing: remove and onRemove call each other, for the editable bits that   *)
(* stand before the one removed.                                           *)
(***************************************************************************)
RECURSIVE remove(_, _)

onRemove(s, b) ==
  LET i == IF InList(s, b) THEN Position(s, b) ELSE 0
      priorGone == IF i > 1 /\ ~IsBox(s, s.list[i - 1])
                   THEN remove(s, s.list[i - 1]) ELSE s
  IN  IF s.focused THEN focusRelative(priorGone, "next", b) ELSE s

remove(s, b) ==
  LET t == onRemove(blurBit(s, b), b)
      gone == update([t EXCEPT !.list = SelectSeq(@, LAMBDA c : c # b)])
  IN  IF IsBox(s, b) THEN BoxChanged(gone) ELSE gone

(***************************************************************************)
(* Replacing everything.  What was current stays so, outside the list, and    *)
(* no bit is asked to leave: bitBoxRemove is not fired.                      *)
(***************************************************************************)
clear(s) == PutEditable([s EXCEPT !.list = <<>>], 1)

setNewValues(s, values) == update(FoldLeft(add, clear(s), values))

===============================================================================
