----------------------------- MODULE FilesetInput -----------------------------
(***************************************************************************)
(* FilesetInput.groovy and its page, fileset-webview.html: a property "files"  *)
(* of a form and the TextboxList in which the user edits it.  The page tells    *)
(* the property with an alert, at once; the property tells the page with a      *)
(* Runnable, later.  All of it happens on the JavaFX thread.                  *)
(*                                                                         *)
(* A string of files is the sequence of its names, which hold no comma.       *)
(***************************************************************************)
EXTENDS Naturals, Sequences, SequencesExt, FiniteSets

CONSTANTS Names,      \* the names of files
          MaxBoxes,   \* bound: names in a string, boxes in the list
          MaxBits,    \* bound: bits that exist at a time
          MaxQueue    \* bound: Runnables waiting

BoundsAssumption == MaxBoxes \in Nat /\ MaxQueue \in Nat \ {0}

VARIABLES
  s,      \* the widget and the page (see TextboxList)
  area,   \* the text area of a double click
  queue   \* the Runnables handed to Platform.runLater

vars == <<s, area, queue>>

(* currentValue before the page has sent anything *)
Undefined == <<"undefined">>

(* fireUpdate of the page, and the alert's handler, which stores the value     *)
(* in "files".  getFiles has updated the form's field.  A value that equals    *)
(* the one sent last is not sent, whatever the application has set since.      *)
(* History "apart": page and files differ, or will when the queue is empty.    *)
fireUpdate(t) ==
  LET v == t.original
      sent == [t EXCEPT !.page.currentValue = v, !.page.files = v]
      next == IF v = t.page.currentValue THEN t ELSE sent
  IN  IF ~t.page.fromUser THEN t
      ELSE [next EXCEPT !.page.apart = v # next.page.files \/ queue # <<>>]

W == INSTANCE TextboxList WITH BoxChanged <- fireUpdate

Strings == UNION {[1..n -> Names] : n \in 0..MaxBoxes}

Ready == [kind |-> "ready", value |-> <<>>]
SetFiles(v) == [kind |-> "setFiles", value |-> v]

TypeOK ==
  /\ s.list \in Seq(W!Bits) /\ IsInjective(s.list)
  /\ s.kind \in [W!Bits -> {"box", "editable"}]
  /\ s.text \in [W!Bits -> Names \cup {W!Blank}]
  /\ s.current \in W!Bits \cup {W!NoBit}
  /\ s.on \subseteq W!Bits
  /\ s.focused \in BOOLEAN /\ s.timers \in 0..1
  /\ s.original = W!getValues(s)
  /\ s.page.files \in Seq(Names)
  /\ s.page.currentValue \in Seq(Names) \cup {Undefined}
  /\ s.page.ready \in BOOLEAN /\ s.page.apart \in BOOLEAN /\ s.page.fromUser
  /\ area.open \in BOOLEAN /\ area.textEditMode \in BOOLEAN
  /\ queue \in Seq({Ready} \cup {SetFiles(v) : v \in Strings})

(* The page is loaded with an empty field; afterInit has added the editable    *)
(* bit, and the alert "command:ready" has posted its Runnable.                *)
Init ==
  /\ s = [list |-> <<1>>,
          kind |-> [b \in W!Bits |-> "editable"],
          text |-> [b \in W!Bits |-> W!Blank],
          current |-> W!NoBit, on |-> {}, focused |-> FALSE, timers |-> 0,
          original |-> <<>>,
          page |-> [files |-> <<>>, currentValue |-> Undefined, ready |-> FALSE,
                    fromUser |-> TRUE, apart |-> FALSE]]
  /\ area = [open |-> FALSE, textEditMode |-> FALSE]
  /\ queue = <<Ready>>

(* The bits that are gone leave no trace. *)
Become(t) ==
  LET used == Range(t.list) \cup {t.current}
  IN  s' = [t EXCEPT !.kind = [b \in W!Bits |-> IF b \in used THEN @[b] ELSE "editable"],
                     !.text = [b \in W!Bits |-> IF b \in used THEN @[b] ELSE W!Blank]]

(* Bound: n more boxes fit, each with an editable bit. *)
Room(n) ==
  /\ Len(W!Boxes(s)) + n <= MaxBoxes
  /\ Len(s.list) + 2 * n + 2 <= MaxBits

(* The current bit is an input that has the keyboard. *)
Typing ==
  s.current # W!NoBit /\ W!InList(s, s.current) /\ ~W!IsBox(s, s.current)

Editing == s.focused /\ s.current # W!NoBit

(***************************************************************************)
(* What the user does.  A click first takes the keyboard from the input that   *)
(* has it.                                                                 *)
(***************************************************************************)

Type(v) ==
  /\ Typing
  /\ v = W!Blank \/ Room(1)
  /\ s' = [s EXCEPT !.text[s.current] = v]
  /\ UNCHANGED <<area, queue>>

(* Comma, space or Enter. *)
PressAddKey ==
  /\ Typing
  /\ Become(W!toBox(s, s.current))
  /\ UNCHANGED <<area, queue>>

(* An arrow key with the caret at the end of the text. *)
PressArrow(dir) ==
  /\ Editing
  /\ Become(W!focusRelative(s, dir, s.current))
  /\ UNCHANGED <<area, queue>>

(* Backspace and Delete: also those typed into the text area. *)
PressDelete(dir) ==
  /\ Editing
  /\ Become(IF W!IsBox(s, s.current) THEN W!remove(s, s.current)
            ELSE W!focusRelative(s, dir, s.current))
  /\ UNCHANGED <<area, queue>>

ClickBit(b) ==
  /\ W!InList(s, b)
  /\ b # s.current
  /\ Become(W!focusBit(W!NativeBlur(s), b))
  /\ UNCHANGED <<area, queue>>

ClickDeleteButton(b) ==
  /\ W!InList(s, b) /\ W!IsBox(s, b)
  /\ Become(W!remove(W!NativeBlur(s), b))
  /\ UNCHANGED <<area, queue>>

(* The background: ignored while the list waits for its blur timer. *)
ClickContainer ==
  LET t == W!NativeBlur(s)
  IN  /\ Become(IF ~t.focused \/ t.current # W!NoBit THEN W!focusLast(t) ELSE t)
      /\ UNCHANGED <<area, queue>>

ClickOutside ==
  /\ s.focused
  /\ Become(W!blurList(W!NativeBlur(s)))
  /\ UNCHANGED <<area, queue>>

BlurWindow ==
  /\ s.current # W!NoBit
  /\ Become(W!blurBit(s, s.current))
  /\ UNCHANGED <<area, queue>>

BlurTimer ==
  /\ s.timers > 0
  /\ Become(W!blurList([s EXCEPT !.timers = @ - 1]))
  /\ UNCHANGED <<area, queue>>

(* Each value replaces what was typed.  A box that was removed has no         *)
(* neighbour, and its toBox is undefined.                                   *)
Paste(values) ==
  LET t == IF W!IsBox(s, s.current) THEN W!focusRelative(s, "next", s.current)
           ELSE s
      PasteOne(u, v) == W!toBox([u EXCEPT !.text[u.current] = v], u.current)
  IN  /\ ~area.textEditMode
      /\ s.current # W!NoBit
      /\ Room(Len(values))
      /\ ~W!IsBox(t, t.current)
      /\ Become(FoldLeft(PasteOne, t, values))
      /\ UNCHANGED <<area, queue>>

Cut ==
  /\ ~area.textEditMode
  /\ s.current # W!NoBit /\ W!IsBox(s, s.current)
  /\ Become(W!remove(s, s.current))
  /\ UNCHANGED <<area, queue>>

(* The text area takes the keyboard from the input, whose text becomes a box   *)
(* that the text area does not show.                                         *)
DoubleClick ==
  /\ Editing
  /\ ~area.open
  /\ area' = [open |-> TRUE, textEditMode |-> TRUE]
  /\ Become(W!NativeBlur(s))
  /\ UNCHANGED queue

(* Enter and Escape end the mode, a click elsewhere does not.  Each name of    *)
(* the text is sent as a box is made of it; if there is none nothing is sent.  *)
CloseArea(byKey, text) ==
  /\ area.open
  /\ area' = [open |-> FALSE, textEditMode |-> area.textEditMode /\ ~byKey]
  /\ Become(LET t == W!setNewValues(s, text)
            IN  [t EXCEPT !.page.apart =
                   IF text = <<>> THEN t.page.files # <<>> \/ queue # <<>> ELSE @])
  /\ UNCHANGED queue

(***************************************************************************)
(* What the application does.                                              *)
(***************************************************************************)

(* Somebody sets the property; a property that does not change tells nobody. *)
ChangeFiles(v) ==
  /\ v # s.page.files
  /\ Len(queue) < MaxQueue
  /\ s' = [s EXCEPT !.page.files = v]
  /\ queue' = Append(queue, SetFiles(v))
  /\ UNCHANGED area

RunReady ==
  /\ queue # <<>> /\ Head(queue).kind = "ready"
  /\ s' = [s EXCEPT !.page.ready = TRUE]
  /\ queue' = IF s.page.files = <<>> THEN Tail(queue)
              ELSE Append(Tail(queue), SetFiles(s.page.files))
  /\ UNCHANGED area

(* setFiles of the page: nothing is sent, and currentValue stays as it was. *)
pageSetFiles(v) ==
  [W!setNewValues([s EXCEPT !.page.fromUser = FALSE], v)
     EXCEPT !.page.fromUser = TRUE]

(* A property's value reaches the page, if the page is ready. *)
RunSetFiles ==
  LET v == Head(queue).value
      last == Len(queue) = 1
      t == IF s.page.ready THEN pageSetFiles(v) ELSE s
  IN  /\ queue # <<>> /\ Head(queue).kind = "setFiles"
      /\ Become([t EXCEPT !.page.apart = @ /\ ~(last /\ v = s.page.files)])
      /\ queue' = Tail(queue)
      /\ UNCHANGED area

Next ==
  \/ \E v \in Names \cup {W!Blank} : Type(v)
  \/ PressAddKey
  \/ \E dir \in {"prev", "next"} : PressArrow(dir) \/ PressDelete(dir)
  \/ \E b \in W!Bits : ClickBit(b) \/ ClickDeleteButton(b)
  \/ ClickContainer \/ ClickOutside \/ BlurWindow \/ BlurTimer
  \/ \E v \in Strings : \/ Paste(v) \/ ChangeFiles(v)
                         \/ \E byKey \in BOOLEAN : CloseArea(byKey, v)
  \/ Cut \/ DoubleClick
  \/ RunReady \/ RunSetFiles

Spec == Init /\ [][Next]_vars

(***************************************************************************)
(* Correctness.                                                            *)
(***************************************************************************)

(* There is always a place to type: the list ends with an editable bit and no  *)
(* two boxes touch, whatever was added, removed, pasted or replaced.          *)
RoomToType ==
  /\ ~W!IsBox(s, Last(s.list))
  /\ \A i \in 1..(Len(s.list) - 1) :
       ~(W!IsBox(s, s.list[i]) /\ W!IsBox(s, s.list[i + 1]))

(* The bits' own flags and the list's idea of the current bit agree, although  *)
(* focus and blur are called from within each other.                        *)
OneBitIsFocused ==
  s.on = IF s.current = W!NoBit THEN {} ELSE {s.current}

(* The blur timer is set when the list waits for its end and at no other time  *)
(* while a bit is current: an edit is never cut short by an old timer.        *)
BlurTimerMatches ==
  /\ s.timers > 0 => s.current = W!NoBit
  /\ s.focused /\ s.current = W!NoBit => s.timers = 1

(* What was typed becomes a box when its input is left. *)
TypedTextIsBoxed ==
  \A b \in Range(s.list) : ~W!IsBox(s, b) /\ b # s.current => s.text[b] = W!Blank

(* While nothing is on its way to the page, it shows what "files" holds,       *)
(* unless the user's edit overtook a value of the application, restored the    *)
(* value that was sent last, or emptied the text area.                        *)
PageShowsFiles ==
  queue = <<>> /\ ~s.page.apart => W!getValues(s) = s.page.files

(* The input box is sound: see its parts. *)
InputIsSound ==
  /\ TypeOK /\ RoomToType /\ OneBitIsFocused /\ BlurTimerMatches /\ TypedTextIsBoxed
  /\ PageShowsFiles

===============================================================================
