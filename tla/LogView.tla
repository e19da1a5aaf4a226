-------------------------------- MODULE LogView --------------------------------
(***************************************************************************)
(* The log: the list of messages (Log, LogWebView) and the page that shows them   *)
(* (log-webview.html).  Loggers hand messages to the JavaFX thread; a listener of *)
(* the list keeps them until the page asks for them every 200 ms, but removals   *)
(* are sent to the page at once.  Everything here but logging is done by the      *)
(* JavaFX thread, which runs the tasks of Platform.runLater in their order; the   *)
(* timers of the page come in between.                                        *)
(*                                                                         *)
(* The list and the page each keep to a limit of their own.                    *)
(***************************************************************************)
EXTENDS Integers, Sequences, SequencesExt, FiniteSets

CONSTANTS Kinds,        \* of messages
          Limit,        \* 100: messages of the list, maxMessagesCount of the page
          MaxMessages, MaxClears, MaxFilters \* bounds

(* An "info" is shown by the filter INFO, a "live" by LIVE, a "syntax" error by none  *)
(* of the two; ALL shows all but the live ones.  A "blank" has no text.            *)
AllKinds == {"info", "live", "syntax", "blank"}

LogAssumption ==
  /\ Kinds \subseteq AllKinds /\ Limit \in Nat \ {0}
  /\ MaxMessages \in Nat /\ MaxClears \in Nat /\ MaxFilters \in Nat

Filters == {"ALL", "INFO", "LIVE"}

VARIABLES
  logged,       \* the kinds of the messages so far; a message is its number
  stage,        \* "new", "loading", "alerted", "ready": of the view and its page
  logMessages, newMessages,
  queue,        \* tasks of Platform.runLater
  logFilter,    \* "none" for null
  visible,      \* messages that have the flag
  page,         \* the messages of .log, in their order
  hidden,       \* those whose element is hidden
  messageCount, syntaxError, \* of the page, 0 for none
  ticking,      \* filterInterval is set
  clears, filters, \* bounds
  early,        \* history: a message came between the listener and "ready"
  muddled,      \* history: the list was cleared while messages waited for the page
  hurried       \* history: the page asked for messages while the list was too long

vars == <<logged, stage, logMessages, newMessages, queue, logFilter, visible, page, hidden,
          messageCount, syntaxError, ticking, clears, filters, early, muddled, hurried>>
list == <<logMessages, newMessages, logFilter, visible>>
thePage == <<page, hidden, messageCount, syntaxError, ticking>>
bounds == <<clears, filters>>
history == <<early, muddled, hurried>>

Messages == DOMAIN logged
Tasks == {"log", "ready", "flush", "validate", "removeFirst", "clear", "filter"}
Task(t, ms) == [task |-> t, messages |-> ms]

TypeOK ==
  /\ logged \in Seq(Kinds) /\ Len(logged) <= MaxMessages
  /\ stage \in {"new", "loading", "alerted", "ready"}
  /\ \A s \in {logMessages, newMessages, page} : ToSet(s) \subseteq Messages
  /\ \A i \in DOMAIN queue : queue[i].task \in Tasks
  /\ logFilter \in Filters \cup {"none"} /\ visible \subseteq Messages
  /\ hidden \subseteq ToSet(page) /\ messageCount \in Int /\ messageCount <= Limit + 1
  /\ syntaxError \in Messages \cup {0} /\ ticking \in BOOLEAN

Init ==
  /\ logged = <<>> /\ stage = "new" /\ logMessages = <<>> /\ newMessages = <<>> /\ queue = <<>>
  /\ logFilter = "none" /\ visible = {} /\ page = <<>> /\ hidden = {}
  /\ messageCount = 0 /\ syntaxError = 0 /\ ticking = FALSE
  /\ clears = 0 /\ filters = 0 /\ early = FALSE /\ muddled = FALSE /\ hurried = FALSE

(***************************************************************************)
(* The list.                                                               *)
(***************************************************************************)

HasText(m) == logged[m] # "blank"

(* LogMessage.filter *)
Passes(m, f) ==
  CASE f = "ALL" -> logged[m] # "live"
    [] f = "INFO" -> logged[m] = "info"
    [] f = "LIVE" -> logged[m] = "live"

(* The flags after the messages have been filtered *)
Filtered(ms, f) == (visible \ ms) \cup {m \in ms : Passes(m, f)}

(* addLogMessages of the view *)
AddLogMessages(ms) ==
  /\ visible' = Filtered(ToSet(ms), IF logFilter = "none" THEN "ALL" ELSE logFilter)
  /\ newMessages' = newMessages \o SelectSeq(ms, HasText)

(* What the listener sends to the page when so many messages have been removed. *)
Removal(n) == Task(IF n = 1 THEN "removeFirst" ELSE "clear", <<>>)
Validate == Task("validate", <<>>)

(* A task of the JavaFX thread begins and ends. *)
Running(t) == queue # <<>> /\ Head(queue).task = t

(* A logger calls Platform.runLater. *)
Log(k) ==
  /\ Len(logged) < MaxMessages
  /\ logged' = Append(logged, k)
  /\ queue' = Append(queue, Task("log", <<Len(logged) + 1>>))
  /\ UNCHANGED <<list, stage, thePage, bounds, history>>

(* Log.log.  Before init there is no listener; the flag is set at first. *)
RunLog ==
  LET ms == Head(queue).messages
  IN  /\ Running("log")
      /\ logMessages' = logMessages \o ms
      /\ IF stage = "new"
         THEN visible' = visible \cup ToSet(ms) /\ queue' = Tail(queue) /\ UNCHANGED newMessages
         ELSE AddLogMessages(ms) /\ queue' = Append(Tail(queue), Validate)
      /\ early' = (early \/ stage \in {"loading", "alerted"})
      /\ UNCHANGED <<logged, stage, logFilter, thePage, bounds, muddled, hurried>>

(* Variant: the newest message goes. *)
RunValidateNewest ==
  LET over == IF Len(logMessages) > Limit THEN Len(logMessages) - Limit ELSE 0
  IN  /\ Running("validate")
      /\ logMessages' = SubSeq(logMessages, 1, Len(logMessages) - over)
      /\ queue' = Tail(queue) \o [i \in 1..(2 * over) |-> IF i % 2 = 1 THEN Removal(1) ELSE Validate]
      /\ UNCHANGED <<logged, stage, newMessages, logFilter, visible, thePage, bounds, history>>

(* validateLogMessagesSize: one by one, and the listener hears of each. *)
RunValidate ==
  LET over == IF Len(logMessages) > Limit THEN Len(logMessages) - Limit ELSE 0
  IN  /\ Running("validate")
      /\ logMessages' = SubSeq(logMessages, over + 1, Len(logMessages))
      /\ queue' = Tail(queue) \o [i \in 1..(2 * over) |-> IF i % 2 = 1 THEN Removal(1) ELSE Validate]
      /\ UNCHANGED <<logged, stage, newMessages, logFilter, visible, thePage, bounds, history>>

(* Log.clear(level), by a language handler, leaves the messages of the level; a key *)
(* of the view, level "none", clears all.  Only a list with messages changes.       *)
Clear(level) ==
  LET Of(m) == logged[m] = level
      rest == SelectSeq(logMessages, Of)
  IN  /\ clears < MaxClears /\ clears' = clears + 1
      /\ logMessages # <<>>
      /\ logMessages' = rest
      /\ IF stage = "new" \/ rest = <<>> THEN UNCHANGED <<newMessages, visible>>
         ELSE AddLogMessages(rest)
      /\ queue' = IF stage = "new" THEN queue
                  ELSE queue \o <<Removal(Len(logMessages)), Validate>>
                       \o (IF rest = <<>> THEN <<>> ELSE <<Validate>>)
      /\ muddled' = (muddled \/ newMessages # <<>> \/ stage \in {"loading", "alerted"})
      /\ UNCHANGED <<logged, stage, logFilter, thePage, filters, early, hurried>>

(* filter, when another button has been chosen *)
Filter(f) ==
  LET flags == Filtered(ToSet(logMessages), f)
  IN  /\ filters < MaxFilters /\ filters' = filters + 1
      /\ logFilter' = f
      /\ visible' = flags
      /\ queue' = IF flags # visible THEN Append(queue, Task("filter", <<>>)) ELSE queue
      /\ UNCHANGED <<logged, stage, logMessages, newMessages, thePage, clears, history>>

(***************************************************************************)
(* The page's alerts.                                                       *)
(***************************************************************************)

(* init, called by layoutChildren: the page begins to load. *)
InitView ==
  /\ stage = "new"
  /\ stage' = "loading"
  /\ UNCHANGED <<logged, list, queue, thePage, bounds, history>>

(* "command:ready" *)
Ready ==
  /\ stage = "loading"
  /\ stage' = "alerted"
  /\ queue' = Append(queue, Task("ready", <<>>))
  /\ UNCHANGED <<logged, list, thePage, bounds, history>>

RunReady ==
  /\ Running("ready")
  /\ stage' = "ready"
  /\ AddLogMessages(logMessages)
  /\ queue' = Tail(queue)
  /\ UNCHANGED <<logged, logMessages, logFilter, thePage, bounds, history>>

(* "command:flush", every 200 ms once the page is loaded *)
Flush ==
  /\ stage \in {"alerted", "ready"}
  /\ newMessages # <<>>
  /\ queue' = Append(queue, Task("flush", newMessages))
  /\ newMessages' = <<>>
  /\ hurried' = (hurried \/ Len(logMessages) > Limit)
  /\ UNCHANGED <<logged, stage, logMessages, logFilter, visible, thePage, bounds, early, muddled>>

(***************************************************************************)
(* The page.                                                               *)
(***************************************************************************)

Newest(s, n) == SubSeq(s, IF Len(s) > n THEN Len(s) - n + 1 ELSE 1, Len(s))

(* addLogMessage: the last message goes if it was a syntax error, without being      *)
(* counted, then the new one comes, then the first goes if there are too many.       *)
Added(p, m) ==
  LET others == IF p.syntaxError = 0 THEN p.page ELSE Remove(p.page, p.syntaxError)
      shown == Append(others, m)
  IN  [page |-> IF p.count > Limit THEN Tail(shown) ELSE shown,
       hidden |-> IF m \in visible THEN p.hidden ELSE p.hidden \cup {m},
       count |-> IF p.count > Limit THEN p.count ELSE p.count + 1,
       syntaxError |-> IF logged[m] = "syntax" THEN m ELSE 0]

(* addLogMessages of the page; 200 of the messages get here, 100 of them are taken.  *)
RunFlush ==
  LET new == Newest(Newest(Head(queue).messages, 2 * Limit), Limit)
      before == [page |-> page, hidden |-> hidden, count |-> messageCount,
                 syntaxError |-> syntaxError]
      after == FoldLeft(Added, before, new)
  IN  /\ Running("flush")
      /\ page' = after.page /\ hidden' = after.hidden \cap ToSet(after.page)
      /\ messageCount' = after.count /\ syntaxError' = after.syntaxError
      /\ queue' = Tail(queue)
      /\ UNCHANGED <<logged, stage, list, ticking, bounds, history>>

(* removeFirst counts even if there is nothing to remove. *)
RunRemoveFirst ==
  /\ Running("removeFirst")
  /\ IF stage = "ready"
     THEN /\ page' = IF page = <<>> THEN page ELSE Tail(page)
          /\ hidden' = hidden \cap ToSet(page')
          /\ messageCount' = messageCount - 1
     ELSE UNCHANGED <<page, hidden, messageCount>>
  /\ queue' = Tail(queue)
  /\ UNCHANGED <<logged, stage, list, syntaxError, ticking, bounds, history>>

RunClear ==
  /\ Running("clear")
  /\ IF stage = "ready" THEN page' = <<>> /\ hidden' = {} /\ messageCount' = 0
     ELSE UNCHANGED <<page, hidden, messageCount>>
  /\ queue' = Tail(queue)
  /\ UNCHANGED <<logged, stage, list, syntaxError, ticking, bounds, history>>

(* filter sets an interval, and it goes on. *)
RunFilter ==
  /\ Running("filter")
  /\ ticking' = (ticking \/ stage = "ready")
  /\ queue' = Tail(queue)
  /\ UNCHANGED <<logged, stage, list, page, hidden, messageCount, syntaxError, bounds, history>>

(* updateVisible for every element *)
Tick ==
  /\ ticking
  /\ hidden' = ToSet(page) \ visible
  /\ UNCHANGED <<logged, stage, list, queue, page, messageCount, syntaxError, ticking, bounds,
                 history>>

Next ==
  \/ \E k \in Kinds : Log(k)
  \/ \E level \in {"none", "info", "live"} : Clear(level)
  \/ \E f \in Filters : Filter(f)
  \/ InitView \/ Ready \/ Flush \/ Tick
  \/ RunLog \/ RunValidate \/ RunReady \/ RunFlush \/ RunRemoveFirst \/ RunClear \/ RunFilter

Spec == Init /\ [][Next]_vars

(***************************************************************************)
(* Correctness.                                                            *)
(***************************************************************************)

Quiet == stage = "ready" /\ queue = <<>> /\ newMessages = <<>>

(* The page never shows messages in another order than they came, whatever is      *)
(* removed meanwhile, nor one of them twice; messages that came while the page was  *)
(* loading are added twice.                                                    *)
InOrder ==
  ~early /\ ~muddled => \A i, j \in DOMAIN page : i < j => page[i] < page[j]

(* When nothing is under way the page shows what is in the list and nothing the     *)
(* list has dropped: the removals, which overtake the messages, hit the right ones. *)
(* Not so once messages that waited for the page were cleared from the list, and if  *)
(* there are messages the page never gets.                                       *)
ShowsListed ==
  Quiet /\ ~early /\ ~muddled /\ (\A m \in Messages : HasText(m)) =>
    ToSet(page) \subseteq ToSet(logMessages)

(* And it shows all of the list, if the list was never too long when the page asked *)
(* (both would then remove for the same message), and if there are no messages the   *)
(* page drops or does not get.                                                *)
ShowsAll ==
  Quiet /\ ~early /\ ~muddled /\ ~hurried
        /\ (\A m \in Messages : logged[m] \in {"info", "live"}) =>
    page = logMessages

(* A syntax error is shown only as long as no other message has come. *)
SyntaxErrorIsLast ==
  ~early /\ ~muddled =>
    \A i \in DOMAIN page : logged[page[i]] = "syntax" => i = Len(page)

(* When nothing is under way the elements agree with the filter that was chosen last, *)
(* though messages came, waited and were dropped meanwhile; and they stay so.         *)
AgreesWithFilter ==
  Quiet /\ (ticking => hidden = ToSet(page) \ visible) =>
    \A i \in DOMAIN page :
      page[i] \in ToSet(logMessages) =>
        (page[i] \in hidden <=> ~Passes(page[i], IF logFilter = "none" THEN "ALL" ELSE logFilter))

(* What the page shows is the list's, in its order and filtered as it is. *)
PageIsRight ==
  TypeOK /\ InOrder /\ ShowsListed /\ ShowsAll /\ SyntaxErrorIsLast /\ AgreesWithFilter

===============================================================================
