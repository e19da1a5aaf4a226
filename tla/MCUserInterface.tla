--------------------------- MODULE MCUserInterface ---------------------------
(***************************************************************************)
(* What the user sees, for TLC: the live-coding sessions in the window, the log    *)
(* view, and of the pages how they start, what they ask for and their plug-ins.      *)
(* These share no state, so each behaviour is one of a single component, which        *)
(* "part" names; the variables of the others are Idle.                           *)
(***************************************************************************)
EXTENDS Integers, Sequences

CONSTANTS
  Clients, MaxStarts, MaxRuns,                 \* of Sessions
  DelayIn, DelayOut, Fade, Prefer, MaxPending,   \* of Tipsy
  Letters, MaxLength,                          \* of Trunk8
  N, Sizes, MaxLoops,                          \* of ResizePolling
  Handlers, MaxHolds,                          \* of Ready
  Requests, Timed, Sync                        \* of Ajax

VARIABLES
  part,
  currentSessions, untold, firing, sessions, fxQueue, stopping, indicator, status,
  player, compiling, timers, givingUp, starts, runs, overtaken, overruled,
  contented,
  logged, stage, logMessages, newMessages, queue, logFilter, visible, page,
  hidden, messageCount, syntaxError, ticking, clears, filters, early, muddled,
  hurried,
  over, hoverState, pendingIn, pendingOut, tip, enabled, title, original, text,
  gravity, near, last,
  uncut, html, room, phase, lower, upper, maxBite, current,
  size, elems, data, latest, older, running, todo, inside,
  dom, body, listening, readyWait, isReady, readyList, retries, scrolling, waiting,
  started, held, holds,
  stack, called, state, installed, transport, xhr, timer, result, active, begun,
  dones

Idle == "idle"

ofWindow == <<currentSessions, untold, firing, sessions, fxQueue, stopping,
              indicator, status, player, compiling, timers, givingUp, starts,
              runs, overtaken, overruled, contented>>
ofLog == <<logged, stage, logMessages, newMessages, queue, logFilter, visible,
           page, hidden, messageCount, syntaxError, ticking, clears, filters,
           early, muddled, hurried>>
ofTip == <<over, hoverState, pendingIn, pendingOut, tip, enabled, title, original,
           text, gravity, near, last>>
ofCut == <<uncut, html, room, phase, lower, upper, maxBite, current>>
ofPolling == <<size, elems, data, latest, older, running, todo, inside>>
ofStart == <<dom, body, listening, readyWait, isReady, readyList, retries, scrolling,
             waiting, started, held, holds>>
ofRequest == <<stack, called, state, installed, transport, xhr, timer, result,
               active, begun, dones>>

everything ==
  <<part, ofWindow, ofLog, ofTip, ofCut, ofPolling, ofStart, ofRequest>>

WindowIdle ==
  /\ currentSessions = Idle /\ untold = Idle /\ firing = Idle
  /\ sessions = Idle /\ fxQueue = Idle /\ stopping = Idle /\ indicator = Idle
  /\ status = Idle /\ player = Idle /\ compiling = Idle /\ timers = Idle
  /\ givingUp = Idle /\ starts = Idle /\ runs = Idle /\ overtaken = Idle
  /\ overruled = Idle /\ contented = Idle

LogIdle ==
  /\ logged = Idle /\ stage = Idle /\ logMessages = Idle /\ newMessages = Idle
  /\ queue = Idle /\ logFilter = Idle /\ visible = Idle /\ page = Idle
  /\ hidden = Idle /\ messageCount = Idle /\ syntaxError = Idle
  /\ ticking = Idle /\ clears = Idle /\ filters = Idle /\ early = Idle
  /\ muddled = Idle /\ hurried = Idle

TipIdle ==
  /\ over = Idle /\ hoverState = Idle /\ pendingIn = Idle /\ pendingOut = Idle
  /\ tip = Idle /\ enabled = Idle /\ title = Idle /\ original = Idle
  /\ text = Idle /\ gravity = Idle /\ near = Idle /\ last = Idle

CutIdle ==
  /\ uncut = Idle /\ html = Idle /\ room = Idle /\ phase = Idle /\ lower = Idle
  /\ upper = Idle /\ maxBite = Idle /\ current = Idle

PollingIdle ==
  /\ size = Idle /\ elems = Idle /\ data = Idle /\ latest = Idle
  /\ older = Idle /\ running = Idle /\ todo = Idle /\ inside = Idle

StartIdle ==
  /\ dom = Idle /\ body = Idle /\ listening = Idle /\ readyWait = Idle
  /\ isReady = Idle /\ readyList = Idle /\ retries = Idle /\ scrolling = Idle
  /\ waiting = Idle /\ started = Idle /\ held = Idle /\ holds = Idle

RequestIdle ==
  /\ stack = Idle /\ called = Idle /\ state = Idle /\ installed = Idle
  /\ transport = Idle /\ xhr = Idle /\ timer = Idle /\ result = Idle
  /\ active = Idle /\ begun = Idle /\ dones = Idle

Sides == {"right", "center"}
Loop(reentrant) == IF reentrant THEN "reentrant" ELSE "loop"
Browser(old) == IF old THEN "oldstart" ELSE "start"

(* All texts of at least two letters and blanks that begin and end with a letter *)
CutTexts ==
  {t \in UNION {[1..n -> Letters \cup {"blank"}] : n \in 2..MaxLength} :
     t[1] \in Letters /\ t[Len(t)] \in Letters}

Window == INSTANCE Sessions

(* Messages and a clear; syntax errors; filters that change. *)
PlainLog == INSTANCE LogView WITH
  Kinds <- {"info"}, Limit <- 2, MaxMessages <- 4, MaxClears <- 1, MaxFilters <- 0
SyntaxLog == INSTANCE LogView WITH
  Kinds <- {"info", "syntax"}, Limit <- 2, MaxMessages <- 3, MaxClears <- 1,
  MaxFilters <- 0
LiveLog == INSTANCE LogView WITH
  Kinds <- {"info", "live"}, Limit <- 1, MaxMessages <- 2, MaxClears <- 0,
  MaxFilters <- 2

Tip == INSTANCE Tipsy

Cut(side) == INSTANCE Trunk8 WITH
  Texts <- CutTexts, Side <- side, Fill <- <<"dots">>, Rooms <- 0..MaxLength, original <- uncut

(* Do the handlers of "resize" bind and unbind others? *)
Polling(Reentrant) == INSTANCE ResizePolling

(* The browser of the page may be one without addEventListener. *)
Start(OldIE) == INSTANCE Ready WITH timers <- retries, called <- started

(* No request is aborted while its ajaxSend is handled. *)
Request == INSTANCE Ajax WITH AbortsInSend <- FALSE, starts <- begun

ASSUME Assumptions ==
  /\ Window!SessionsAssumption /\ Tip!TipsyAssumption
  /\ PlainLog!LogAssumption /\ SyntaxLog!LogAssumption /\ LiveLog!LogAssumption
  /\ MaxLength \in Nat /\ \A side \in Sides : Cut(side)!Trunk8Assumption
  /\ \A b \in BOOLEAN : Polling(b)!ElementsAssumption /\ Start(b)!ReadyAssumption
  /\ Request!AjaxAssumption

Init ==
  \/ /\ part = "window" /\ Window!Init
     /\ LogIdle /\ TipIdle /\ CutIdle /\ PollingIdle /\ StartIdle /\ RequestIdle
  \/ /\ \/ part = "plain" /\ PlainLog!Init
        \/ part = "syntax" /\ SyntaxLog!Init
        \/ part = "live" /\ LiveLog!Init
     /\ WindowIdle /\ TipIdle /\ CutIdle /\ PollingIdle /\ StartIdle /\ RequestIdle
  \/ /\ part = "tip" /\ Tip!Init
     /\ WindowIdle /\ LogIdle /\ CutIdle /\ PollingIdle /\ StartIdle /\ RequestIdle
  \/ /\ \E side \in Sides : part = side /\ Cut(side)!Init
     /\ WindowIdle /\ LogIdle /\ TipIdle /\ PollingIdle /\ StartIdle /\ RequestIdle
  \/ /\ \E b \in BOOLEAN : part = Loop(b) /\ Polling(b)!Init
     /\ WindowIdle /\ LogIdle /\ TipIdle /\ CutIdle /\ StartIdle /\ RequestIdle
  \/ /\ \E old \in BOOLEAN : part = Browser(old) /\ Start(old)!Init
     /\ WindowIdle /\ LogIdle /\ TipIdle /\ CutIdle /\ PollingIdle /\ RequestIdle
  \/ /\ part = "request" /\ Request!Init
     /\ WindowIdle /\ LogIdle /\ TipIdle /\ CutIdle /\ PollingIdle /\ StartIdle

(* Steps of a component. *)
OfWindow(A) ==
  /\ part = "window" /\ A
  /\ UNCHANGED <<part, ofLog, ofTip, ofCut, ofPolling, ofStart, ofRequest>>
OfLog(kind, A) ==
  /\ part = kind /\ A
  /\ UNCHANGED <<part, ofWindow, ofTip, ofCut, ofPolling, ofStart, ofRequest>>
OfTip(A) ==
  /\ part = "tip" /\ A
  /\ UNCHANGED <<part, ofWindow, ofLog, ofCut, ofPolling, ofStart, ofRequest>>
OfCut(side, A) ==
  /\ part = side /\ A
  /\ UNCHANGED <<part, ofWindow, ofLog, ofTip, ofPolling, ofStart, ofRequest>>
OfPolling(b, A) ==
  /\ part = Loop(b) /\ A
  /\ UNCHANGED <<part, ofWindow, ofLog, ofTip, ofCut, ofStart, ofRequest>>
OfStart(old, A) ==
  /\ part = Browser(old) /\ A
  /\ UNCHANGED <<part, ofWindow, ofLog, ofTip, ofCut, ofPolling, ofRequest>>
OfRequest(A) ==
  /\ part = "request" /\ A
  /\ UNCHANGED <<part, ofWindow, ofLog, ofTip, ofCut, ofPolling, ofStart>>

Next ==
  \/ OfWindow(Window!Next)
  \/ OfLog("plain", PlainLog!Next)
  \/ OfLog("syntax", SyntaxLog!Next)
  \/ OfLog("live", LiveLog!Next)
  \/ OfTip(Tip!Next)
  \/ \E side \in Sides : OfCut(side, Cut(side)!Next)
  \/ \E b \in BOOLEAN : OfPolling(b, Polling(b)!Next)
  \/ \E old \in BOOLEAN : OfStart(old, Start(old)!Next)
  \/ OfRequest(Request!Next)

Spec == Init /\ [][Next]_everything

------------------------------------------------------------------------------
(* Sessions!WindowIsRight: buttons and indicator agree with the sessions when all is *)
(* settled. *)
WindowIsRight == part = "window" => Window!WindowIsRight

(* LogView!PageIsRight: the page shows the list, in order and filtered. *)
PageIsRight ==
  /\ part = "plain" => PlainLog!PageIsRight
  /\ part = "syntax" => SyntaxLog!PageIsRight
  /\ part = "live" => LiveLog!PageIsRight

(* Tipsy!TipIsRight and StepIsRight: no timer of an earlier visit leaves a tip     *)
(* behind or takes that of a later visit away, and a tip comes with the last title,  *)
(* on the side where there is room. *)
TipIsRight ==
  [](part = "tip" => Tip!TipIsRight) /\ [][part = "tip" => Tip!StepIsRight]_everything

(* Trunk8!CutIsRight: the longest bite that fits is shown. *)
CutIsRight == \A side \in Sides : part = side => Cut(side)!CutIsRight

(* ResizePolling!PollingIsSound: one loop, as long as elements are watched. *)
PollingIsSound == \A b \in BOOLEAN : part = Loop(b) => Polling(b)!PollingIsSound

(* Ready!HandlersAreRight: each ready handler runs when the document is ready, and    *)
(* holds are counted.                                                          *)
HandlersAreRight == \A old \in BOOLEAN : part = Browser(old) => Start(old)!HandlersAreRight

(* Ajax!CountIsRight: a request is completed once and counted while it is under way,   *)
(* and the browser does not go on with one that is done.                            *)
CountIsRight == part = "request" => Request!CountIsRight
==============================================================================
