------------------------------ MODULE MCScripts ------------------------------
(***************************************************************************)
(* jQuery and the page's functions, for TLC: callback lists, deferreds, events,     *)
(* effects and the answers to requests, which all call functions that call        *)
(* them again.  They share no state, so each behaviour is one of a single         *)
(* component, which "part" names; the variables of the others are Idle.          *)
(***************************************************************************)
EXTENDS Integers, Sequences, TLC

CONSTANTS
  Functions, Data, MaxCalls, MaxFires,          \* of Callbacks
  EventTypes, Fns, Spaces, Binds, MaxOffs, MaxEvents,  \* of Events
  Elems, Methods, Duration, MaxEffects,         \* of Effects
  Types, MaxConverters, MaxAsked,               \* of AjaxConvert
  Requests, Given, Faulty                       \* of Jsonp

VARIABLES
  part,
  l, called, dead, rest, fired, begun, added, counted, plain, emptied,
  lists, settled, underway, remaining, wired, follows, extended, fires,
  events, attached, triggered, active, ons, offs, sent, ones,
  queue, hooked, stopper, delays, promised, timers, ticking, shown, height,
  clipped, fxshow, todo, calls,
  converters, dataTypes, contentType, answered, responses, current, value, asked, alone,
  fed, threw, outcome,
  window, oldCallbacks, nonce, state, name, overwritten, response, result, script

Idle == "idle"

ofList == <<l, called, dead, rest, fired, begun, added, counted, plain, emptied>>
ofFollow == <<lists, settled, underway, remaining, wired, follows, extended, fires>>
ofEvent == <<events, attached, triggered, active, ons, offs, sent, ones>>
ofEffect == <<queue, hooked, stopper, delays, promised, timers, ticking, shown,
              height, clipped, fxshow, todo, calls>>
ofConvert == <<converters, dataTypes, contentType, answered, responses, current, value,
               asked, alone, fed, threw, outcome>>
ofScript == <<window, oldCallbacks, nonce, state, name, overwritten, response,
              result, script>>

everything == <<part, ofList, ofFollow, ofEvent, ofEffect, ofConvert, ofScript>>

ListIdle ==
  /\ l = Idle /\ called = Idle /\ dead = Idle /\ rest = Idle /\ fired = Idle
  /\ begun = Idle /\ added = Idle /\ counted = Idle /\ plain = Idle
  /\ emptied = Idle

FollowIdle ==
  /\ lists = Idle /\ settled = Idle /\ underway = Idle /\ remaining = Idle
  /\ wired = Idle /\ follows = Idle /\ extended = Idle /\ fires = Idle

EventIdle ==
  /\ events = Idle /\ attached = Idle /\ triggered = Idle /\ active = Idle
  /\ ons = Idle /\ offs = Idle /\ sent = Idle /\ ones = Idle

EffectIdle ==
  /\ queue = Idle /\ hooked = Idle /\ stopper = Idle /\ delays = Idle
  /\ promised = Idle /\ timers = Idle /\ ticking = Idle /\ shown = Idle
  /\ height = Idle /\ clipped = Idle /\ fxshow = Idle /\ todo = Idle
  /\ calls = Idle

ConvertIdle ==
  /\ converters = Idle /\ dataTypes = Idle /\ contentType = Idle
  /\ answered = Idle /\ threw = Idle /\ responses = Idle /\ current = Idle /\ value = Idle /\ asked = Idle
  /\ alone = Idle /\ fed = Idle /\ outcome = Idle

ScriptIdle ==
  /\ window = Idle /\ oldCallbacks = Idle /\ nonce = Idle /\ state = Idle
  /\ name = Idle /\ overwritten = Idle /\ response = Idle /\ result = Idle
  /\ script = Idle

(* The functions are not told apart. *)
Symmetry == Permutations(Functions)

AllOptions == [once : BOOLEAN, memory : BOOLEAN, unique : BOOLEAN, stopOnFalse : BOOLEAN]

List == INSTANCE Callbacks WITH
  Fns <- Functions, Options <- AllOptions, MayThrow <- TRUE,
  asked <- fired, adds <- added, calls <- counted

Follow == INSTANCE Deferreds WITH
  Users <- {"u"}, MaxAdds <- 1, MaxFires <- 3, state <- settled,
  active <- underway, adds <- extended

Event(Namespaces, Nested, MaxBinds) == INSTANCE Events WITH Types <- EventTypes

Effect == INSTANCE Effects WITH Calls <- Methods, MaxCalls <- MaxEffects

Convert == INSTANCE AjaxConvert

Script == INSTANCE Jsonp

ASSUME Assumptions ==
  /\ List!OptionsAssumption /\ List!DataAssumption /\ Follow!BoundsAssumption
  /\ Event(Spaces, {}, Binds)!EventsAssumption
  /\ Event({}, {"trigger"}, Binds + 1)!EventsAssumption
  /\ Effect!EffectsAssumption /\ Convert!ConvertAssumption /\ Script!JsonpAssumption

(* The page makes one request by the name that it gives, and scripts call it.  It does   *)
(* not clear the queue of an element at which something is at work. *)
ASSUME PageAssumption ==
  /\ (\A q, r \in Given : q = r) /\ Faulty = {}
  /\ "clearQueue" \notin Methods /\ "stopAll" \notin Methods

Init ==
  \/ /\ part = "list" /\ List!Init
     /\ FollowIdle /\ EventIdle /\ EffectIdle /\ ConvertIdle /\ ScriptIdle
  \/ /\ part = "follow" /\ Follow!Init
     /\ ListIdle /\ EventIdle /\ EffectIdle /\ ConvertIdle /\ ScriptIdle
  \/ /\ \/ part = "event" /\ Event(Spaces, {}, Binds)!Init
        \/ part = "nestedevent" /\ Event({}, {"trigger"}, Binds + 1)!Init
     /\ ListIdle /\ FollowIdle /\ EffectIdle /\ ConvertIdle /\ ScriptIdle
  \/ /\ part = "effect" /\ Effect!Init
     /\ ListIdle /\ FollowIdle /\ EventIdle /\ ConvertIdle /\ ScriptIdle
  \/ /\ part = "convert" /\ Convert!Init
     /\ ListIdle /\ FollowIdle /\ EventIdle /\ EffectIdle /\ ScriptIdle
  \/ /\ part = "script" /\ Script!Init
     /\ ListIdle /\ FollowIdle /\ EventIdle /\ EffectIdle /\ ConvertIdle

(* Steps of a component. *)
OfList(A) ==
  /\ part = "list" /\ A
  /\ UNCHANGED <<part, ofFollow, ofEvent, ofEffect, ofConvert, ofScript>>
OfFollow(A) ==
  /\ part = "follow" /\ A
  /\ UNCHANGED <<part, ofList, ofEvent, ofEffect, ofConvert, ofScript>>
OfEvent(kind, A) ==
  /\ part = kind /\ A
  /\ UNCHANGED <<part, ofList, ofFollow, ofEffect, ofConvert, ofScript>>
OfEffect(A) ==
  /\ part = "effect" /\ A
  /\ UNCHANGED <<part, ofList, ofFollow, ofEvent, ofConvert, ofScript>>
OfConvert(A) ==
  /\ part = "convert" /\ A
  /\ UNCHANGED <<part, ofList, ofFollow, ofEvent, ofEffect, ofScript>>
OfScript(A) ==
  /\ part = "script" /\ A
  /\ UNCHANGED <<part, ofList, ofFollow, ofEvent, ofEffect, ofConvert>>

Next ==
  \/ OfList(List!Next)
  \/ OfFollow(Follow!Next)
  \/ OfEvent("event", Event(Spaces, {}, Binds)!Next)
  \/ OfEvent("nestedevent", Event({}, {"trigger"}, Binds + 1)!Next)
  \/ OfEffect(Effect!Next)
  \/ OfConvert(Convert!Next)
  \/ OfScript(Script!Next)

Spec == Init /\ [][Next]_everything

------------------------------------------------------------------------------
(* Callbacks!ListIsRight: a list calls whom it owes a call, once and in order,         *)
(* although the functions change the list while they are called.                  *)
ListIsRight == part = "list" => List!ListIsRight

(* Deferreds!DeferredsAreRight: what then and when make is settled as what it          *)
(* follows, and functions find the state they were added for.                     *)
DeferredsAreRight == part = "follow" => Follow!DeferredsAreRight

(* Events!EventsAreRight: listeners and delegates agree with the handlers, and a       *)
(* stopped event calls no handler of another element.                            *)
EventsAreRight ==
  /\ part = "event" => Event(Spaces, {}, Binds)!EventsAreRight
  /\ part = "nestedevent" => Event({}, {"trigger"}, Binds + 1)!EventsAreRight

(* Effects!EffectsAreRight: one animation of an element at a time, none forgotten, and  *)
(* the height of the element comes back.                                        *)
EffectsAreRight == part = "effect" => Effect!EffectsAreRight

(* AjaxConvert!ConversionIsRight and Jsonp!NamesAreRight: the page is given the answer   *)
(* to its request, in the type that it asked for (undefined without a response).        *)
AnswersAreRight ==
  /\ part = "convert" => Convert!ConversionIsRight
  /\ part = "script" => Script!NamesAreRight
==============================================================================
