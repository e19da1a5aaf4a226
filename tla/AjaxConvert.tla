------------------------------ MODULE AjaxConvert ------------------------------
(***************************************************************************)
(* How jQuery gives the page an answer of the type it has asked for: the         *)
(* response that comes nearest to it, and a chain of converters.  A converter     *)
(* is a function, or TRUE where a value of one type will do for the other.  The   *)
(* page may add converters, so they are any that there can be, and may throw.  A   *)
(* transport may answer without a response, as the one for scripts does.        *)
(***************************************************************************)
EXTENDS Integers, Sequences, SequencesExt, FiniteSets

CONSTANTS Types,         \* of data
          MaxConverters, \* bound: converters
          MaxAsked       \* bound: length of dataTypes

ConvertAssumption ==
  /\ "*" \notin Types /\ "none" \notin Types /\ Types # {} /\ IsFiniteSet(Types)
  /\ MaxConverters \in Nat /\ MaxAsked \in Nat \ {0}

Pairs == {p \in (Types \cup {"*"}) \X Types : p[1] # p[2]}

(* What s.converters has for a pair. *)
Kinds == {"none", "true", "function"}

VARIABLES
  converters, \* [Pairs -> Kinds]
  dataTypes,  \* what is asked for, and then what is still to be converted to
  contentType, \* of the answer, "none" if it is no known one
  answered,   \* has the transport handed over an object of responses?
  responses,  \* the types it has a response for
  current,    \* the type just reached, "none" before the loop
  value,      \* history: the types the value may be taken for, none of undefined
  asked,      \* history: the last of the dataTypes that is not "*", or "*"
  alone,      \* history: whether it is the only one of the dataTypes
  fed,        \* history: whether every converter was given what it converts
  threw,      \* history: has a converter thrown?
  outcome     \* "working", "success", "parsererror", or "uncaught" with s.throws

given == <<converters, contentType, answered, responses, asked, alone>>
vars == <<given, dataTypes, current, value, fed, threw, outcome>>

TypeOK ==
  /\ converters \in [Pairs -> Kinds]
  /\ dataTypes \in Seq(Types \cup {"*"}) /\ Len(dataTypes) <= MaxAsked
  /\ current \in Types \cup {"*", "none"} /\ value \subseteq Types
  /\ asked \in Types \cup {"*"} /\ alone \in BOOLEAN /\ fed \in BOOLEAN
  /\ threw \in BOOLEAN /\ outcome \in {"working", "success", "parsererror", "uncaught"}

AllAuto(s) == \A i \in DOMAIN s : s[i] = "*"
LastAsked(s) ==
  IF AllAuto(s) THEN "*"
  ELSE s[CHOOSE i \in DOMAIN s : s[i] # "*" /\ \A j \in DOMAIN s : j > i => s[j] = "*"]

Init ==
  /\ \E S \in SUBSET Pairs :
       /\ Cardinality(S) <= MaxConverters
       /\ \E kind \in [S -> {"true", "function"}] :
            /\ \A p \in S : p[1] = "*" => kind[p] = "function"
            /\ converters = [p \in Pairs |-> IF p \in S THEN kind[p] ELSE "none"]
  /\ \E n \in 1..MaxAsked : dataTypes \in [1..n -> Types \cup {"*"}]
  /\ contentType \in {"none", CHOOSE t \in Types : TRUE}
  /\ answered \in BOOLEAN /\ responses \in SUBSET Types /\ (answered \/ responses = {})
  /\ current = "none" /\ value = {} /\ asked = LastAsked(dataTypes)
  /\ alone = (Len(dataTypes) = 1 /\ asked # "*")
  /\ fed = TRUE /\ threw = FALSE /\ outcome = "working"

Has(from, to) == <<from, to>> \in Pairs /\ converters[<<from, to>>] # "none"
Kind(from, to) == converters[<<from, to>>]

(***************************************************************************)
(* ajaxHandleResponses                                                     *)
(***************************************************************************)

(* dataTypes without what comes from the page as "*", and with the content type   *)
(* in its place if that is a known one. *)
Expected ==
  LET auto == IF AllAuto(dataTypes) THEN Len(dataTypes)
              ELSE (CHOOSE i \in DOMAIN dataTypes :
                      dataTypes[i] # "*" /\ \A j \in 1..(i - 1) : dataTypes[j] = "*") - 1
      rest == SubSeq(dataTypes, auto + 1, Len(dataTypes))
  IN  IF auto > 0 /\ contentType # "none" THEN <<contentType>> \o rest ELSE rest

(* The types the response is taken from, in the order of the transport's object. *)
FinalTypes(types) ==
  LET near == {t \in responses : types # <<>> /\ Has(t, types[1])}
  IN  IF types # <<>> /\ types[1] \in responses THEN {types[1]}
      ELSE IF near # {} THEN near ELSE responses

HandleResponses ==
  /\ current = "none" /\ outcome = "working" /\ responses # {}
  /\ \E final \in FinalTypes(Expected) :
       /\ current' = final /\ value' = {final}
       /\ dataTypes' = IF Expected # <<>> /\ Expected[1] = final THEN Tail(Expected) ELSE Expected
  /\ UNCHANGED <<given, fed, threw, outcome>>

(* Without a response, undefined is taken for the first of the dataTypes; if there is no    *)
(* object of responses either, these are as the page has given them.                      *)
HandleNoResponse ==
  LET types == IF answered THEN Expected ELSE dataTypes
  IN  /\ current = "none" /\ outcome = "working" /\ responses = {}
      /\ IF types = <<>> THEN outcome' = "success" /\ dataTypes' = <<>> /\ UNCHANGED current
         ELSE current' = Head(types) /\ dataTypes' = Tail(types) /\ UNCHANGED outcome
      /\ UNCHANGED <<given, value, fed, threw>>

(***************************************************************************)
(* ajaxConvert: one step of its loop.                                         *)
(***************************************************************************)

Direct(from, to) ==
  IF Has(from, to) THEN <<from, to>> ELSE IF Has("*", to) THEN <<"*", to>> ELSE <<>>

(* "seek a pair": the types by which the conversion goes in two steps *)
Between(from, to) == {t \in Types : Has(t, to) /\ Direct(from, t) # <<>>}

(* The value may be taken for these types too; undefined stays undefined. *)
AlsoOf(types) == IF value = {} THEN {} ELSE value \cup types

(* A converter's effect on the types the value may be taken for *)
Applied(p) == IF Kind(p[1], p[2]) = "true" THEN AlsoOf({p[2]}) ELSE {p[2]}

(* It may be given undefined if there was no response. *)
Feeds(p, v) ==
  Kind(p[1], p[2]) = "true" \/ p[1] = "*" \/ p[1] \in v \/ (v = {} /\ responses = {})

(* A function may throw: that is the end, be it caught or not. *)
MayThrow(kinds) ==
  /\ threw' \in BOOLEAN /\ (threw' => "function" \in kinds)
  /\ IF threw' THEN outcome' \in {"parsererror", "uncaught"} ELSE UNCHANGED outcome

NextType == current # "none" /\ outcome = "working" /\ UNCHANGED given

Finish ==
  /\ NextType /\ dataTypes = <<>>
  /\ outcome' = "success"
  /\ UNCHANGED <<dataTypes, current, value, fed, threw>>

(* There is nothing to convert to, or to convert from. *)
Skip ==
  /\ NextType /\ dataTypes # <<>>
  /\ Head(dataTypes) \in {"*", current} \/ current = "*"
  /\ current' = IF Head(dataTypes) = "*" THEN current ELSE Head(dataTypes)
  /\ dataTypes' = Tail(dataTypes)
  /\ UNCHANGED <<value, fed, threw, outcome>>

(* "There's only work to do if" both types are known and differ. *)
HasWork ==
  NextType /\ dataTypes # <<>> /\ Head(dataTypes) \notin {"*", current} /\ current # "*"

ConvertDirectly ==
  LET to == Head(dataTypes)
      p == Direct(current, to)
  IN  /\ HasWork /\ p # <<>>
      /\ value' = Applied(p) /\ fed' = (fed /\ Feeds(p, value))
      /\ current' = to /\ dataTypes' = Tail(dataTypes)
      /\ MayThrow({Kind(p[1], p[2])})

(* By way of the type t: "condense equivalence converters.  Otherwise, insert the           *)
(* intermediate" type *)
ConvertByPair(t) ==
  LET to == Head(dataTypes)
      p == Direct(current, t)
      first == Kind(p[1], p[2])
      second == Kind(t, to)
  IN  /\ HasWork /\ Direct(current, to) = <<>> /\ t \in Between(current, to)
      /\ IF first = "true"
         THEN /\ value' = IF second = "true" THEN AlsoOf({t, to}) ELSE {to}
              /\ fed' = (fed /\ Feeds(<<t, to>>, AlsoOf({t})))
         ELSE /\ value' = IF second = "true" THEN {t, to} ELSE {t}
              /\ fed' = (fed /\ Feeds(p, value))
      /\ IF first = "function" /\ second = "function"
         THEN current' = t /\ UNCHANGED dataTypes
         ELSE current' = to /\ dataTypes' = Tail(dataTypes)
      /\ MayThrow({first, second})

(* "No conversion from" one type to the next *)
Fail ==
  LET to == Head(dataTypes)
  IN  /\ HasWork /\ Direct(current, to) = <<>> /\ Between(current, to) = {}
      /\ outcome' = "parsererror"
      /\ UNCHANGED <<dataTypes, current, value, fed, threw>>

Next ==
  \/ HandleResponses \/ HandleNoResponse
  \/ Finish \/ Skip \/ ConvertDirectly \/ Fail
  \/ \E t \in Types : ConvertByPair(t)

Spec == Init /\ [][Next]_vars

(***************************************************************************)
(* Correctness.                                                            *)
(***************************************************************************)

(* A success gives the page a value of the last type that it has asked for, whatever     *)
(* way the converters have led; or undefined, if there was no response at all and no     *)
(* function has made a value of nothing.                                               *)
GivesWhatIsAsked ==
  outcome = "success" /\ asked # "*" => asked \in value \/ (responses = {} /\ value = {})

(* No converter is given a value of a type it does not convert. *)
FedRightly == fed

(* The page that asks for one type is refused it only if a converter throws, or if there    *)
(* is a response, but none in this type or in one that a converter leads from.            *)
NotRefused ==
  outcome = "parsererror" /\ alone =>
    \/ threw
    \/ responses # {} /\ \A t \in responses : t # asked /\ ~Has(t, asked)

(* The page gets the type it has asked for if there is a way to it and nothing throws. *)
ConversionIsRight == TypeOK /\ GivesWhatIsAsked /\ FedRightly /\ NotRefused

===============================================================================
