--------------------------------- MODULE Jsonp ---------------------------------
(***************************************************************************)
(* jQuery's jsonp requests.  An answer is a script that calls a function of the  *)
(* window by its name.  The name is generated, and used again by later requests,  *)
(* or it is given by the page, which may have a function of that name.           *)
(*                                                                         *)
(* An abort removes the script's element; the browser may still run a script it  *)
(* has begun to load.                                                       *)
(***************************************************************************)
EXTENDS Integers, Sequences, SequencesExt, FiniteSets

CONSTANTS Requests,
          Given,     \* requests with the name that the page gives
          Faulty     \* requests whose script may not call the function

JsonpAssumption ==
  /\ Requests \subseteq Nat \ {0} /\ IsFiniteSet(Requests)
  /\ Given \subseteq Requests /\ Faulty \subseteq Requests

(* Generated names are numbers from 1. *)
Names == 0..Cardinality(Requests)
PageName == 0

(* What the window has by a name: nothing, the page's function, or a request's. *)
Nothing == 0
PageFunction == -1
WindowBefore == [n \in Names |-> IF n = PageName THEN PageFunction ELSE Nothing]

VARIABLES
  window,       \* the functions, by name
  oldCallbacks, \* generated names that are free again
  nonce,        \* the next new name
  state,        \* of a request: "new", "loading", "done"
  name,         \* callbackName
  overwritten,  \* what the window had by the name
  response,     \* responseContainer: whose answer it holds, 0 for none
  result,       \* what the page is given: 0 for an error, or whose answer
  script        \* the browser's script: "none", "loading", "run"

vars == <<window, oldCallbacks, nonce, state, name, overwritten, response, result, script>>

TypeOK ==
  /\ window \in [Names -> Requests \cup {Nothing, PageFunction}]
  /\ oldCallbacks \in Seq(Names \ {PageName})
  /\ nonce \in 1..(Cardinality(Requests) + 1)
  /\ state \in [Requests -> {"new", "loading", "done"}]
  /\ name \in [Requests -> Names]
  /\ overwritten \in [Requests -> Requests \cup {Nothing, PageFunction}]
  /\ response \in [Requests -> Requests \cup {0}] /\ result \in [Requests -> Requests \cup {0}]
  /\ script \in [Requests -> {"none", "loading", "run"}]

Init ==
  /\ window = WindowBefore /\ oldCallbacks = <<>> /\ nonce = 1
  /\ state = [r \in Requests |-> "new"] /\ name = [r \in Requests |-> PageName]
  /\ overwritten = [r \in Requests |-> Nothing]
  /\ response = [r \in Requests |-> 0] /\ result = [r \in Requests |-> 0]
  /\ script = [r \in Requests |-> "none"]

(* Variant: a free name is looked at and stays free. *)
TakeNameKeeping ==
  IF oldCallbacks = <<>>
  THEN [name |-> nonce, old |-> oldCallbacks, nonce |-> nonce + 1]
  ELSE [name |-> Last(oldCallbacks), old |-> oldCallbacks, nonce |-> nonce]

(* jsonpCallback: the default generates a name. *)
TakeName ==
  IF oldCallbacks = <<>>
  THEN [name |-> nonce, old |-> oldCallbacks, nonce |-> nonce + 1]
  ELSE [name |-> Last(oldCallbacks), old |-> Front(oldCallbacks), nonce |-> nonce]

(* The prefilter installs the function, and the transport adds the script. *)
Request(r) ==
  LET taken == IF r \in Given
               THEN [name |-> PageName, old |-> oldCallbacks, nonce |-> nonce]
               ELSE TakeName
  IN  /\ state[r] = "new"
      /\ state' = [state EXCEPT ![r] = "loading"]
      /\ script' = [script EXCEPT ![r] = "loading"]
      /\ oldCallbacks' = taken.old /\ nonce' = taken.nonce
      /\ name' = [name EXCEPT ![r] = taken.name]
      /\ overwritten' = [overwritten EXCEPT ![r] = window[taken.name]]
      /\ window' = [window EXCEPT ![taken.name] = r]
      /\ UNCHANGED <<response, result>>

(* "Clean-up function (fires after converters)".  The function that was there    *)
(* before, if it was one, is called with the answer. *)
CleanUp(r, answer) ==
  LET before == overwritten[r]
  IN  /\ window' = [window EXCEPT ![name[r]] = before]
      /\ oldCallbacks' = IF r \in Given THEN oldCallbacks ELSE Append(oldCallbacks, name[r])
      /\ response' = [q \in Requests |->
           IF q = r THEN 0
           ELSE IF q = before /\ answer[r] # 0 /\ state[q] = "loading" THEN answer[r]
           ELSE answer[q]]

(* responseContainer after a script has called the function of its name *)
Called(r) ==
  LET q == window[name[r]]
  IN  IF q \in Requests THEN [response EXCEPT ![q] = r] ELSE response

(* The script has come.  Its onload follows at once: the answer is converted,    *)
(* which fails if the function was not called, and the request is done.  An       *)
(* aborted request has no onload any more. *)
Run(r, calls) ==
  LET answer == IF calls THEN Called(r) ELSE response
  IN  /\ script[r] = "loading"
      /\ ~calls => r \in Faulty
      /\ script' = [script EXCEPT ![r] = "run"]
      /\ IF state[r] = "done"
         THEN /\ response' = answer
              /\ UNCHANGED <<state, result, window, oldCallbacks>>
         ELSE /\ state' = [state EXCEPT ![r] = "done"]
              /\ result' = [result EXCEPT ![r] = answer[r]]
              /\ CleanUp(r, answer)
      /\ UNCHANGED <<nonce, name, overwritten>>

(* abort, or a timeout *)
Abort(r) ==
  /\ state[r] = "loading"
  /\ state' = [state EXCEPT ![r] = "done"]
  /\ CleanUp(r, response)
  /\ UNCHANGED <<nonce, name, overwritten, result, script>>

Next ==
  \E r \in Requests : Request(r) \/ Abort(r) \/ \E calls \in BOOLEAN : Run(r, calls)

Spec == Init /\ [][Next]_vars

(***************************************************************************)
(* Correctness.                                                            *)
(***************************************************************************)

Under == {r \in Requests : state[r] = "loading"}

(* Requests under way with a generated name have names of their own, and no name  *)
(* is free while it is used, or free twice. *)
NamesAreOwn ==
  /\ \A q, r \in Under \ Given : q # r => name[q] # name[r]
  /\ IsInjective(oldCallbacks)
  /\ \A r \in Under : name[r] \notin ToSet(oldCallbacks)

(* "Restore preexisting value": when no request is under way, the window is as    *)
(* it was before. *)
WindowRestored == Under = {} => window = WindowBefore

(* The page is given the answer to the request it has made, although scripts of   *)
(* aborted requests, which may have the same name, come late. *)
AnswerIsOwn == \A r \in Requests : result[r] \in {0, r}

(* Names and answers are those of the request: see the parts. *)
NamesAreRight == TypeOK /\ NamesAreOwn /\ WindowRestored /\ AnswerIsOwn

===============================================================================
