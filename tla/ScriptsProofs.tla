----------------------------- MODULE ScriptsProofs -----------------------------
(***************************************************************************)
(* Proofs about jQuery and the functions of the page that it calls, for any     *)
(* values of the constants: about each component alone, and about the           *)
(* behaviours of MCScripts.                                                 *)
(***************************************************************************)
EXTENDS MCScripts, WellFoundedInduction, SequenceTheorems, FiniteSetTheorems, TLAPS

(***************************************************************************)
(* The names of jsonp requests.                                             *)
(***************************************************************************)

Made == {r \in Requests : state[r] # "new"}
Loading == {r \in Requests : state[r] = "loading"}
ScriptNames == 0..Cardinality(Requests)
BeforeScripts == [n \in ScriptNames |-> IF n = 0 THEN -1 ELSE 0]

ScriptTyped ==
  /\ window \in [ScriptNames -> Requests \cup {0, -1}]
  /\ oldCallbacks \in Seq(ScriptNames \ {0})
  /\ nonce \in 1..(Cardinality(Requests) + 1)
  /\ state \in [Requests -> {"new", "loading", "done"}]
  /\ name \in [Requests -> ScriptNames]
  /\ overwritten \in [Requests -> Requests \cup {0, -1}]
  /\ response \in [Requests -> Requests \cup {0}] /\ result \in [Requests -> Requests \cup {0}]
  /\ script \in [Requests -> {"none", "loading", "run"}]

(* A name is free, or it is that of a request under way, and none but the      *)
(* page's is that of two. *)
NamesInv ==
  /\ nonce <= Cardinality(Made) + 1
  /\ \A r \in Given : name[r] = 0
  /\ \A r \in Made \ Given : name[r] # 0 /\ name[r] < nonce
  /\ \A i \in 1..Len(oldCallbacks) : oldCallbacks[i] < nonce
  /\ \A i, j \in 1..Len(oldCallbacks) : oldCallbacks[i] = oldCallbacks[j] => i = j
  /\ \A r \in Loading, i \in 1..Len(oldCallbacks) : name[r] # oldCallbacks[i]
  /\ \A q, r \in Loading \ Given : q # r => name[q] # name[r]

(* The window has the function of a request under way by its name, and the     *)
(* request has kept what was there before. *)
WindowInv ==
  /\ \A r \in Loading : window[name[r]] = r /\ overwritten[r] = BeforeScripts[name[r]]
  /\ \A n \in ScriptNames :
       (\A r \in Loading : name[r] # n) => window[n] = BeforeScripts[n]

ScriptIInv ==
  /\ ScriptTyped /\ NamesInv /\ WindowInv
  /\ \A r \in Requests : state[r] = "new" => script[r] = "none"
  /\ Faulty = {} => \A r \in Requests : result[r] \in {0, r}

(* The sets of a module that is instantiated are those of this one. *)
LEMMA ScriptSets ==
  ASSUME NEW S
  PROVE  /\ Script!IsFiniteSet(S) <=> IsFiniteSet(S)
         /\ Script!Cardinality(S) = Cardinality(S)
<1>1. Script!IsFiniteSet(S) <=> IsFiniteSet(S)
  BY DEF Script!IsFiniteSet, IsFiniteSet
<1>2. Script!Cardinality(S) = Cardinality(S)
  BY DEF Script!Cardinality, Cardinality
<1>3. QED
  BY <1>1, <1>2

LEMMA ScriptConstants ==
  /\ Requests \subseteq Nat \ {0} /\ IsFiniteSet(Requests) /\ Given \subseteq Requests
  /\ Cardinality(Requests) \in Nat
<1>1. Requests \subseteq Nat \ {0} /\ IsFiniteSet(Requests) /\ Given \subseteq Requests
  BY Assumptions, ScriptSets DEF Script!JsonpAssumption
<1>2. QED
  BY <1>1, FS_CardinalityType

LEMMA ScriptInitInv ==
  ASSUME Script!Init
  PROVE  ScriptIInv
<1>1. ScriptTyped
  BY ScriptConstants, ScriptSets
     DEF Script!Init, ScriptTyped, Script!WindowBefore, Script!Names, Script!Nothing,
         Script!PageFunction, Script!PageName, ScriptNames
<1>2. Made = {} /\ Loading = {}
  BY DEF Script!Init, Made, Loading
<1>3. NamesInv
  BY <1>2, ScriptConstants, FS_EmptySet DEF NamesInv, Script!Init, Script!PageName
<1>4. WindowInv
  BY <1>2, ScriptSets DEF WindowInv, Script!Init, Script!WindowBefore, Script!Names, Script!Nothing,
              Script!PageFunction, Script!PageName, ScriptNames, BeforeScripts
<1>5. /\ \A r \in Requests : state[r] = "new" => script[r] = "none"
      /\ \A r \in Requests : result[r] \in {0, r}
  BY DEF Script!Init
<1>6. QED
  BY <1>1, <1>3, <1>4, <1>5 DEF ScriptIInv

LEMMA ScriptIInvSound ==
  ASSUME ScriptIInv
  PROVE  /\ Script!TypeOK /\ Script!NamesAreOwn
         /\ Script!WindowRestored
         /\ Faulty = {} => Script!AnswerIsOwn
<1>1. Script!TypeOK
  BY ScriptSets DEF ScriptIInv, ScriptTyped, Script!TypeOK, ScriptNames, Script!Names, Script!PageName,
         Script!Nothing, Script!PageFunction
<1>2. Script!NamesAreOwn
  <2>1. Script!Under = Loading
    BY DEF Script!Under, Loading
  <2>2. oldCallbacks \in Seq(ScriptNames) /\ DOMAIN oldCallbacks = 1..Len(oldCallbacks)
    BY DEF ScriptIInv, ScriptTyped
  <2>3. Script!IsInjective(oldCallbacks)
    BY <2>2 DEF ScriptIInv, NamesInv, Script!IsInjective
  <2>4. \A r \in Loading : name[r] \notin Script!ToSet(oldCallbacks)
    BY <2>2 DEF ScriptIInv, NamesInv, Script!ToSet
  <2>5. QED
    BY <2>1, <2>3, <2>4 DEF ScriptIInv, NamesInv, Script!NamesAreOwn
<1>3. Script!WindowRestored
  BY ScriptSets DEF ScriptIInv, ScriptTyped, WindowInv, Script!WindowRestored, Script!Under, Loading,
         BeforeScripts, Script!WindowBefore, ScriptNames, Script!Names, Script!PageName,
         Script!Nothing, Script!PageFunction
<1>4. QED
  BY <1>1, <1>2, <1>3 DEF ScriptIInv, Script!AnswerIsOwn

LEMMA FrontFacts ==
  ASSUME NEW U, NEW s \in Seq(U), s # <<>>
  PROVE  /\ SubSeq(s, 1, Len(s) - 1) \in Seq(U)
         /\ Len(SubSeq(s, 1, Len(s) - 1)) = Len(s) - 1
         /\ \A i \in 1..(Len(s) - 1) : SubSeq(s, 1, Len(s) - 1)[i] = s[i]
<1>1. PICK k \in Nat : Len(s) = k + 1
  <2>1. Len(s) \in Nat /\ Len(s) # 0
    OBVIOUS
  <2>2. Len(s) - 1 \in Nat /\ Len(s) = (Len(s) - 1) + 1
    BY <2>1
  <2>3. QED
    BY <2>2
<1>2. Len(s) - 1 = k /\ \A i \in 1..k : s[i] \in U
  BY <1>1
<1>3. /\ SubSeq(s, 1, k) \in Seq(U) /\ Len(SubSeq(s, 1, k)) = k
      /\ \A i \in 1..k : SubSeq(s, 1, k)[i] = s[i]
  BY <1>1, <1>2
<1>4. QED
  BY <1>2, <1>3

(* The name that a request takes is no other's, and no longer free. *)
LEMMA NameTaken ==
  ASSUME ScriptIInv, NEW r \in Requests, Script!Request(r)
  PROVE  /\ name'[r] \in ScriptNames /\ (r \in Given <=> name'[r] = 0)
         /\ nonce' \in Nat /\ nonce <= nonce' /\ nonce' <= nonce + 1 /\ name'[r] < nonce'
         /\ oldCallbacks' \in Seq(ScriptNames \ {0}) /\ Len(oldCallbacks') <= Len(oldCallbacks)
         /\ \A i \in 1..Len(oldCallbacks') :
              oldCallbacks'[i] = oldCallbacks[i] /\ oldCallbacks[i] # name'[r]
         /\ \A q \in Loading : name[q] # name'[r]
<1>1. /\ state[r] = "new" /\ r \notin Made
      /\ name'[r] = IF r \in Given THEN 0 ELSE Script!TakeName.name
      /\ oldCallbacks' = IF r \in Given THEN oldCallbacks ELSE Script!TakeName.old
      /\ nonce' = IF r \in Given THEN nonce ELSE Script!TakeName.nonce
  BY DEF Script!Request, Script!PageName, ScriptIInv, ScriptTyped, Made
<1>2. \A q \in Loading : q \in Made /\ q # r
  BY <1>1 DEF Loading, Made
<1>3. /\ nonce \in Nat \ {0} /\ oldCallbacks \in Seq(ScriptNames \ {0})
      /\ Cardinality(Requests) \in Nat
  BY ScriptConstants DEF ScriptIInv, ScriptTyped
<1>4. nonce <= Cardinality(Requests)
  <2>1. Made \subseteq Requests \ {r} /\ IsFiniteSet(Requests \ {r})
    BY <1>1, ScriptConstants, FS_RemoveElement DEF Made
  <2>2. /\ Cardinality(Requests \ {r}) = Cardinality(Requests) - 1
        /\ Cardinality(Made) <= Cardinality(Requests \ {r})
        /\ Cardinality(Made) \in Nat
    BY <2>1, ScriptConstants, FS_RemoveElement, FS_Subset, FS_CardinalityType
  <2>3. QED
    BY <1>3, <2>2 DEF ScriptIInv, NamesInv
<1>5. CASE r \in Given
  <2>1. \A q \in Loading : name[q] # 0
    BY <1>2, <1>5, PageAssumption DEF ScriptIInv, NamesInv
  <2>2. QED
    BY <1>1, <1>3, <1>5, <2>1 DEF ScriptNames
<1>6. CASE r \notin Given /\ oldCallbacks = <<>>
  <2>1. name'[r] = nonce /\ oldCallbacks' = <<>> /\ nonce' = nonce + 1
    BY <1>1, <1>6 DEF Script!TakeName
  <2>2. \A q \in Loading : name[q] # nonce
    BY <1>2, <1>3 DEF ScriptIInv, ScriptTyped, NamesInv, ScriptNames
  <2>3. QED
    BY <1>3, <1>4, <1>6, <2>1, <2>2 DEF ScriptNames
<1>7. CASE r \notin Given /\ oldCallbacks # <<>>
  <2>1. /\ Len(oldCallbacks) \in Nat \ {0} /\ name'[r] = oldCallbacks[Len(oldCallbacks)]
        /\ oldCallbacks' = SubSeq(oldCallbacks, 1, Len(oldCallbacks) - 1) /\ nonce' = nonce
    BY <1>1, <1>3, <1>7 DEF Script!TakeName, Script!Last, Script!Front
  <2>2. /\ oldCallbacks' \in Seq(ScriptNames \ {0})
        /\ Len(oldCallbacks') = Len(oldCallbacks) - 1
        /\ \A i \in 1..Len(oldCallbacks') : oldCallbacks'[i] = oldCallbacks[i]
    BY <1>3, <1>7, <2>1, FrontFacts
  <2>3. name'[r] \in ScriptNames \ {0} /\ name'[r] < nonce
    BY <1>3, <2>1 DEF ScriptIInv, NamesInv
  <2>4. \A i \in 1..Len(oldCallbacks') : oldCallbacks[i] # name'[r]
    BY <2>1, <2>2 DEF ScriptIInv, NamesInv
  <2>5. \A q \in Loading : name[q] # name'[r]
    BY <2>1 DEF ScriptIInv, NamesInv
  <2>6. QED
    BY <1>3, <1>7, <2>1, <2>2, <2>3, <2>4, <2>5
<1>8. QED
  BY <1>5, <1>6, <1>7

LEMMA ScriptRequestInv ==
  ASSUME ScriptIInv, NEW r \in Requests, Script!Request(r)
  PROVE  ScriptIInv'
<1>0. PICK n : n = name'[r]
  OBVIOUS
<1>1. /\ state[r] = "new" /\ state' = [state EXCEPT ![r] = "loading"]
      /\ script' = [script EXCEPT ![r] = "loading"] /\ name' = [name EXCEPT ![r] = n]
      /\ overwritten' = [overwritten EXCEPT ![r] = window[n]]
      /\ window' = [window EXCEPT ![n] = r] /\ UNCHANGED <<response, result>>
  BY <1>0 DEF Script!Request, ScriptIInv, ScriptTyped
<1>2. /\ n \in ScriptNames /\ (r \in Given <=> n = 0)
      /\ nonce' \in Nat /\ nonce <= nonce' /\ nonce' <= nonce + 1 /\ n < nonce'
      /\ oldCallbacks' \in Seq(ScriptNames \ {0}) /\ Len(oldCallbacks') <= Len(oldCallbacks)
      /\ \A i \in 1..Len(oldCallbacks') :
           oldCallbacks'[i] = oldCallbacks[i] /\ oldCallbacks[i] # n
      /\ \A q \in Loading : name[q] # n
  BY <1>0, NameTaken
<1>3. Loading' = Loading \cup {r} /\ Made' = Made \cup {r} /\ r \notin Made /\ r \notin Loading
  BY <1>1 DEF ScriptIInv, ScriptTyped, Loading, Made
<1>4. /\ Cardinality(Made') = Cardinality(Made) + 1 /\ Cardinality(Made) \in Nat
      /\ Cardinality(Made') <= Cardinality(Requests)
  <2>1. IsFiniteSet(Made) /\ Made' \subseteq Requests
    BY <1>3, ScriptConstants, FS_Subset DEF Made
  <2>2. QED
    BY <1>3, <2>1, ScriptConstants, FS_AddElement, FS_Subset, FS_CardinalityType
<1>5. nonce \in Nat \ {0} /\ nonce <= Cardinality(Made) + 1
      /\ oldCallbacks \in Seq(ScriptNames \ {0}) /\ Len(oldCallbacks) \in Nat
      /\ Len(oldCallbacks') \in Nat /\ Cardinality(Requests) \in Nat
  BY <1>2, ScriptConstants DEF ScriptIInv, ScriptTyped, NamesInv
<1>6. ScriptTyped'
  <2>1. nonce' \in 1..(Cardinality(Requests) + 1)
    BY <1>2, <1>4, <1>5
  <2>2. window[n] \in Requests \cup {0, -1}
    BY <1>2 DEF ScriptIInv, ScriptTyped
  <2>3. QED
    BY <1>1, <1>2, <2>1, <2>2 DEF ScriptIInv, ScriptTyped
<1>7. NamesInv'
  <2>1. \A q \in Requests : name'[q] = IF q = r THEN n ELSE name[q]
    BY <1>1 DEF ScriptIInv, ScriptTyped
  <2>2. \A q \in Requests : name[q] \in Nat
    BY DEF ScriptIInv, ScriptTyped, ScriptNames
  <2>3. nonce' <= Cardinality(Made') + 1
    BY <1>2, <1>4, <1>5
  <2>4. \A q \in Given : name'[q] = 0
    BY <1>2, <2>1, ScriptConstants DEF ScriptIInv, NamesInv
  <2>5. \A q \in Made' \ Given : name'[q] # 0 /\ name'[q] < nonce'
    BY <1>2, <1>3, <1>5, <2>1, <2>2 DEF ScriptIInv, NamesInv, Made
  <2>6. \A i \in 1..Len(oldCallbacks') : i \in 1..Len(oldCallbacks)
    BY <1>2, <1>5
  <2>7. \A i \in 1..Len(oldCallbacks) : oldCallbacks[i] \in Nat
    BY <1>5 DEF ScriptNames
  <2>8. \A i \in 1..Len(oldCallbacks') : oldCallbacks'[i] < nonce'
    BY <1>2, <1>5, <2>6, <2>7 DEF ScriptIInv, NamesInv
  <2>9. \A i, j \in 1..Len(oldCallbacks') : oldCallbacks'[i] = oldCallbacks'[j] => i = j
    BY <1>2, <2>6 DEF ScriptIInv, NamesInv
  <2>10. \A q \in Loading', i \in 1..Len(oldCallbacks') : name'[q] # oldCallbacks'[i]
    BY <1>2, <1>3, <2>1, <2>6 DEF ScriptIInv, NamesInv, Loading
  <2>11. \A p, q \in Loading' \ Given : p # q => name'[p] # name'[q]
    BY <1>2, <1>3, <2>1 DEF ScriptIInv, NamesInv, Loading
  <2>12. QED
    BY <2>3, <2>4, <2>5, <2>8, <2>9, <2>10, <2>11 DEF NamesInv
<1>8. WindowInv'
  <2>0. /\ name \in [Requests -> ScriptNames] /\ window \in [ScriptNames -> Requests \cup {0, -1}]
        /\ overwritten \in [Requests -> Requests \cup {0, -1}]
    BY DEF ScriptIInv, ScriptTyped
  <2>1. \A q \in Requests :
          /\ name'[q] = IF q = r THEN n ELSE name[q]
          /\ overwritten'[q] = IF q = r THEN window[n] ELSE overwritten[q]
          /\ name[q] \in ScriptNames
    BY <1>1, <2>0
  <2>2. \A m \in ScriptNames : window'[m] = IF m = n THEN r ELSE window[m]
    BY <1>1, <2>0
  <2>3. window[n] = BeforeScripts[n]
    BY <1>2 DEF ScriptIInv, WindowInv
  <2>4. \A q \in Loading' :
          window'[name'[q]] = q /\ overwritten'[q] = BeforeScripts[name'[q]]
    <3> SUFFICES ASSUME NEW q \in Loading'
                 PROVE  window'[name'[q]] = q /\ overwritten'[q] = BeforeScripts[name'[q]]
      OBVIOUS
    <3>1. CASE q = r
      BY <1>2, <2>1, <2>2, <2>3, <3>1
    <3>2. CASE q # r
      <4>1. q \in Loading /\ q \in Requests
        BY <1>3, <3>2 DEF Loading
      <4>2. window[name[q]] = q /\ overwritten[q] = BeforeScripts[name[q]] /\ name[q] # n
        BY <1>2, <4>1 DEF ScriptIInv, WindowInv
      <4>3. QED
        BY <2>1, <2>2, <3>2, <4>1, <4>2
    <3>3. QED
      BY <3>1, <3>2
  <2>5. \A m \in ScriptNames :
          (\A q \in Loading' : name'[q] # m) => window'[m] = BeforeScripts[m]
    BY <1>3, <2>1, <2>2 DEF ScriptIInv, WindowInv, Loading
  <2>6. QED
    BY <2>4, <2>5 DEF WindowInv, BeforeScripts, ScriptNames
<1>9. \A q \in Requests : state'[q] = "new" => script'[q] = "none"
  BY <1>1 DEF ScriptIInv, ScriptTyped
<1>10. Faulty = {} => \A q \in Requests : result'[q] \in {0, q}
  BY <1>1 DEF ScriptIInv
<1>11. QED
  BY <1>6, <1>7, <1>8, <1>9, <1>10 DEF ScriptIInv

(* A request that is done gives its name back, and the window what was there.     *)
(* "answer" is what the responses hold when it is cleaned up. *)
LEMMA CleanUpInv ==
  ASSUME ScriptIInv, NEW r \in Loading,
         NEW answer \in [Requests -> Requests \cup {0}], Script!CleanUp(r, answer),
         state' = [state EXCEPT ![r] = "done"], UNCHANGED <<nonce, name, overwritten>>
  PROVE  /\ NamesInv' /\ WindowInv'
         /\ window' \in [ScriptNames -> Requests \cup {0, -1}]
         /\ oldCallbacks' \in Seq(ScriptNames \ {0})
         /\ state' \in [Requests -> {"new", "loading", "done"}]
         /\ response' \in [Requests -> Requests \cup {0}]
<1>1. PICK n : n = name[r]
  OBVIOUS
<1>2. /\ window \in [ScriptNames -> Requests \cup {0, -1}]
      /\ oldCallbacks \in Seq(ScriptNames \ {0})
      /\ name \in [Requests -> ScriptNames] /\ r \in Requests /\ n \in ScriptNames
      /\ overwritten \in [Requests -> Requests \cup {0, -1}]
      /\ state \in [Requests -> {"new", "loading", "done"}]
      /\ Len(oldCallbacks) \in Nat
  BY <1>1 DEF ScriptIInv, ScriptTyped, Loading
<1>3. Loading' = Loading \ {r} /\ Made' = Made /\ r \in Made
  BY <1>2 DEF Loading, Made
<1>4. overwritten[r] = BeforeScripts[n]
  BY <1>1 DEF ScriptIInv, WindowInv
<1>5. window' = [window EXCEPT ![n] = BeforeScripts[n]]
  BY <1>1, <1>4 DEF Script!CleanUp
<1>6. response' \in [Requests -> Requests \cup {0}]
  BY <1>2 DEF Script!CleanUp
<1>7. r \in Given <=> n = 0
  BY <1>1, <1>3 DEF ScriptIInv, NamesInv
<1>8. \A q \in Loading' : name[q] # n
  <2> SUFFICES ASSUME NEW q \in Loading', name[q] = n
               PROVE  FALSE
    OBVIOUS
  <2>1. q \in Loading /\ q # r /\ q \in Made
    BY <1>3 DEF Loading, Made
  <2>2. CASE q \in Given
    BY <1>1, <2>1, <2>2, <1>7, PageAssumption DEF ScriptIInv, NamesInv
  <2>3. CASE q \notin Given
    BY <1>1, <1>7, <2>1, <2>3 DEF ScriptIInv, NamesInv
  <2>4. QED
    BY <2>2, <2>3
<1>9. /\ oldCallbacks' \in Seq(ScriptNames \ {0})
      /\ \A i \in 1..Len(oldCallbacks') :
           \/ i \in 1..Len(oldCallbacks) /\ oldCallbacks'[i] = oldCallbacks[i]
           \/ /\ i = Len(oldCallbacks) + 1 /\ r \notin Given /\ oldCallbacks'[i] = n
  <2>1. CASE r \in Given
    BY <1>2, <2>1 DEF Script!CleanUp
  <2>2. CASE r \notin Given
    <3>1. oldCallbacks' = Append(oldCallbacks, n) /\ n \in ScriptNames \ {0}
      BY <1>1, <1>2, <1>7, <2>2 DEF Script!CleanUp
    <3>2. QED
      BY <1>2, <2>2, <3>1
  <2>3. QED
    BY <2>1, <2>2
<1>10. NamesInv'
  <2>1. /\ nonce' <= Cardinality(Made') + 1 /\ \A q \in Given : name'[q] = 0
        /\ \A q \in Made' \ Given : name'[q] # 0 /\ name'[q] < nonce'
        /\ \A p, q \in Loading' \ Given : p # q => name'[p] # name'[q]
    BY <1>3 DEF ScriptIInv, NamesInv
  <2>2. r \notin Given => n < nonce
    BY <1>1, <1>3 DEF ScriptIInv, NamesInv
  <2>3. \A i \in 1..Len(oldCallbacks') : oldCallbacks'[i] < nonce'
    BY <1>9, <2>2 DEF ScriptIInv, NamesInv
  <2>4. \A i \in 1..Len(oldCallbacks) : oldCallbacks[i] # n
    BY <1>1 DEF ScriptIInv, NamesInv
  <2>5. \A i, j \in 1..Len(oldCallbacks') : oldCallbacks'[i] = oldCallbacks'[j] => i = j
    BY <1>9, <2>4 DEF ScriptIInv, NamesInv
  <2>6. \A q \in Loading', i \in 1..Len(oldCallbacks') : name'[q] # oldCallbacks'[i]
    BY <1>3, <1>8, <1>9 DEF ScriptIInv, NamesInv
  <2>7. QED
    BY <2>1, <2>3, <2>5, <2>6 DEF NamesInv
<1>11. WindowInv'
  <2>1. \A q \in Loading' : q \in Loading /\ name'[q] = name[q] /\ name[q] \in ScriptNames
    BY <1>2, <1>3 DEF Loading
  <2>2. \A m \in ScriptNames : window'[m] = IF m = n THEN BeforeScripts[n] ELSE window[m]
    BY <1>2, <1>5
  <2>3. \A q \in Loading' :
          window'[name'[q]] = q /\ overwritten'[q] = BeforeScripts[name'[q]]
    BY <1>8, <2>1, <2>2 DEF ScriptIInv, WindowInv
  <2>4. \A m \in ScriptNames :
          (\A q \in Loading' : name'[q] # m) => window'[m] = BeforeScripts[m]
    BY <1>1, <1>3, <2>2 DEF ScriptIInv, WindowInv
  <2>5. QED
    BY <2>3, <2>4 DEF WindowInv, BeforeScripts, ScriptNames
<1>12. QED
  BY <1>2, <1>5, <1>6, <1>9, <1>10, <1>11 DEF BeforeScripts, ScriptNames

LEMMA ScriptAbortInv ==
  ASSUME ScriptIInv, NEW r \in Requests, Script!Abort(r)
  PROVE  ScriptIInv'
<1>1. r \in Loading /\ response \in [Requests -> Requests \cup {0}]
  BY DEF Script!Abort, Loading, ScriptIInv, ScriptTyped
<1>2. /\ state' = [state EXCEPT ![r] = "done"] /\ Script!CleanUp(r, response)
      /\ UNCHANGED <<nonce, name, overwritten, result, script>>
  BY DEF Script!Abort
<1>3. ScriptTyped' /\ NamesInv' /\ WindowInv'
  BY <1>1, <1>2, CleanUpInv DEF ScriptIInv, ScriptTyped
<1>4. \A q \in Requests : state'[q] = "new" => script'[q] = "none"
  BY <1>2 DEF ScriptIInv, ScriptTyped
<1>5. QED
  BY <1>2, <1>3, <1>4 DEF ScriptIInv

LEMMA ScriptRunInv ==
  ASSUME ScriptIInv, NEW r \in Requests, NEW calling \in BOOLEAN, Script!Run(r, calling)
  PROVE  ScriptIInv'
<1> DEFINE answer == IF calling THEN Script!Called(r) ELSE response
<1>1. answer \in [Requests -> Requests \cup {0}]
  BY DEF Script!Called, ScriptIInv, ScriptTyped
<1>2. CASE state[r] = "done"
  <2>1. response' = answer
    BY <1>2 DEF Script!Run
  <2> HIDE DEF answer
  <2>2. /\ script' = [script EXCEPT ![r] = "run"]
        /\ UNCHANGED <<state, result, window, oldCallbacks, nonce, name, overwritten>>
    BY <1>2 DEF Script!Run
  <2>3. \A q \in Requests : state'[q] = "new" => script'[q] = "none"
    BY <1>2, <2>2 DEF ScriptIInv, ScriptTyped
  <2>4. ScriptTyped' /\ NamesInv' /\ WindowInv'
    BY <1>1, <2>1, <2>2
       DEF ScriptIInv, ScriptTyped, NamesInv, WindowInv, Made, Loading
  <2>5. QED
    BY <2>2, <2>3, <2>4 DEF ScriptIInv
<1>3. CASE state[r] # "done"
  <2>1. r \in Loading
    BY <1>3 DEF Script!Run, Loading, ScriptIInv, ScriptTyped
  <2>2. /\ Script!CleanUp(r, answer) /\ state' = [state EXCEPT ![r] = "done"]
        /\ script' = [script EXCEPT ![r] = "run"]
        /\ result' = [result EXCEPT ![r] = answer[r]]
        /\ UNCHANGED <<nonce, name, overwritten>>
    BY <1>3 DEF Script!Run
  <2>3. Faulty = {} => answer[r] = r
    <3>1. Faulty = {} => calling
      BY DEF Script!Run
    <3>2. window[name[r]] = r
      BY <2>1 DEF ScriptIInv, WindowInv
    <3>3. QED
      BY <3>1, <3>2 DEF Script!Called, ScriptIInv, ScriptTyped
  <2> HIDE DEF answer
  <2>4. ScriptTyped' /\ NamesInv' /\ WindowInv'
    BY <1>1, <2>1, <2>2, CleanUpInv DEF ScriptIInv, ScriptTyped
  <2>5. \A q \in Requests : state'[q] = "new" => script'[q] = "none"
    BY <2>2 DEF ScriptIInv, ScriptTyped
  <2>6. Faulty = {} => \A q \in Requests : result'[q] \in {0, q}
    BY <2>2, <2>3 DEF ScriptIInv, ScriptTyped
  <2>7. QED
    BY <2>4, <2>5, <2>6 DEF ScriptIInv
<1>4. QED
  BY <1>2, <1>3

LEMMA ScriptNextInv == ScriptIInv /\ Script!Next => ScriptIInv'
  BY ScriptRequestInv, ScriptAbortInv, ScriptRunInv DEF Script!Next

LEMMA ScriptStutter == ScriptIInv /\ UNCHANGED Script!vars => ScriptIInv'
  BY DEF ScriptIInv, ScriptTyped, NamesInv, WindowInv, Made, Loading, Script!vars

(* Jsonp alone: whatever number of requests there are and however they overlap, their *)
(* names are their own, the window is as it was before when all are done, and the      *)
(* page is given the answer to the request it has made, although scripts of aborted     *)
(* requests come late.                                                              *)
THEOREM ScriptsAlone == Script!Spec => []Script!NamesAreRight
<1>1. ScriptIInv => Script!NamesAreRight
  BY ScriptIInvSound, PageAssumption DEF Script!NamesAreRight
<1>2. QED
  BY <1>1, ScriptInitInv, ScriptNextInv, ScriptStutter, PTL DEF Script!Spec

(***************************************************************************)
(* The conversion of answers.                                               *)
(***************************************************************************)

(* The last type that a sequence asks for is a; "*" asks for none. *)
LastIs(s, a) ==
  \E i \in 1..Len(s) : s[i] = a /\ a # "*" /\ \A j \in 1..Len(s) : j > i => s[j] = "*"

ConvertTyped ==
  /\ converters \in [Convert!Pairs -> Convert!Kinds]
  /\ dataTypes \in Seq(Types \cup {"*"}) /\ Len(dataTypes) <= MaxAsked
  /\ contentType \in Types \cup {"none"} /\ responses \in SUBSET Types
  /\ current \in Types \cup {"*", "none"} /\ value \subseteq Types
  /\ asked \in Types \cup {"*"} /\ alone \in BOOLEAN /\ fed = TRUE /\ threw \in BOOLEAN
  /\ outcome \in {"working", "success", "parsererror", "uncaught"}

(* What the value is taken for: undefined for any type, if there was no response. *)
TakenFor == IF responses = {} /\ value = {} THEN Types ELSE value

(* The page will still be given the type that it asked for: that is the last of what  *)
(* is to be converted to, or nothing is and the value is taken for one of the type. *)
AskedInv ==
  asked # "*" =>
    \/ LastIs(dataTypes, asked)
    \/ Convert!AllAuto(dataTypes) /\ asked \in TakenFor

(* No response and no converter leads to the only type asked for. *)
Unreachable == responses # {} /\ \A t \in responses : t # asked /\ ~Convert!Has(t, asked)

(* There is one conversion to do at most when one type is asked for, and it starts     *)
(* from a response that can be converted, if there is one. *)
AloneInv ==
  alone /\ dataTypes # <<>> =>
    /\ dataTypes = <<asked>> /\ asked # "*"
    /\ current = "none" \/ Convert!Has(current, asked) \/ Unreachable

(* When the loop is over, the value is what was to be made, or something threw. *)
EndInv ==
  /\ outcome = "success" => dataTypes = <<>>
  /\ outcome = "parsererror" /\ alone => threw \/ Unreachable

ConvertIInv ==
  /\ ConvertTyped
  /\ outcome \in {"working", "success"} => AskedInv
  /\ outcome = "working" => AloneInv
  /\ current \notin {"none", "*"} => current \in TakenFor
  /\ current = "*" => responses = {} /\ value = {}
  /\ current = "none" /\ outcome = "working" =>
       dataTypes # <<>> /\ value = {} /\ (asked # "*" => LastIs(dataTypes, asked))
  /\ EndInv

LEMMA ConvertIInvSound ==
  ASSUME ConvertIInv
  PROVE  Convert!ConversionIsRight
<1>1. Convert!TypeOK
  BY DEF ConvertIInv, ConvertTyped, Convert!TypeOK
<1>2. Convert!GivesWhatIsAsked
  BY DEF ConvertIInv, EndInv, AskedInv, TakenFor, LastIs, Convert!GivesWhatIsAsked
<1>3. Convert!NotRefused
  BY DEF ConvertIInv, EndInv, Unreachable, Convert!NotRefused
<1>4. QED
  BY <1>1, <1>2, <1>3 DEF Convert!ConversionIsRight, Convert!FedRightly, ConvertIInv, ConvertTyped

LEMMA ConvertConstants ==
  /\ "*" \notin Types /\ "none" \notin Types /\ Types # {}
  /\ MaxConverters \in Nat /\ MaxAsked \in Nat \ {0}
  BY Assumptions DEF Convert!ConvertAssumption

LEMMA LeastNumber ==
  ASSUME NEW S \in SUBSET Nat, S # {}
  PROVE  \E e \in S : \A d \in S : e <= d
<1> DEFINE R == {p \in Nat \X Nat : p[1] < p[2]}
<1>1. IsWellFoundedOn(R, Nat)
  BY NatLessThanWellFounded DEF OpToRel
<1> HIDE DEF R
<1>2. PICK x \in S : \A y \in S : <<y, x>> \notin R
  BY <1>1, WFMin
<1>3. ASSUME NEW y \in S, y < x
      PROVE  FALSE
  <2>1. <<y, x>> \in R
    BY <1>3 DEF R
  <2>2. QED
    BY <1>2, <2>1
<1>4. QED
  BY <1>3

LEMMA GreatestNumber ==
  ASSUME NEW n \in Nat, NEW S \in SUBSET (1..n), S # {}
  PROVE  \E e \in S : \A d \in S : d <= e
<1> DEFINE T == {n - e : e \in S}
<1>1. T \in SUBSET Nat /\ T # {}
  OBVIOUS
<1>2. PICK m \in T : \A d \in T : m <= d
  BY <1>1, LeastNumber
<1>3. PICK e \in S : m = n - e
  OBVIOUS
<1>4. ASSUME NEW d \in S
      PROVE  d <= e
  <2>1. n - d \in T
    OBVIOUS
  <2>2. n - e <= n - d
    BY <1>2, <1>3, <2>1
  <2>3. QED
    BY <2>2
<1>5. QED
  BY <1>4

(* What LastAsked gives. *)
LEMMA LastAskedIs ==
  ASSUME NEW s \in Seq(Types \cup {"*"}), Convert!LastAsked(s) # "*"
  PROVE  LastIs(s, Convert!LastAsked(s)) /\ Convert!LastAsked(s) \in Types
<1> DEFINE Candidate(i) == s[i] # "*" /\ \A j \in DOMAIN s : j > i => s[j] = "*"
           c == CHOOSE i \in DOMAIN s : Candidate(i)
           S == {i \in 1..Len(s) : s[i] # "*"}
<1>1. DOMAIN s = 1..Len(s) /\ Len(s) \in Nat
  OBVIOUS
<1>2. ~Convert!AllAuto(s) /\ Convert!LastAsked(s) = s[c]
  BY DEF Convert!LastAsked
<1>3. S # {}
  BY <1>1, <1>2 DEF Convert!AllAuto
<1>4. PICK e \in S : \A d \in S : d <= e
  BY <1>1, <1>3, GreatestNumber
<1>5. e \in DOMAIN s /\ Candidate(e)
  BY <1>1, <1>4
<1>6. c \in DOMAIN s /\ Candidate(c)
  BY <1>5
<1> HIDE DEF c
<1>7. QED
  BY <1>1, <1>2, <1>6 DEF LastIs

LEMMA TailFacts ==
  ASSUME NEW U, NEW s \in Seq(U), s # <<>>
  PROVE  /\ Tail(s) \in Seq(U) /\ Len(Tail(s)) = Len(s) - 1 /\ Head(s) = s[1] /\ Head(s) \in U
         /\ \A i \in 1..(Len(s) - 1) : Tail(s)[i] = s[i + 1]
         /\ Len(s) \in Nat \ {0}
  OBVIOUS

(* Without its first, a sequence asks for the same, or for nothing any more. *)
LEMMA LastOfTail ==
  ASSUME NEW s \in Seq(Types \cup {"*"}), s # <<>>, NEW a, LastIs(s, a)
  PROVE  LastIs(Tail(s), a) \/ (Convert!AllAuto(Tail(s)) /\ a = Head(s))
<1>0. PICK u : u = Tail(s)
  OBVIOUS
<1>1. /\ Len(u) = Len(s) - 1 /\ Head(s) = s[1] /\ DOMAIN u = 1..Len(u)
      /\ \A i \in 1..(Len(s) - 1) : u[i] = s[i + 1]
      /\ Len(s) \in Nat \ {0}
  BY <1>0, TailFacts
<1>2. PICK i \in 1..Len(s) : s[i] = a /\ a # "*" /\ \A j \in 1..Len(s) : j > i => s[j] = "*"
  BY DEF LastIs
<1>3. CASE i = 1
  <2>1. Convert!AllAuto(u) /\ a = Head(s)
    BY <1>1, <1>2, <1>3 DEF Convert!AllAuto
  <2>2. QED
    BY <1>0, <2>1
<1>4. CASE i # 1
  <2>1. PICK k : k = i - 1
    OBVIOUS
  <2>2. k \in 1..Len(u) /\ k + 1 = i
    BY <1>1, <1>4, <2>1
  <2>3. u[k] = a /\ \A j \in 1..Len(u) : j > k => u[j] = "*"
    BY <1>1, <1>2, <2>2
  <2>4. LastIs(u, a)
    BY <1>2, <2>2, <2>3 DEF LastIs
  <2>5. QED
    BY <1>0, <2>4
<1>5. QED
  BY <1>3, <1>4

LEMMA ConvertInitInv ==
  ASSUME Convert!Init
  PROVE  ConvertIInv
<1>1. PICK n \in 1..MaxAsked : dataTypes \in [1..n -> Types \cup {"*"}]
  BY DEF Convert!Init
<1>2. dataTypes \in Seq(Types \cup {"*"}) /\ Len(dataTypes) = n
  BY <1>1, ConvertConstants
<1>3. asked = Convert!LastAsked(dataTypes)
  BY DEF Convert!Init
<1>4. asked # "*" => LastIs(dataTypes, asked) /\ asked \in Types
  BY <1>2, <1>3, LastAskedIs
<1>5. converters \in [Convert!Pairs -> Convert!Kinds]
  BY DEF Convert!Init, Convert!Kinds
<1>6. contentType \in Types \cup {"none"}
  BY ConvertConstants DEF Convert!Init
<1>7. ConvertTyped
  <2>1. /\ responses \subseteq Types /\ alone \in BOOLEAN
        /\ current = "none" /\ value = {} /\ fed = TRUE /\ threw = FALSE /\ outcome = "working"
    BY DEF Convert!Init
  <2>2. Len(dataTypes) <= MaxAsked
    BY <1>1, <1>2, ConvertConstants
  <2>3. QED
    BY <1>2, <1>4, <1>5, <1>6, <2>1, <2>2 DEF ConvertTyped
<1>8. alone => dataTypes = <<asked>> /\ asked # "*"
  <2>1. ASSUME alone
        PROVE  dataTypes = <<asked>> /\ asked # "*"
    <3>1. Len(dataTypes) = 1 /\ asked # "*"
      BY <2>1 DEF Convert!Init
    <3>2. dataTypes[1] = asked
      BY <1>4, <3>1 DEF LastIs
    <3>3. QED
      BY <1>2, <3>1, <3>2
  <2>2. QED
    BY <2>1
<1>9. QED
  BY <1>1, <1>2, <1>4, <1>7, <1>8, ConvertConstants
     DEF ConvertIInv, AskedInv, AloneInv, EndInv, Convert!Init

LEMMA OnlyElement ==
  ASSUME NEW U, NEW s \in Seq(U), Len(s) = 1
  PROVE  s = <<s[1]>>
  OBVIOUS

LEMMA SuffixFacts ==
  ASSUME NEW U, NEW s \in Seq(U), NEW k \in 0..Len(s)
  PROVE  /\ SubSeq(s, k + 1, Len(s)) \in Seq(U) /\ Len(SubSeq(s, k + 1, Len(s))) = Len(s) - k
         /\ \A i \in 1..(Len(s) - k) : SubSeq(s, k + 1, Len(s))[i] = s[i + k]
<1>1. Len(s) \in Nat /\ \A i \in (k + 1)..Len(s) : s[i] \in U
  OBVIOUS
<1>2. PICK m, n : m = k + 1 /\ n = Len(s)
  OBVIOUS
<1>3. m \in Int /\ n \in Int /\ \A i \in m..n : s[i] \in U
  BY <1>1, <1>2
<1>4. /\ SubSeq(s, m, n) \in Seq(U)
      /\ Len(SubSeq(s, m, n)) = IF m <= n THEN n - m + 1 ELSE 0
      /\ \A i \in 1..(n - m + 1) : SubSeq(s, m, n)[i] = s[m + i - 1]
  BY <1>3, SubSeqProperties
<1>5. n - m + 1 = n - k /\ (m <= n <=> k # n) /\ k <= n
  BY <1>1, <1>2
<1>6. \A i \in 1..(n - k) : m + i - 1 = i + k
  BY <1>1, <1>2
<1>7. QED
  BY <1>1, <1>2, <1>4, <1>5, <1>6

(* What ajaxHandleResponses makes of dataTypes asks for the same at its end. *)
LEMMA ExpectedFacts ==
  ASSUME ConvertIInv, current = "none", outcome = "working"
  PROVE  /\ Convert!Expected \in Seq(Types \cup {"*"}) /\ Len(Convert!Expected) <= MaxAsked
         /\ asked # "*" => LastIs(Convert!Expected, asked)
         /\ alone => Convert!Expected = <<asked>> /\ asked # "*"
<1> DEFINE First(i) == dataTypes[i] # "*" /\ \A j \in 1..(i - 1) : dataTypes[j] = "*"
           S == {i \in 1..Len(dataTypes) : dataTypes[i] # "*"}
           k == IF Convert!AllAuto(dataTypes) THEN Len(dataTypes)
                ELSE (CHOOSE i \in DOMAIN dataTypes : First(i)) - 1
<1>1. /\ dataTypes \in Seq(Types \cup {"*"}) /\ Len(dataTypes) <= MaxAsked /\ dataTypes # <<>>
      /\ DOMAIN dataTypes = 1..Len(dataTypes) /\ Len(dataTypes) \in Nat \ {0}
      /\ MaxAsked \in Nat
  BY ConvertConstants DEF ConvertIInv, ConvertTyped
<1>3. k \in 0..Len(dataTypes) /\ \A j \in 1..k : dataTypes[j] = "*"
  <2>1. CASE Convert!AllAuto(dataTypes)
    BY <1>1, <2>1 DEF Convert!AllAuto
  <2>2. CASE ~Convert!AllAuto(dataTypes)
    <3>1. S # {} /\ S \in SUBSET Nat
      BY <1>1, <2>2 DEF Convert!AllAuto
    <3>2. PICK e \in S : \A d \in S : e <= d
      BY <3>1, LeastNumber
    <3>3. e \in DOMAIN dataTypes /\ First(e)
      BY <1>1, <3>2
    <3> DEFINE c == CHOOSE i \in DOMAIN dataTypes : First(i)
    <3>4. c \in DOMAIN dataTypes /\ First(c) /\ k = c - 1
      BY <2>2, <3>3
    <3> HIDE DEF c
    <3>5. QED
      BY <1>1, <3>4
  <2>3. QED
    BY <2>1, <2>2
<1> DEFINE u == SubSeq(dataTypes, k + 1, Len(dataTypes))
<1>4. /\ Convert!Expected = IF k > 0 /\ contentType # "none" THEN <<contentType>> \o u ELSE u
  BY DEF Convert!Expected
<1> HIDE DEF k
<1>5. /\ u \in Seq(Types \cup {"*"}) /\ Len(u) = Len(dataTypes) - k
      /\ \A i \in 1..Len(u) : u[i] = dataTypes[i + k]
  BY <1>1, <1>3, SuffixFacts
<1> HIDE DEF u
<1>7. asked # "*" => LastIs(u, asked)
  <2> SUFFICES ASSUME asked # "*"
               PROVE  LastIs(u, asked)
    OBVIOUS
  <2>1. PICK i \in 1..Len(dataTypes) :
          dataTypes[i] = asked /\ \A j \in 1..Len(dataTypes) : j > i => dataTypes[j] = "*"
    BY DEF ConvertIInv, LastIs
  <2>2. i > k
    BY <1>1, <1>3, <2>1
  <2>3. i - k \in 1..Len(u) /\ (i - k) + k = i
    BY <1>1, <1>3, <1>5, <2>1, <2>2
  <2>4. u[i - k] = asked
    BY <1>5, <2>1, <2>3
  <2>5. \A j \in 1..Len(u) : j > i - k => u[j] = "*"
    BY <1>1, <1>3, <1>5, <2>1
  <2>6. QED
    BY <2>3, <2>4, <2>5 DEF LastIs
<1>8. CASE k > 0 /\ contentType # "none"
  <2>1. /\ Convert!Expected = <<contentType>> \o u /\ contentType \in Types
        /\ Len(u) \in Nat
    BY <1>4, <1>5, <1>8 DEF ConvertIInv, ConvertTyped
  <2>2. /\ Convert!Expected \in Seq(Types \cup {"*"}) /\ Len(Convert!Expected) = Len(u) + 1
        /\ \A i \in 1..Len(u) : Convert!Expected[i + 1] = u[i]
        /\ \A i \in 2..(Len(u) + 1) : Convert!Expected[i] = u[i - 1]
    BY <1>5, <2>1
  <2>3. asked # "*" => LastIs(Convert!Expected, asked)
    <3> SUFFICES ASSUME asked # "*"
                 PROVE  LastIs(Convert!Expected, asked)
      OBVIOUS
    <3>1. PICK i \in 1..Len(u) : u[i] = asked /\ \A j \in 1..Len(u) : j > i => u[j] = "*"
      BY <1>7 DEF LastIs
    <3>2. i + 1 \in 1..Len(Convert!Expected) /\ Convert!Expected[i + 1] = asked
      BY <2>1, <2>2, <3>1
    <3>3. ASSUME NEW j \in 1..Len(Convert!Expected), j > i + 1
          PROVE  Convert!Expected[j] = "*"
      <4>1. j \in 2..(Len(u) + 1) /\ j - 1 \in 1..Len(u) /\ j - 1 > i
        BY <2>1, <2>2, <3>3
      <4>2. QED
        BY <2>2, <3>1, <4>1
    <3>4. QED
      BY <3>2, <3>3 DEF LastIs
  <2>4. ~alone
    BY <1>1, <1>3, <1>8 DEF ConvertIInv, AloneInv
  <2>5. QED
    BY <1>1, <1>3, <1>5, <1>8, <2>1, <2>2, <2>3, <2>4
<1>9. CASE ~(k > 0 /\ contentType # "none")
  <2>1. Convert!Expected = u
    BY <1>4, <1>9
  <2>2. ASSUME alone
        PROVE  u = <<asked>> /\ asked # "*"
    <3>1. dataTypes = <<asked>> /\ asked # "*"
      BY <1>1, <2>2 DEF ConvertIInv, AloneInv
    <3>2. k = 0
      BY <1>1, <1>3, <3>1
    <3>3. Len(u) = 1 /\ u[1] = asked
      BY <1>5, <3>1, <3>2
    <3>4. u = <<u[1]>>
      BY <1>5, <3>3, OnlyElement
    <3>5. QED
      BY <3>1, <3>3, <3>4
  <2>3. QED
    BY <1>1, <1>3, <1>5, <1>7, <2>1, <2>2
<1>10. QED
  BY <1>8, <1>9

(* What is left to convert to, when the first has been reached. *)
LEMMA TailInv ==
  ASSUME NEW s \in Seq(Types \cup {"*"}), s # <<>>, Len(s) <= MaxAsked,
         NEW V \in SUBSET Types, Head(s) = "*" \/ Head(s) \in V,
         NEW W \in SUBSET Types, Head(s) = "*" => W \subseteq V,
         asked # "*" => LastIs(s, asked) \/ (Convert!AllAuto(s) /\ asked \in W)
  PROVE  /\ Tail(s) \in Seq(Types \cup {"*"}) /\ Len(Tail(s)) <= MaxAsked
         /\ asked # "*" => LastIs(Tail(s), asked) \/ (Convert!AllAuto(Tail(s)) /\ asked \in V)
         /\ s = <<asked>> => Tail(s) = <<>>
<1>1. /\ Tail(s) \in Seq(Types \cup {"*"}) /\ Len(Tail(s)) = Len(s) - 1 /\ Head(s) = s[1]
      /\ \A i \in 1..(Len(s) - 1) : Tail(s)[i] = s[i + 1]
      /\ Len(s) \in Nat \ {0} /\ MaxAsked \in Nat
  BY TailFacts, ConvertConstants
<1>2. ASSUME asked # "*"
      PROVE  LastIs(Tail(s), asked) \/ (Convert!AllAuto(Tail(s)) /\ asked \in V)
  <2>1. CASE LastIs(s, asked)
    BY <1>2, <2>1, LastOfTail
  <2>2. CASE Convert!AllAuto(s) /\ asked \in W
    <3>1. Head(s) = "*"
      BY <1>1, <2>2 DEF Convert!AllAuto
    <3>2. PICK u : u = Tail(s)
      OBVIOUS
    <3>3. DOMAIN u = 1..(Len(s) - 1) /\ \A i \in 1..(Len(s) - 1) : u[i] = s[i + 1]
      BY <1>1, <3>2
    <3>4. Convert!AllAuto(u)
      BY <1>1, <2>2, <3>3 DEF Convert!AllAuto
    <3>5. QED
      BY <2>2, <3>1, <3>2, <3>4
  <2>3. QED
    BY <1>2, <2>1, <2>2
<1>3. s = <<asked>> => Tail(s) = <<>>
  OBVIOUS
<1>4. QED
  BY <1>1, <1>2, <1>3

LEMMA HandleResponsesInv ==
  ASSUME ConvertIInv, Convert!HandleResponses
  PROVE  ConvertIInv'
<1>1. PICK final \in Convert!FinalTypes(Convert!Expected) :
        /\ current' = final /\ value' = {final}
        /\ dataTypes' = IF Convert!Expected # <<>> /\ Convert!Expected[1] = final
                        THEN Tail(Convert!Expected) ELSE Convert!Expected
  BY DEF Convert!HandleResponses
<1>2. /\ current = "none" /\ outcome = "working" /\ value = {} /\ responses # {}
      /\ UNCHANGED <<converters, contentType, responses, asked, alone, fed, threw, outcome>>
  BY DEF Convert!HandleResponses, Convert!given, ConvertIInv
<1>3. PICK u : u = Convert!Expected
  OBVIOUS
<1>4. /\ u \in Seq(Types \cup {"*"}) /\ Len(u) <= MaxAsked
      /\ asked # "*" => LastIs(u, asked)
      /\ alone => u = <<asked>> /\ asked # "*"
  BY <1>2, <1>3, ExpectedFacts
<1>5. /\ final \in Convert!FinalTypes(u) /\ final \in responses /\ final \in Types
      /\ dataTypes' = IF u # <<>> /\ u[1] = final THEN Tail(u) ELSE u
  <2>1. final \in responses
    BY <1>1 DEF Convert!FinalTypes
  <2>2. QED
    BY <1>1, <1>3, <2>1 DEF ConvertIInv, ConvertTyped
<1>6. CASE u # <<>> /\ u[1] = final
  <2>1. dataTypes' = Tail(u) /\ Head(u) = final
    BY <1>4, <1>5, <1>6
  <2>2. /\ Tail(u) \in Seq(Types \cup {"*"}) /\ Len(Tail(u)) <= MaxAsked
        /\ asked # "*" => LastIs(Tail(u), asked) \/ (Convert!AllAuto(Tail(u)) /\ asked \in {final})
        /\ u = <<asked>> => Tail(u) = <<>>
    BY <1>4, <1>5, <1>6, <2>1, ConvertConstants, TailInv
  <2>3. ConvertTyped'
    BY <1>1, <1>2, <1>5, <2>1, <2>2 DEF ConvertIInv, ConvertTyped
  <2>4. AskedInv'
    BY <1>1, <1>2, <2>1, <2>2 DEF AskedInv, TakenFor, LastIs, Convert!AllAuto
  <2>5. AloneInv'
    BY <1>2, <1>4, <2>1, <2>2 DEF AloneInv
  <2>6. QED
    BY <1>1, <1>2, <1>5, <2>3, <2>4, <2>5, ConvertConstants
       DEF ConvertIInv, EndInv, TakenFor
<1>7. CASE ~(u # <<>> /\ u[1] = final)
  <2>1. dataTypes' = u
    BY <1>5, <1>7
  <2>2. ConvertTyped'
    BY <1>1, <1>2, <1>4, <1>5, <2>1 DEF ConvertIInv, ConvertTyped
  <2>3. AskedInv'
    BY <1>2, <1>4, <2>1 DEF AskedInv, TakenFor, LastIs, Convert!AllAuto
  <2>4. ASSUME alone
        PROVE  Convert!Has(final, asked) \/ Unreachable
    <3>0. <<asked>> # <<>> /\ <<asked>>[1] = asked
      OBVIOUS
    <3>1. u = <<asked>> /\ u # <<>> /\ u[1] = asked
      BY <1>4, <2>4, <3>0
    <3>2. asked \notin responses
      BY <1>5, <1>7, <3>1 DEF Convert!FinalTypes
    <3>3. CASE \E t \in responses : Convert!Has(t, asked)
      <4>1. /\ {t \in responses : u # <<>> /\ Convert!Has(t, u[1])} # {}
            /\ \A t \in {t \in responses : u # <<>> /\ Convert!Has(t, u[1])} : Convert!Has(t, asked)
        BY <3>1, <3>3
      <4>2. final \in {t \in responses : u # <<>> /\ Convert!Has(t, u[1])}
        BY <1>5, <3>1, <3>2, <4>1 DEF Convert!FinalTypes
      <4>3. QED
        BY <4>1, <4>2
    <3>4. CASE ~\E t \in responses : Convert!Has(t, asked)
      BY <1>2, <3>2, <3>4 DEF Unreachable
    <3>5. QED
      BY <3>3, <3>4
  <2>5. AloneInv'
    BY <1>1, <1>2, <1>4, <2>1, <2>4 DEF AloneInv, Unreachable, Convert!Has
  <2>6. QED
    BY <1>1, <1>2, <1>5, <2>2, <2>3, <2>5, ConvertConstants
       DEF ConvertIInv, EndInv, TakenFor
<1>8. QED
  BY <1>6, <1>7

(* Without a response nothing has to be made of undefined, so that it is taken for the    *)
(* only type that is asked for. *)
LEMMA HandleNoResponseInv ==
  ASSUME ConvertIInv, Convert!HandleNoResponse
  PROVE  ConvertIInv'
<1>1. PICK types : types = IF answered THEN Convert!Expected ELSE dataTypes
  OBVIOUS
<1>2. /\ current = "none" /\ outcome = "working" /\ value = {} /\ responses = {}
      /\ IF types = <<>>
         THEN outcome' = "success" /\ dataTypes' = <<>> /\ UNCHANGED current
         ELSE current' = Head(types) /\ dataTypes' = Tail(types) /\ UNCHANGED outcome
      /\ UNCHANGED <<converters, contentType, responses, asked, alone, fed, threw, value>>
  BY <1>1 DEF Convert!HandleNoResponse, Convert!given, ConvertIInv
<1>3. /\ types \in Seq(Types \cup {"*"}) /\ Len(types) <= MaxAsked
      /\ asked # "*" => LastIs(types, asked)
      /\ alone => types = <<asked>> /\ asked # "*"
  <2>1. CASE answered
    <3>1. types = Convert!Expected
      BY <1>1, <2>1
    <3>2. /\ Convert!Expected \in Seq(Types \cup {"*"}) /\ Len(Convert!Expected) <= MaxAsked
          /\ asked # "*" => LastIs(Convert!Expected, asked)
          /\ alone => Convert!Expected = <<asked>> /\ asked # "*"
      BY <1>2, ExpectedFacts
    <3>3. QED
      BY <3>1, <3>2
  <2>2. CASE ~answered
    <3>1. types = dataTypes /\ dataTypes # <<>>
      BY <1>1, <1>2, <2>2 DEF ConvertIInv
    <3>2. QED
      BY <1>2, <3>1 DEF ConvertIInv, ConvertTyped, AloneInv
  <2>3. QED
    BY <2>1, <2>2
<1>4. CASE types = <<>>
  <2>1. ConvertTyped'
    BY <1>2, <1>4, ConvertConstants DEF ConvertIInv, ConvertTyped
  <2>2. AskedInv' /\ AloneInv'
    BY <1>2, <1>3, <1>4 DEF AskedInv, AloneInv, LastIs
  <2>3. QED
    BY <1>2, <1>4, <2>1, <2>2 DEF ConvertIInv, EndInv
<1>5. CASE types # <<>>
  <2>1. /\ Tail(types) \in Seq(Types \cup {"*"}) /\ Len(Tail(types)) <= MaxAsked
        /\ asked # "*" => \/ LastIs(Tail(types), asked)
                          \/ Convert!AllAuto(Tail(types)) /\ asked \in Types
        /\ types = <<asked>> => Tail(types) = <<>>
        /\ Head(types) \in Types \cup {"*"}
    BY <1>3, <1>5, TailFacts, TailInv
  <2>2. TakenFor' = Types
    BY <1>2 DEF TakenFor
  <2>3. ConvertTyped'
    BY <1>2, <1>5, <2>1 DEF ConvertIInv, ConvertTyped
  <2>4. AskedInv'
    BY <1>2, <1>5, <2>1, <2>2 DEF AskedInv, LastIs, Convert!AllAuto
  <2>5. AloneInv'
    BY <1>2, <1>3, <1>5, <2>1 DEF AloneInv
  <2>6. QED
    BY <1>2, <1>5, <2>1, <2>2, <2>3, <2>4, <2>5, ConvertConstants DEF ConvertIInv, EndInv
<1>6. QED
  BY <1>4, <1>5

(* What a step finds at work. *)
LEMMA AtWork ==
  ASSUME ConvertIInv, Convert!NextType
  PROVE  /\ current # "none" /\ outcome = "working"
         /\ ConvertTyped /\ AskedInv /\ AloneInv /\ fed = TRUE
         /\ current \in TakenFor \/ (current = "*" /\ TakenFor = Types)
         /\ TakenFor \subseteq Types /\ value \subseteq TakenFor
         /\ UNCHANGED <<converters, contentType, responses, asked, alone>>
  BY DEF ConvertIInv, ConvertTyped, TakenFor, Convert!NextType, Convert!given

LEMMA ConvertFinishInv ==
  ASSUME ConvertIInv, Convert!Finish
  PROVE  ConvertIInv'
<1>1. /\ current # "none" /\ outcome = "working" /\ AskedInv /\ ConvertTyped
      /\ UNCHANGED <<converters, contentType, responses, asked, alone>>
      /\ UNCHANGED <<dataTypes, current, value, fed, threw>>
      /\ dataTypes = <<>> /\ outcome' = "success"
  BY AtWork DEF Convert!Finish
<1>2. QED
  BY <1>1 DEF ConvertIInv, ConvertTyped, AskedInv, AloneInv, EndInv, TakenFor, LastIs,
              Convert!AllAuto

LEMMA SkipInv ==
  ASSUME ConvertIInv, Convert!Skip
  PROVE  ConvertIInv'
<1>1. /\ Convert!NextType /\ dataTypes # <<>>
      /\ Head(dataTypes) \in {"*", current} \/ current = "*"
      /\ current' = IF Head(dataTypes) = "*" THEN current ELSE Head(dataTypes)
      /\ dataTypes' = Tail(dataTypes)
      /\ UNCHANGED <<value, fed, threw, outcome>>
  BY DEF Convert!Skip
<1>2. /\ current # "none" /\ outcome = "working" /\ ConvertTyped /\ AskedInv /\ AloneInv
      /\ current \in TakenFor \/ (current = "*" /\ TakenFor = Types)
      /\ TakenFor \subseteq Types
      /\ UNCHANGED <<converters, contentType, responses, asked, alone>>
  BY <1>1, AtWork
<1>3. Head(dataTypes) \in Types \cup {"*"}
  BY <1>1, <1>2, TailFacts DEF ConvertTyped
<1>4. Head(dataTypes) = "*" \/ Head(dataTypes) \in TakenFor
  <2>1. CASE current = "*"
    BY <1>2, <1>3, <2>1, ConvertConstants
  <2>2. CASE current # "*"
    BY <1>1, <1>2, <2>2
  <2>3. QED
    BY <2>1, <2>2
<1>5. /\ Tail(dataTypes) \in Seq(Types \cup {"*"}) /\ Len(Tail(dataTypes)) <= MaxAsked
      /\ asked # "*" => \/ LastIs(Tail(dataTypes), asked)
                        \/ Convert!AllAuto(Tail(dataTypes)) /\ asked \in TakenFor
      /\ dataTypes = <<asked>> => Tail(dataTypes) = <<>>
  BY <1>1, <1>2, <1>4, TailInv DEF ConvertTyped, AskedInv
<1>6. TakenFor' = TakenFor
  BY <1>1, <1>2 DEF TakenFor
<1>7. ConvertTyped'
  BY <1>1, <1>2, <1>3, <1>5 DEF ConvertTyped
<1>8. AskedInv'
  BY <1>1, <1>2, <1>5, <1>6 DEF AskedInv, LastIs, Convert!AllAuto
<1>9. AloneInv'
  BY <1>1, <1>2, <1>5 DEF AloneInv
<1>10. current' = current \/ current' \in TakenFor
  BY <1>1, <1>4
<1>11. QED
  BY <1>1, <1>2, <1>6, <1>7, <1>8, <1>9, <1>10, ConvertConstants DEF ConvertIInv, EndInv

LEMMA FailInv ==
  ASSUME ConvertIInv, Convert!Fail
  PROVE  ConvertIInv'
<1>1. /\ current # "none" /\ outcome = "working" /\ AloneInv /\ ConvertTyped
      /\ UNCHANGED <<converters, contentType, responses, asked, alone>>
      /\ UNCHANGED <<dataTypes, current, value, fed, threw>>
      /\ dataTypes # <<>> /\ Convert!Direct(current, Head(dataTypes)) = <<>>
      /\ outcome' = "parsererror"
  BY AtWork DEF Convert!Fail, Convert!HasWork
<1>2. ASSUME alone
      PROVE  Unreachable
  <2>1. dataTypes = <<asked>> /\ (Convert!Has(current, asked) \/ Unreachable)
    BY <1>1, <1>2 DEF AloneInv
  <2>2. ~Convert!Has(current, asked)
    BY <1>1, <2>1 DEF Convert!Direct
  <2>3. QED
    BY <2>1, <2>2
<1>3. alone' => Unreachable'
  BY <1>1, <1>2 DEF Unreachable, Convert!Has
<1>4. QED
  BY <1>1, <1>3 DEF ConvertIInv, ConvertTyped, EndInv, TakenFor

(* A function has been called, or nothing that can throw. *)
LEMMA ThrowFacts ==
  ASSUME NEW kinds, Convert!MayThrow(kinds), outcome = "working"
  PROVE  /\ threw' \in BOOLEAN
         /\ \/ outcome' = "working"
            \/ threw' = TRUE /\ outcome' \in {"parsererror", "uncaught"}
  BY DEF Convert!MayThrow

(* A converter makes a value of the type that is next. *)
LEMMA ConvertedInv ==
  ASSUME ConvertIInv, Convert!NextType, dataTypes # <<>>,
         Head(dataTypes) # "*", current' = Head(dataTypes), Head(dataTypes) \in TakenFor',
         value' \subseteq Types, fed' = TRUE, dataTypes' = Tail(dataTypes),
         NEW kinds, Convert!MayThrow(kinds)
  PROVE  ConvertIInv'
<1>1. /\ outcome = "working" /\ ConvertTyped /\ AskedInv /\ AloneInv /\ TakenFor \subseteq Types
      /\ UNCHANGED <<converters, contentType, responses, asked, alone>>
  BY AtWork
<1>2. /\ threw' \in BOOLEAN
      /\ \/ outcome' = "working"
         \/ threw' = TRUE /\ outcome' \in {"parsererror", "uncaught"}
  BY <1>1, ThrowFacts
<1>3. TakenFor' \subseteq Types /\ Head(dataTypes) \in Types
  BY <1>1 DEF TakenFor
<1>4. /\ Tail(dataTypes) \in Seq(Types \cup {"*"}) /\ Len(Tail(dataTypes)) <= MaxAsked
      /\ asked # "*" => \/ LastIs(Tail(dataTypes), asked)
                        \/ Convert!AllAuto(Tail(dataTypes)) /\ asked \in TakenFor'
      /\ dataTypes = <<asked>> => Tail(dataTypes) = <<>>
  BY <1>1, <1>3, TailInv DEF ConvertTyped, AskedInv
<1>5. ConvertTyped'
  BY <1>1, <1>2, <1>3, <1>4 DEF ConvertTyped
<1>6. AskedInv'
  BY <1>1, <1>4 DEF AskedInv, LastIs, Convert!AllAuto
<1>7. AloneInv'
  BY <1>1, <1>4 DEF AloneInv
<1>8. current' \in Types /\ current' \notin {"none", "*"}
  BY <1>3, ConvertConstants
<1>9. QED
  BY <1>2, <1>5, <1>6, <1>7, <1>8 DEF ConvertIInv, EndInv

LEMMA DirectFacts ==
  ASSUME ConvertIInv, NEW s \in Types, NEW t \in Types, Convert!Direct(s, t) # <<>>
  PROVE  /\ Convert!Direct(s, t)[1] = s \/ Convert!Direct(s, t)[1] = "*"
         /\ Convert!Direct(s, t)[2] = t
         /\ Convert!Kind(Convert!Direct(s, t)[1], Convert!Direct(s, t)[2]) \in {"true", "function"}
<1>1. CASE Convert!Has(s, t)
  <2>1. Convert!Direct(s, t) = <<s, t>> /\ converters[<<s, t>>] \in {"true", "function"}
    BY <1>1 DEF Convert!Direct, Convert!Has, ConvertIInv, ConvertTyped, Convert!Kinds
  <2>2. QED
    BY <2>1 DEF Convert!Kind
<1>2. CASE ~Convert!Has(s, t)
  <2>1. Convert!Direct(s, t) = <<"*", t>> /\ converters[<<"*", t>>] \in {"true", "function"}
    BY <1>2 DEF Convert!Direct, Convert!Has, ConvertIInv, ConvertTyped, Convert!Kinds
  <2>2. QED
    BY <2>1 DEF Convert!Kind
<1>3. QED
  BY <1>1, <1>2

LEMMA ConvertDirectlyInv ==
  ASSUME ConvertIInv, Convert!ConvertDirectly
  PROVE  ConvertIInv'
<1> DEFINE p == Convert!Direct(current, Head(dataTypes))
<1>1. /\ Convert!NextType /\ current # "*" /\ dataTypes # <<>> /\ Head(dataTypes) # "*"
      /\ p # <<>> /\ value' = Convert!Applied(p) /\ fed' = (fed /\ Convert!Feeds(p, value))
      /\ current' = Head(dataTypes) /\ dataTypes' = Tail(dataTypes)
      /\ Convert!MayThrow({Convert!Kind(p[1], p[2])})
  BY DEF Convert!ConvertDirectly, Convert!HasWork
<1>2. /\ ConvertTyped /\ fed = TRUE /\ current \in TakenFor /\ current \in Types
      /\ value \subseteq Types /\ responses' = responses
  BY <1>1, AtWork DEF ConvertTyped
<1>3. Head(dataTypes) \in Types
  BY <1>1, <1>2, TailFacts DEF ConvertTyped
<1>4. (p[1] = current \/ p[1] = "*") /\ p[2] = Head(dataTypes)
  BY <1>1, <1>2, <1>3, DirectFacts
<1> HIDE DEF p
<1>5. fed' = TRUE
  BY <1>1, <1>2, <1>4 DEF Convert!Feeds, TakenFor
<1>6. Head(dataTypes) \in TakenFor' /\ value' \subseteq Types
  <2>1. value = {} => responses = {}
    BY <1>2 DEF TakenFor
  <2>2. QED
    BY <1>1, <1>2, <1>3, <1>4, <2>1 DEF Convert!Applied, Convert!AlsoOf, TakenFor
<1>7. QED
  BY <1>1, <1>5, <1>6, ConvertedInv

LEMMA ConvertByPairInv ==
  ASSUME ConvertIInv, NEW t \in Types, Convert!ConvertByPair(t)
  PROVE  ConvertIInv'
<1> DEFINE to == Head(dataTypes)
           p == Convert!Direct(current, t)
           first == Convert!Kind(p[1], p[2])
           second == Convert!Kind(t, to)
<1>1. /\ Convert!NextType /\ current # "*" /\ dataTypes # <<>> /\ to # "*"
      /\ Convert!Direct(current, to) = <<>> /\ Convert!Has(t, to) /\ p # <<>>
      /\ Convert!MayThrow({first, second})
  BY DEF Convert!ConvertByPair, Convert!HasWork, Convert!Between
<1>2. /\ IF first = "true"
         THEN /\ value' = IF second = "true" THEN Convert!AlsoOf({t, to}) ELSE {to}
              /\ fed' = (fed /\ Convert!Feeds(<<t, to>>, Convert!AlsoOf({t})))
         ELSE /\ value' = IF second = "true" THEN {t, to} ELSE {t}
              /\ fed' = (fed /\ Convert!Feeds(p, value))
      /\ IF first = "function" /\ second = "function"
         THEN current' = t /\ UNCHANGED dataTypes
         ELSE current' = to /\ dataTypes' = Tail(dataTypes)
  BY DEF Convert!ConvertByPair
<1>3. /\ current # "none" /\ outcome = "working" /\ ConvertTyped /\ AskedInv /\ AloneInv
      /\ fed = TRUE /\ current \in TakenFor /\ current \in Types /\ value \subseteq Types
      /\ UNCHANGED <<converters, contentType, responses, asked, alone>>
  BY <1>1, AtWork DEF ConvertTyped
<1>4. to \in Types
  BY <1>1, <1>3, TailFacts DEF ConvertTyped
<1>5. (p[1] = current \/ p[1] = "*") /\ first \in {"true", "function"}
  BY <1>1, <1>3, DirectFacts
<1>6. second \in {"true", "function"}
  BY <1>1, <1>3 DEF Convert!Has, Convert!Kind, ConvertTyped, Convert!Kinds
<1>7. value = {} => responses = {}
  BY <1>3 DEF TakenFor
<1>8. Convert!Feeds(p, value) /\ Convert!Feeds(<<t, to>>, Convert!AlsoOf({t}))
  BY <1>3, <1>5, <1>7 DEF Convert!Feeds, Convert!AlsoOf, TakenFor
<1>9. ~Convert!Has(current, to)
  BY <1>1 DEF Convert!Direct
<1> HIDE DEF p, first, second
<1>10. fed' = TRUE
  BY <1>2, <1>3, <1>8
<1>11. CASE first = "function" /\ second = "function"
  <2>1. value' = {t} /\ current' = t /\ dataTypes' = dataTypes
    BY <1>2, <1>11
  <2>2. /\ threw' \in BOOLEAN
        /\ \/ outcome' = "working"
           \/ threw' = TRUE /\ outcome' \in {"parsererror", "uncaught"}
    BY <1>1, <1>3, ThrowFacts
  <2>3. ConvertTyped'
    BY <1>3, <1>10, <2>1, <2>2 DEF ConvertTyped
  <2>4. AskedInv'
    <3>1. dataTypes[1] # "*" /\ 1 \in DOMAIN dataTypes
      BY <1>1, <1>3, TailFacts DEF ConvertTyped
    <3>2. asked # "*" => LastIs(dataTypes, asked)
      BY <1>3, <3>1 DEF AskedInv, Convert!AllAuto
    <3>3. QED
      BY <1>3, <2>1, <3>2 DEF AskedInv, LastIs
  <2>5. AloneInv'
    <3>1. alone => dataTypes = <<asked>> /\ asked # "*" /\ Unreachable
      BY <1>1, <1>3, <1>9 DEF AloneInv
    <3>2. QED
      BY <1>3, <2>1, <3>1 DEF AloneInv, Unreachable, Convert!Has
  <2>6. t \in TakenFor' /\ t \notin {"none", "*"}
    BY <2>1, ConvertConstants DEF TakenFor
  <2>7. QED
    BY <2>1, <2>2, <2>3, <2>4, <2>5, <2>6 DEF ConvertIInv, EndInv
<1>12. CASE ~(first = "function" /\ second = "function")
  <2>1. current' = to /\ dataTypes' = Tail(dataTypes)
    BY <1>2, <1>12
  <2>2. to \in TakenFor' /\ value' \subseteq Types
    BY <1>2, <1>3, <1>4, <1>5, <1>6, <1>7, <1>12 DEF Convert!AlsoOf, TakenFor
  <2>3. QED
    BY <1>1, <1>10, <2>1, <2>2, ConvertedInv
<1>13. QED
  BY <1>11, <1>12

LEMMA ConvertNextInv == ConvertIInv /\ Convert!Next => ConvertIInv'
  BY HandleResponsesInv, HandleNoResponseInv, ConvertFinishInv, SkipInv, ConvertDirectlyInv, FailInv,
     ConvertByPairInv DEF Convert!Next

LEMMA ConvertStutter == ConvertIInv /\ UNCHANGED Convert!vars => ConvertIInv'
  BY DEF ConvertIInv, ConvertTyped, AskedInv, AloneInv, EndInv, TakenFor, Unreachable, LastIs,
         Convert!AllAuto, Convert!Has, Convert!vars, Convert!given

(* The answers of the behaviours that MCScripts checks: a success gives the page the     *)
(* type that it asked for, or undefined if there was no response; a response that can be   *)
(* converted is refused only if a converter throws; no converter is given a value of        *)
(* another type; requests for scripts have names of their own, and their own answers.       *)
THEOREM AnswersCorrect == Spec => []AnswersAreRight
<1> DEFINE Inv == /\ part = "convert" => ConvertIInv
                  /\ part = "script" => ScriptIInv
<1>1. Init => Inv
  BY ConvertInitInv, ScriptInitInv DEF Init
<1>2. Inv /\ [Next]_everything => Inv'
  <2> SUFFICES ASSUME Inv, [Next]_everything
               PROVE  Inv'
    OBVIOUS
  <2>1. CASE UNCHANGED everything
    <3>1. UNCHANGED <<part, ofConvert, ofScript>>
      BY <2>1 DEF everything
    <3>2. part' = "convert" => ConvertIInv'
      BY <3>1, ConvertStutter DEF ofConvert, Convert!vars, Convert!given
    <3>3. part' = "script" => ScriptIInv'
      BY <3>1, ScriptStutter DEF ofScript, Script!vars
    <3>4. QED
      BY <3>2, <3>3
  <2>2. CASE part = "convert" /\ part' = part /\ Convert!Next
    BY <2>2, ConvertNextInv
  <2>3. CASE part = "script" /\ part' = part /\ Script!Next
    BY <2>3, ScriptNextInv
  <2>4. CASE part' = part /\ part \in {"list", "follow", "event", "nestedevent", "effect"}
    BY <2>4
  <2>5. QED
    BY <2>1, <2>2, <2>3, <2>4
       DEF Next, OfList, OfFollow, OfEvent, OfEffect, OfConvert, OfScript
<1>3. Inv => AnswersAreRight
  BY ConvertIInvSound, ScriptIInvSound, PageAssumption DEF AnswersAreRight, Script!NamesAreRight
<1>4. QED
  BY <1>1, <1>2, <1>3, PTL DEF Spec

(***************************************************************************)
(* Effects and their queues.                                                *)
(***************************************************************************)

(* What a timer remembers to put right is the natural height, and no clipping. *)
TimerRecords ==
  [elem : Elems, left : 0..Duration, start : 0..2, end : 0..2, hides : BOOLEAN,
   original : {2}, clipped : {FALSE}]
ShowRecords == [on : BOOLEAN, hidden : {"unset", "yes", "no"}, height : 0..2]
TaskRecords ==
  [do : {"dequeue", "stop", "finish", "tick"}, elem : Elems, at : Nat, goto : BOOLEAN,
   any : BOOLEAN, act : Effect!Entries]

EffectTyped ==
  /\ queue \in [Elems -> Seq(Effect!Entries)]
  /\ hooked \in [Elems -> BOOLEAN] /\ stopper \in [Elems -> BOOLEAN]
  /\ delays \in [Elems -> {0, 1}]
  /\ promised \in [Elems -> {"none", "waiting", "resolved"}]
  /\ timers \in Seq(TimerRecords) /\ ticking \in BOOLEAN
  /\ shown \in [Elems -> BOOLEAN] /\ clipped \in [Elems -> BOOLEAN]
  /\ height \in [Elems -> 0..2] /\ fxshow \in [Elems -> ShowRecords]
  /\ todo \in Seq(TaskRecords) /\ calls \in 0..MaxEffects

(* There is an animation of the element, and no two of one. *)
Going(e) == \E i \in 1..Len(timers) : timers[i].elem = e
OneEach == \A i, j \in 1..Len(timers) : timers[i].elem = timers[j].elem => i = j

(* What is true of an element whatever is still to be done: hooks.stop names the     *)
(* timeout of its delay, and it remembers the height that it is to come back to. *)
ElementInv(e) ==
  /\ stopper[e] <=> delays[e] = 1
  /\ Going(e) => delays[e] = 0 /\ fxshow[e].on
  /\ clipped[e] => Going(e)
  /\ IF fxshow[e].on THEN fxshow[e].height = 2 ELSE height[e] = 2

(* Nothing is at work for the element, or its queue is marked. *)
Free(e) == ~Going(e) /\ delays[e] = 0
Marked(e) == queue[e] # <<>> /\ Head(queue[e]) = "inprogress"
Served(e) == IF Free(e) THEN queue[e] = <<>> ELSE Marked(e)

(* What finish has still to begin and end; meanwhile the queue is empty. *)
Finishing(e, s) ==
  /\ \A i \in 1..Len(s) : s[i].do = "finish" /\ s[i].elem = e
  /\ s # <<>> => queue[e] = <<>>

(* The loop of stop: what it is to stop is before it, or what it has started is       *)
(* behind it. *)
Stopping(e, task) ==
  /\ task.do = "stop" /\ task.elem = e /\ task.at \in 0..Len(timers)
  /\ \/ /\ delays[e] = 0
        /\ \A i \in 1..Len(timers) : timers[i].elem = e => i <= task.at
        /\ task.goto /\ task.any => queue[e] = <<>>
     \/ /\ task.goto /\ task.any /\ Served(e)
        /\ \A i \in 1..Len(timers) : timers[i].elem = e => i > task.at

Ticking(s) == s # <<>> /\ Head(s).do = "tick" /\ Head(s).at >= 1 /\ Tail(s) = <<>>
ToStop(e) == todo # <<>> /\ Stopping(e, Head(todo)) /\ Finishing(e, Tail(todo))
ToFinish(e) ==
  /\ todo # <<>> /\ Head(todo).do = "finish" /\ Head(todo).elem = e
  /\ Free(e) /\ queue[e] = <<>> /\ Finishing(e, Tail(todo))

(* The next function of the queue is begun when none is at work. *)
BeforeStop(e, s) ==
  /\ s # <<>> /\ Head(s).do = "stop" /\ Head(s).elem = e /\ Head(s).goto /\ Head(s).any
  /\ Head(s).at <= Len(timers) /\ Finishing(e, Tail(s))
ToDequeue(e) ==
  /\ todo # <<>> /\ Head(todo).do = "dequeue" /\ Head(todo).elem = e /\ Free(e)
  /\ Finishing(e, Tail(todo)) \/ BeforeStop(e, Tail(todo)) \/ Ticking(Tail(todo))

(* All queues are served but the one of the element that something is to be done to. *)
TodoInv ==
  \/ (todo = <<>> \/ Ticking(todo)) /\ \A e \in Elems : Served(e)
  \/ \E e \in Elems :
       /\ ToDequeue(e) \/ ToStop(e) \/ ToFinish(e)
       /\ \A d \in Elems \ {e} : Served(d)

EffectIInv ==
  /\ EffectTyped /\ OneEach /\ TodoInv
  /\ \A e \in Elems : ElementInv(e)
  /\ timers # <<>> => ticking

LEMMA EffectConstants ==
  /\ Elems # {} /\ Duration \in Nat \ {0} /\ MaxEffects \in Nat
  /\ "clearQueue" \notin Methods /\ "stopAll" \notin Methods
  BY Assumptions, PageAssumption DEF Effect!EffectsAssumption

LEMMA ConsFacts ==
  ASSUME NEW U, NEW x \in U, NEW s \in Seq(U)
  PROVE  /\ <<x>> \o s \in Seq(U) /\ <<x>> \o s # <<>>
         /\ Head(<<x>> \o s) = x /\ Tail(<<x>> \o s) = s
<1>1. /\ <<x>> \in Seq(U) /\ Len(<<x>>) = 1 /\ <<x>>[1] = x /\ Len(s) \in Nat
  OBVIOUS
<1>2. PICK u : u = <<x>> \o s
  OBVIOUS
<1>3. /\ u \in Seq(U) /\ Len(u) = Len(s) + 1 /\ u[1] = x
      /\ \A i \in 1..Len(s) : u[i + 1] = s[i]
  BY <1>1, <1>2
<1>4. u # <<>> /\ Head(u) = x
  BY <1>1, <1>3
<1>5. Tail(u) \in Seq(U) /\ Len(Tail(u)) = Len(s) /\ \A i \in 1..Len(s) : Tail(u)[i] = s[i]
  BY <1>1, <1>3, <1>4, TailFacts
<1>6. Tail(u) = s
  BY <1>5, SeqEqual
<1>7. QED
  BY <1>2, <1>3, <1>4, <1>6

LEMMA PairFacts ==
  ASSUME NEW U, NEW x \in U, NEW y \in U, NEW s \in Seq(U)
  PROVE  /\ <<x, y>> \o s \in Seq(U) /\ <<x, y>> \o s # <<>>
         /\ Head(<<x, y>> \o s) = x /\ Tail(<<x, y>> \o s) = <<y>> \o s
<1>1. <<x, y>> \o s = <<x>> \o (<<y>> \o s)
  <2>1. /\ <<x>> \in Seq(U) /\ Len(<<x>>) = 1 /\ <<x>>[1] = x
        /\ <<y>> \in Seq(U) /\ Len(<<y>>) = 1 /\ <<y>>[1] = y
        /\ <<x, y>> \in Seq(U) /\ Len(<<x, y>>) = 2 /\ <<x, y>>[1] = x /\ <<x, y>>[2] = y
    OBVIOUS
  <2>2. PICK u : u = <<x>> \o <<y>>
    OBVIOUS
  <2>3. u \in Seq(U) /\ Len(u) = 2 /\ u[1] = x /\ u[2] = y
    BY <2>1, <2>2
  <2>4. <<x, y>> = u
    BY <2>1, <2>3, SeqEqual
  <2>5. QED
    BY <2>1, <2>2, <2>4, ConcatAssociative
<1>2. <<y>> \o s \in Seq(U)
  BY ConsFacts
<1>3. QED
  BY <1>1, <1>2, ConsFacts

LEMMA OneFacts ==
  ASSUME NEW U, NEW x \in U
  PROVE  <<x>> \in Seq(U) /\ <<x>> # <<>> /\ Head(<<x>>) = x /\ Tail(<<x>>) = <<>>
  OBVIOUS

LEMMA DoFacts ==
  ASSUME NEW what \in {"dequeue", "stop", "finish", "tick"}, NEW e \in Elems
  PROVE  /\ Effect!Do(what, e) \in TaskRecords
         /\ Effect!Do(what, e).do = what /\ Effect!Do(what, e).elem = e
         /\ Effect!Do(what, e).any = FALSE
  BY DEF Effect!Do, TaskRecords, Effect!Entries, Effect!Acts

LEMMA WithoutFacts ==
  ASSUME NEW U, NEW s \in Seq(U), NEW k \in 1..Len(s)
  PROVE  /\ Effect!Without(s, k) \in Seq(U) /\ Len(Effect!Without(s, k)) = Len(s) - 1
         /\ \A i \in 1..(Len(s) - 1) :
              Effect!Without(s, k)[i] = IF i < k THEN s[i] ELSE s[i + 1]
<1> DEFINE u == SubSeq(s, 1, k - 1)
           w == SubSeq(s, k + 1, Len(s))
<1>1. Len(s) \in Nat /\ k \in 1..Len(s) /\ k \in 0..Len(s)
  OBVIOUS
<1>2. /\ w \in Seq(U) /\ Len(w) = Len(s) - k
      /\ \A i \in 1..(Len(s) - k) : w[i] = s[i + k]
  BY <1>1, SuffixFacts
<1>3. /\ u \in Seq(U) /\ Len(u) = k - 1
      /\ \A i \in 1..(k - 1) : u[i] = s[i]
  <2>1. PICK m \in Nat : k = m + 1
    <3>1. k - 1 \in Nat /\ k = (k - 1) + 1
      OBVIOUS
    <3>2. QED
      BY <3>1
  <2>2. k - 1 = m /\ \A i \in 1..m : s[i] \in U
    BY <2>1
  <2>3. /\ SubSeq(s, 1, m) \in Seq(U) /\ Len(SubSeq(s, 1, m)) = m
        /\ \A i \in 1..m : SubSeq(s, 1, m)[i] = s[i]
    BY <2>1, <2>2
  <2>4. QED
    BY <2>2, <2>3
<1>4. Effect!Without(s, k) = u \o w
  BY DEF Effect!Without
<1> HIDE DEF u, w
<1>5. PICK v : v = u \o w
  OBVIOUS
<1>6. /\ v \in Seq(U) /\ Len(v) = (k - 1) + (Len(s) - k)
      /\ \A i \in 1..Len(v) : v[i] = IF i <= Len(u) THEN u[i] ELSE w[i - Len(u)]
  <2>1. /\ v \in Seq(U) /\ Len(v) = Len(u) + Len(w)
        /\ \A i \in 1..(Len(u) + Len(w)) : v[i] = IF i <= Len(u) THEN u[i] ELSE w[i - Len(u)]
    BY <1>2, <1>3, <1>5, ConcatProperties
  <2>2. QED
    BY <1>2, <1>3, <2>1
<1>7. Len(v) = Len(s) - 1
  BY <1>1, <1>6
<1>8. ASSUME NEW i \in 1..(Len(s) - 1)
      PROVE  v[i] = IF i < k THEN s[i] ELSE s[i + 1]
  <2>1. CASE i < k
    <3>1. i \in 1..(k - 1) /\ i <= Len(u)
      BY <1>1, <1>3, <2>1
    <3>2. QED
      BY <1>3, <1>6, <1>7, <2>1, <3>1
  <2>2. CASE ~(i < k)
    <3>1. PICK j : j = i - Len(u)
      OBVIOUS
    <3>2. j \in 1..(Len(s) - k) /\ j + k = i + 1 /\ ~(i <= Len(u))
      BY <1>1, <1>3, <2>2, <3>1
    <3>3. QED
      BY <1>2, <1>6, <1>7, <2>2, <3>1, <3>2
  <2>3. QED
    BY <2>1, <2>2
<1>9. QED
  BY <1>4, <1>5, <1>6, <1>7, <1>8

LEMMA TimerRemoved ==
  ASSUME EffectTyped, OneEach, NEW k \in 1..Len(timers),
         NEW e, timers[k].elem = e, timers' = Effect!Without(timers, k)
  PROVE  /\ timers' \in Seq(TimerRecords) /\ Len(timers') = Len(timers) - 1 /\ OneEach'
         /\ timers[k] \in TimerRecords /\ e \in Elems /\ ~Going(e)'
         /\ \A d \in Elems \ {e} : Going(d)' <=> Going(d)
<1>1. timers \in Seq(TimerRecords) /\ Len(timers) \in Nat
  BY DEF EffectTyped
<1>2. /\ timers' \in Seq(TimerRecords) /\ Len(timers') = Len(timers) - 1
      /\ \A i \in 1..(Len(timers) - 1) :
           timers'[i] = IF i < k THEN timers[i] ELSE timers[i + 1]
  BY <1>1, WithoutFacts
<1>3. timers[k] \in TimerRecords /\ e \in Elems
  <2>1. timers[k] \in TimerRecords
    BY <1>1
  <2>2. QED
    BY <2>1 DEF TimerRecords
<1>4. \A i \in 1..Len(timers') :
        \/ i < k /\ i \in 1..Len(timers) /\ timers'[i] = timers[i]
        \/ ~(i < k) /\ i + 1 \in 1..Len(timers) /\ timers'[i] = timers[i + 1]
  BY <1>1, <1>2
<1>5. OneEach'
  <2> SUFFICES ASSUME NEW i \in 1..Len(timers'), NEW j \in 1..Len(timers'),
                      timers'[i].elem = timers'[j].elem
               PROVE  i = j
    BY DEF OneEach
  <2>1. CASE i < k /\ j < k
    BY <1>4, <2>1 DEF OneEach
  <2>2. CASE i < k /\ ~(j < k)
    <3>1. i = j + 1
      BY <1>4, <2>2 DEF OneEach
    <3>2. QED
      BY <2>2, <3>1
  <2>3. CASE ~(i < k) /\ j < k
    <3>1. i + 1 = j
      BY <1>4, <2>3 DEF OneEach
    <3>2. QED
      BY <2>3, <3>1
  <2>4. CASE ~(i < k) /\ ~(j < k)
    <3>1. /\ i + 1 \in 1..Len(timers) /\ j + 1 \in 1..Len(timers)
          /\ timers[i + 1].elem = timers[j + 1].elem
      BY <1>4, <2>4
    <3>2. i + 1 = j + 1
      BY <3>1 DEF OneEach
    <3>3. QED
      BY <3>2
  <2>5. QED
    BY <2>1, <2>2, <2>3, <2>4
<1>6. ~Going(e)'
  <2> SUFFICES ASSUME NEW i \in 1..Len(timers'), timers'[i].elem = e
               PROVE  FALSE
    BY DEF Going
  <2>1. CASE i < k
    BY <1>4, <2>1 DEF OneEach
  <2>2. CASE ~(i < k)
    <3>1. i + 1 = k
      BY <1>4, <2>2 DEF OneEach
    <3>2. QED
      BY <2>2, <3>1
  <2>3. QED
    BY <2>1, <2>2
<1>7. ASSUME NEW d \in Elems \ {e}
      PROVE  Going(d)' <=> Going(d)
  <2>1. Going(d)' => Going(d)
    BY <1>4 DEF Going
  <2>2. ASSUME NEW i \in 1..Len(timers), timers[i].elem = d
        PROVE  Going(d)'
    <3>1. CASE i < k
      <4>1. i \in 1..Len(timers') /\ timers'[i] = timers[i]
        BY <1>1, <1>2, <3>1
      <4>2. QED
        BY <2>2, <4>1 DEF Going
    <3>2. CASE i > k
      <4>1. PICK j : j = i - 1
        OBVIOUS
      <4>2. j \in 1..(Len(timers) - 1) /\ ~(j < k) /\ j + 1 = i
        BY <1>1, <3>2, <4>1
      <4>3. timers'[j] = timers[i] /\ j \in 1..Len(timers')
        BY <1>2, <4>2
      <4>4. QED
        BY <2>2, <4>3 DEF Going
    <3>3. i # k
      BY <2>2
    <3>4. QED
      BY <3>1, <3>2, <3>3
  <2>3. QED
    BY <2>1, <2>2 DEF Going
<1>8. QED
  BY <1>2, <1>3, <1>5, <1>6, <1>7

LEMMA TimerAdded ==
  ASSUME EffectTyped, OneEach, NEW t \in TimerRecords, ~Going(t.elem),
         timers' = Append(timers, t)
  PROVE  /\ timers' \in Seq(TimerRecords) /\ Len(timers') = Len(timers) + 1 /\ OneEach'
         /\ Going(t.elem)' /\ \A d \in Elems \ {t.elem} : Going(d)' <=> Going(d)
         /\ \A i \in 1..Len(timers') : timers'[i].elem = t.elem => i > Len(timers)
<1>1. timers \in Seq(TimerRecords) /\ Len(timers) \in Nat
  BY DEF EffectTyped
<1>2. /\ timers' \in Seq(TimerRecords) /\ Len(timers') = Len(timers) + 1
      /\ \A i \in 1..Len(timers) : timers'[i] = timers[i] /\ timers[i].elem # t.elem
      /\ timers'[Len(timers) + 1] = t
  BY <1>1 DEF Going
<1>3. \A i \in 1..Len(timers') :
        \/ i \in 1..Len(timers) /\ timers'[i] = timers[i] /\ timers[i].elem # t.elem
        \/ i = Len(timers) + 1 /\ timers'[i] = t
  BY <1>1, <1>2
<1>4. OneEach'
  BY <1>1, <1>3 DEF OneEach
<1>5. Going(t.elem)'
  <2>1. Len(timers) + 1 \in 1..Len(timers')
    BY <1>1, <1>2
  <2>2. QED
    BY <1>2, <2>1 DEF Going
<1>6. \A d \in Elems \ {t.elem} : Going(d)' <=> Going(d)
  <2>1. \A i \in 1..Len(timers) : i \in 1..Len(timers')
    BY <1>1, <1>2
  <2>2. QED
    BY <1>2, <1>3, <2>1 DEF Going
<1>7. \A i \in 1..Len(timers') : timers'[i].elem = t.elem => i > Len(timers)
  BY <1>1, <1>3
<1>8. QED
  BY <1>2, <1>4, <1>5, <1>6, <1>7

(* A step that is about one element does not change the others. *)
Elsewhere(e) ==
  \A d \in Elems \ {e} :
    /\ queue'[d] = queue[d] /\ stopper'[d] = stopper[d] /\ delays'[d] = delays[d]
    /\ fxshow'[d] = fxshow[d] /\ clipped'[d] = clipped[d] /\ height'[d] = height[d]
    /\ Going(d)' <=> Going(d)

LEMMA ElsewhereKept ==
  ASSUME NEW e, Elsewhere(e), NEW d \in Elems \ {e}
  PROVE  /\ ElementInv(d) => ElementInv(d)'
         /\ Served(d) => Served(d)'
  BY DEF Elsewhere, ElementInv, Served, Free, Marked

(* What is to be done is about one element, and the others are served. *)
LEMMA TodoFacts ==
  ASSUME EffectIInv
  PROVE  /\ todo = <<>> => \A d \in Elems : Served(d)
         /\ todo # <<>> =>
              /\ Head(todo) \in TaskRecords /\ Tail(todo) \in Seq(TaskRecords)
              /\ Head(todo).do = "tick" => Ticking(todo) /\ \A d \in Elems : Served(d)
              /\ Head(todo).do # "tick" => \A d \in Elems \ {Head(todo).elem} : Served(d)
              /\ Head(todo).do = "dequeue" => ToDequeue(Head(todo).elem)
              /\ Head(todo).do = "stop" => ToStop(Head(todo).elem)
              /\ Head(todo).do = "finish" => ToFinish(Head(todo).elem)
<1>1. todo = <<>> => \A d \in Elems : Served(d)
  BY DEF EffectIInv, TodoInv, ToDequeue, ToStop, ToFinish
<1>2. todo # <<>> => Head(todo) \in TaskRecords /\ Tail(todo) \in Seq(TaskRecords)
  BY TailFacts DEF EffectIInv, EffectTyped
<1>3. ASSUME todo # <<>>
      PROVE  \/ Ticking(todo) /\ Head(todo).do = "tick" /\ \A d \in Elems : Served(d)
             \/ /\ Head(todo).do # "tick" /\ \A d \in Elems \ {Head(todo).elem} : Served(d)
                /\ \/ Head(todo).do = "dequeue" /\ ToDequeue(Head(todo).elem)
                   \/ Head(todo).do = "stop" /\ ToStop(Head(todo).elem)
                   \/ Head(todo).do = "finish" /\ ToFinish(Head(todo).elem)
  <2>1. CASE Ticking(todo) /\ \A e \in Elems : Served(e)
    BY <2>1 DEF Ticking
  <2>2. CASE \E e \in Elems : /\ ToDequeue(e) \/ ToStop(e) \/ ToFinish(e)
                              /\ \A d \in Elems \ {e} : Served(d)
    <3>1. PICK e \in Elems : /\ ToDequeue(e) \/ ToStop(e) \/ ToFinish(e)
                             /\ \A d \in Elems \ {e} : Served(d)
      BY <2>2
    <3>2. e = Head(todo).elem
      BY <3>1 DEF ToDequeue, ToStop, ToFinish, Stopping
    <3>3. ToDequeue(e) => Head(todo).do = "dequeue"
      BY DEF ToDequeue
    <3>4. ToStop(e) => Head(todo).do = "stop"
      BY DEF ToStop, Stopping
    <3>5. ToFinish(e) => Head(todo).do = "finish"
      BY DEF ToFinish
    <3>6. QED
      BY <3>1, <3>2, <3>3, <3>4, <3>5
  <2>3. QED
    BY <1>3, <2>1, <2>2 DEF EffectIInv, TodoInv
<1>4. QED
  BY <1>1, <1>2, <1>3

LEMMA EffectInitInv ==
  ASSUME Effect!Init
  PROVE  EffectIInv
<1>1. EffectTyped
  <2>1. /\ queue \in [Elems -> Seq(Effect!Entries)] /\ timers \in Seq(TimerRecords)
        /\ todo \in Seq(TaskRecords)
    BY DEF Effect!Init
  <2>2. fxshow \in [Elems -> ShowRecords]
    <3>1. Effect!NoShow \in ShowRecords
      BY DEF Effect!NoShow, Effect!None, ShowRecords
    <3>2. QED
      BY <3>1 DEF Effect!Init
  <2>3. height \in [Elems -> 0..2] /\ calls \in 0..MaxEffects
    BY EffectConstants DEF Effect!Init, Effect!Full
  <2>4. QED
    BY <2>1, <2>2, <2>3 DEF Effect!Init, EffectTyped
<1>2. timers = <<>> /\ Len(timers) = 0 /\ todo = <<>>
  BY DEF Effect!Init
<1>3. \A e \in Elems : ~Going(e)
  BY <1>2 DEF Going
<1>4. OneEach
  BY <1>2 DEF OneEach
<1>5. \A e \in Elems : ElementInv(e)
  BY <1>3 DEF Effect!Init, ElementInv, Effect!Full, Effect!NoShow
<1>6. \A e \in Elems : Served(e)
  BY <1>3 DEF Effect!Init, Served, Free
<1>7. QED
  BY <1>1, <1>2, <1>4, <1>5, <1>6 DEF EffectIInv, TodoInv

LEMMA NoneLeft ==
  ASSUME NEW e, NEW s, s = <<>>
  PROVE  Finishing(e, s) /\ Finishing(e, s)'
<1>1. Len(s) = 0 /\ 1..Len(s) = {}
  OBVIOUS
<1>2. QED
  BY <1>1 DEF Finishing

LEMMA DequeueNext ==
  ASSUME NEW e \in Elems, NEW s, todo' # <<>>, Head(todo') = Effect!Do("dequeue", e),
         Tail(todo') = s, Free(e)', Finishing(e, s)' \/ BeforeStop(e, s)' \/ Ticking(s)
  PROVE  ToDequeue(e)'
<1>1. Head(todo').do = "dequeue" /\ Head(todo').elem = e
  BY DEF Effect!Do
<1>2. QED
  BY <1>1 DEF ToDequeue, Finishing, BeforeStop, Ticking

LEMMA StopNext ==
  ASSUME NEW e \in Elems, NEW u, NEW s, todo' # <<>>, Head(todo') = u, Tail(todo') = s,
         Stopping(e, u)', Finishing(e, s)'
  PROVE  ToStop(e)'
  BY DEF ToStop, Stopping, Finishing

LEMMA EnqueueInv ==
  ASSUME EffectIInv, NEW e \in Elems, NEW entry \in Effect!Acts \cup {"delay"},
         Effect!Enqueue(e, entry)
  PROVE  EffectIInv'
<1>1. /\ todo = <<>> /\ calls' = calls + 1 /\ calls < MaxEffects
      /\ queue' = [queue EXCEPT ![e] = Append(queue[e], entry)]
      /\ hooked' = [hooked EXCEPT ![e] = TRUE]
      /\ todo' = IF Head(queue'[e]) = "inprogress" THEN <<>> ELSE <<Effect!Do("dequeue", e)>>
      /\ UNCHANGED <<stopper, delays, promised, timers, ticking, shown, height, clipped, fxshow>>
  BY DEF Effect!Enqueue, Effect!Call, Effect!elements
<1>2. queue \in [Elems -> Seq(Effect!Entries)] /\ entry \in Effect!Entries
  BY DEF EffectIInv, EffectTyped, Effect!Entries
<1>3. Effect!Do("dequeue", e) \in TaskRecords
  BY DoFacts
<1>4. EffectTyped'
  <2>1. queue' \in [Elems -> Seq(Effect!Entries)]
    BY <1>1, <1>2
  <2>2. todo' \in Seq(TaskRecords)
    BY <1>1, <1>3
  <2>3. calls' \in 0..MaxEffects
    BY <1>1, EffectConstants DEF EffectIInv, EffectTyped
  <2>4. QED
    BY <1>1, <2>1, <2>2, <2>3 DEF EffectIInv, EffectTyped
<1>5. OneEach' /\ \A d \in Elems : Going(d)' <=> Going(d)
  BY <1>1 DEF EffectIInv, OneEach, Going
<1>6. \A d \in Elems : ElementInv(d)'
  BY <1>1, <1>5 DEF EffectIInv, ElementInv
<1>7. Elsewhere(e)
  BY <1>1, <1>2, <1>5 DEF Elsewhere
<1>8. \A d \in Elems \ {e} : Served(d)'
  BY <1>1, <1>7, ElsewhereKept, TodoFacts
<1>9. Served(e)
  BY <1>1, TodoFacts
<1>10. CASE Marked(e)
  <2>1. queue'[e] # <<>> /\ Head(queue'[e]) = "inprogress"
    <3>1. PICK q : q = queue[e]
      OBVIOUS
    <3>2. q \in Seq(Effect!Entries) /\ q # <<>> /\ Head(q) = "inprogress"
      BY <1>2, <1>10, <3>1 DEF Marked
    <3>3. Append(q, entry) # <<>> /\ Head(Append(q, entry)) = Head(q)
      BY <1>2, <3>2
    <3>4. QED
      BY <1>1, <1>2, <3>1, <3>2, <3>3
  <2>2. todo' = <<>>
    BY <1>1, <2>1
  <2>3. Served(e)'
    BY <1>1, <1>5, <1>9, <1>10, <2>1 DEF Served, Marked, Free
  <2>4. QED
    BY <1>1, <1>4, <1>5, <1>6, <1>8, <2>2, <2>3 DEF EffectIInv, TodoInv
<1>11. CASE ~Marked(e)
  <2>1. Free(e) /\ queue[e] = <<>>
    BY <1>9, <1>11 DEF Served
  <2>2. Head(queue'[e]) # "inprogress"
    <3>1. Append(<<>>, entry) = <<entry>> /\ Head(<<entry>>) = entry
      OBVIOUS
    <3>2. entry # "inprogress"
      BY DEF Effect!Acts
    <3>3. QED
      BY <1>1, <1>2, <2>1, <3>1, <3>2
  <2>3. todo' = <<Effect!Do("dequeue", e)>>
    BY <1>1, <2>2
  <2>4. todo' # <<>> /\ Head(todo') = Effect!Do("dequeue", e) /\ Tail(todo') = <<>>
    BY <1>3, <2>3, OneFacts
  <2>5. ToDequeue(e)'
    <3>1. Free(e)'
      BY <1>1, <1>5, <2>1 DEF Free
    <3>2. QED
      BY <2>4, <3>1, NoneLeft, DequeueNext
  <2>6. QED
    BY <1>1, <1>4, <1>5, <1>6, <1>8, <2>5 DEF EffectIInv, TodoInv
<1>12. QED
  BY <1>10, <1>11

LEMMA StopDelayFacts ==
  ASSUME EffectIInv, NEW e \in Elems, Effect!StopDelay(e)
  PROVE  /\ stopper' \in [Elems -> BOOLEAN] /\ delays' \in [Elems -> {0, 1}]
         /\ delays'[e] = 0 /\ ~stopper'[e]
         /\ \A d \in Elems \ {e} : delays'[d] = delays[d] /\ stopper'[d] = stopper[d]
  BY DEF EffectIInv, EffectTyped, ElementInv, Effect!StopDelay

LEMMA StopInv ==
  ASSUME EffectIInv, NEW e \in Elems, NEW goto \in BOOLEAN, Effect!Stop(e, goto)
  PROVE  EffectIInv'
<1>1. /\ todo = <<>> /\ calls' = calls + 1 /\ calls < MaxEffects /\ Effect!StopDelay(e)
      /\ todo' = <<Effect!StopLoop(e, goto, FALSE)>>
      /\ UNCHANGED <<queue, hooked, promised, timers, ticking, shown, height, clipped, fxshow>>
  BY DEF Effect!Stop, Effect!Call, Effect!elements
<1>2. PICK u : u = Effect!StopLoop(e, goto, FALSE)
  OBVIOUS
<1>3. /\ u \in TaskRecords /\ u.do = "stop" /\ u.elem = e /\ u.at = Len(timers)
      /\ u.any = FALSE /\ todo' = <<u>>
  <2>1. Len(timers) \in Nat
    BY DEF EffectIInv, EffectTyped
  <2>2. QED
    BY <1>1, <1>2, <2>1 DEF Effect!StopLoop, TaskRecords, Effect!Entries, Effect!Acts
<1>4. todo' \in Seq(TaskRecords) /\ todo' # <<>> /\ Head(todo') = u /\ Tail(todo') = <<>>
  BY <1>3, OneFacts
<1>5. calls' \in 0..MaxEffects
  BY <1>1, EffectConstants DEF EffectIInv, EffectTyped
<1>6. EffectTyped'
  BY <1>1, <1>4, <1>5, StopDelayFacts DEF EffectIInv, EffectTyped
<1>7. OneEach' /\ \A d \in Elems : Going(d)' <=> Going(d)
  BY <1>1 DEF EffectIInv, OneEach, Going
<1>8. Elsewhere(e)
  BY <1>1, <1>7, StopDelayFacts DEF Elsewhere
<1>9. ElementInv(e)'
  BY <1>1, <1>7, StopDelayFacts DEF EffectIInv, ElementInv
<1>10. \A d \in Elems \ {e} : Served(d)' /\ ElementInv(d)'
  BY <1>1, <1>8, ElsewhereKept, TodoFacts DEF EffectIInv
<1>11. ToStop(e)'
  <2>1. Len(timers) \in Nat
    BY DEF EffectIInv, EffectTyped
  <2>2. Stopping(e, u)'
    BY <1>1, <1>3, <2>1, StopDelayFacts DEF Stopping
  <2>3. QED
    BY <1>4, <2>2, NoneLeft, StopNext
<1>12. QED
  BY <1>1, <1>6, <1>7, <1>9, <1>10, <1>11 DEF EffectIInv, TodoInv

LEMMA FinishInv ==
  ASSUME EffectIInv, NEW e \in Elems, Effect!Finish(e)
  PROVE  EffectIInv'
<1> DEFINE entries == Effect!Waiting(e)
           F == [i \in DOMAIN entries |-> [Effect!Do("finish", e) EXCEPT !.act = entries[i]]]
<1>1. /\ todo = <<>> /\ calls' = calls + 1 /\ calls < MaxEffects /\ Effect!StopDelay(e)
      /\ queue' = [queue EXCEPT ![e] = <<>>]
      /\ todo' = <<Effect!StopLoop(e, TRUE, TRUE)>> \o F
      /\ UNCHANGED <<hooked, promised, timers, ticking, shown, height, clipped, fxshow>>
  BY DEF Effect!Finish, Effect!Call, Effect!elements
<1>2. entries \in Seq(Effect!Entries)
  BY TailFacts DEF EffectIInv, EffectTyped, Effect!Waiting
<1> HIDE DEF entries
<1>3. /\ F \in Seq(TaskRecords)
      /\ \A i \in 1..Len(F) : F[i].do = "finish" /\ F[i].elem = e
  <2>1. ASSUME NEW i \in DOMAIN entries
        PROVE  /\ F[i] \in TaskRecords /\ F[i].do = "finish" /\ F[i].elem = e
    <3>1. entries[i] \in Effect!Entries
      BY <1>2
    <3>2. QED
      BY <3>1 DEF Effect!Do, TaskRecords
  <2>2. DOMAIN entries = 1..Len(entries) /\ Len(entries) \in Nat
    BY <1>2
  <2> HIDE DEF F
  <2>3. F = [i \in 1..Len(entries) |-> F[i]]
    BY <2>2 DEF F
  <2>4. F \in Seq(TaskRecords) /\ Len(F) = Len(entries)
    BY <2>1, <2>2, <2>3
  <2>5. QED
    BY <2>1, <2>2, <2>4
<1> HIDE DEF F
<1>4. PICK u : u = Effect!StopLoop(e, TRUE, TRUE)
  OBVIOUS
<1>5. u \in TaskRecords /\ u.do = "stop" /\ u.elem = e /\ u.at = Len(timers)
  <2>1. Len(timers) \in Nat
    BY DEF EffectIInv, EffectTyped
  <2>2. QED
    BY <1>4, <2>1 DEF Effect!StopLoop, TaskRecords, Effect!Entries, Effect!Acts
<1>6. todo' \in Seq(TaskRecords) /\ todo' # <<>> /\ Head(todo') = u /\ Tail(todo') = F
  BY <1>1, <1>3, <1>4, <1>5, ConsFacts
<1>7. calls' \in 0..MaxEffects /\ queue' \in [Elems -> Seq(Effect!Entries)] /\ queue'[e] = <<>>
  BY <1>1, EffectConstants DEF EffectIInv, EffectTyped
<1>8. EffectTyped'
  BY <1>1, <1>6, <1>7, StopDelayFacts DEF EffectIInv, EffectTyped
<1>9. OneEach' /\ \A d \in Elems : Going(d)' <=> Going(d)
  BY <1>1 DEF EffectIInv, OneEach, Going
<1>10. Elsewhere(e)
  <2>1. \A d \in Elems \ {e} : queue'[d] = queue[d]
    BY <1>1 DEF EffectIInv, EffectTyped
  <2>2. QED
    BY <1>1, <1>9, <2>1, StopDelayFacts DEF Elsewhere
<1>11. ElementInv(e)'
  BY <1>1, <1>9, StopDelayFacts DEF EffectIInv, ElementInv
<1>12. \A d \in Elems \ {e} : Served(d)' /\ ElementInv(d)'
  BY <1>1, <1>10, ElsewhereKept, TodoFacts DEF EffectIInv
<1>13. ToStop(e)'
  <2>1. PICK s : s = F
    OBVIOUS
  <2>2. Finishing(e, s)' /\ Tail(todo') = s
    BY <1>3, <1>6, <1>7, <2>1 DEF Finishing
  <2>3. Len(timers) \in Nat
    BY DEF EffectIInv, EffectTyped
  <2>4. Stopping(e, u)'
    BY <1>1, <1>5, <1>7, <2>3, StopDelayFacts DEF Stopping
  <2>5. QED
    BY <1>6, <2>2, <2>4, StopNext
<1>14. QED
  BY <1>1, <1>8, <1>9, <1>11, <1>12, <1>13 DEF EffectIInv, TodoInv

LEMMA PromiseInv ==
  ASSUME EffectIInv, NEW e \in Elems, Effect!Promise(e)
  PROVE  EffectIInv'
<1>1. /\ todo = <<>> /\ calls' = calls + 1 /\ calls < MaxEffects
      /\ promised' = [promised EXCEPT ![e] = IF hooked[e] THEN "waiting" ELSE "resolved"]
      /\ UNCHANGED <<queue, hooked, stopper, delays, timers, ticking, shown, height, clipped,
                     fxshow, todo>>
  BY DEF Effect!Promise, Effect!Call, Effect!elements
<1>2. calls' \in 0..MaxEffects
  BY <1>1, EffectConstants DEF EffectIInv, EffectTyped
<1>3. EffectTyped'
  BY <1>1, <1>2 DEF EffectIInv, EffectTyped
<1>4. OneEach' /\ \A d \in Elems : Going(d)' <=> Going(d)
  BY <1>1 DEF EffectIInv, OneEach, Going
<1>5. \A d \in Elems : ElementInv(d)'
  BY <1>1, <1>4 DEF EffectIInv, ElementInv
<1>6. \A d \in Elems : Served(d)'
  BY <1>1, <1>4, TodoFacts DEF Served, Free, Marked
<1>7. QED
  BY <1>1, <1>3, <1>4, <1>5, <1>6 DEF EffectIInv, TodoInv

LEMMA DelayEndsInv ==
  ASSUME EffectIInv, NEW e \in Elems, Effect!DelayEnds(e)
  PROVE  EffectIInv'
<1>1. delays[e] = 1 /\ delays \in [Elems -> {0, 1}] /\ stopper \in [Elems -> BOOLEAN]
  BY DEF Effect!DelayEnds, EffectIInv, EffectTyped
<1>2. /\ todo = <<>> /\ delays' = [delays EXCEPT ![e] = 0]
      /\ stopper' = [stopper EXCEPT ![e] = FALSE] /\ todo' = <<Effect!Do("dequeue", e)>>
      /\ UNCHANGED <<queue, hooked, promised, timers, ticking, shown, height, clipped, fxshow,
                     calls>>
  BY <1>1 DEF Effect!DelayEnds, Effect!elements
<1>3. /\ todo' \in Seq(TaskRecords) /\ todo' # <<>> /\ Head(todo') = Effect!Do("dequeue", e)
      /\ Tail(todo') = <<>>
  BY <1>2, DoFacts, OneFacts
<1>4. EffectTyped'
  BY <1>1, <1>2, <1>3 DEF EffectIInv, EffectTyped
<1>5. OneEach' /\ \A d \in Elems : Going(d)' <=> Going(d)
  BY <1>2 DEF EffectIInv, OneEach, Going
<1>6. Elsewhere(e)
  BY <1>1, <1>2, <1>5 DEF Elsewhere
<1>7. ElementInv(e)'
  BY <1>1, <1>2, <1>5 DEF EffectIInv, ElementInv
<1>8. \A d \in Elems \ {e} : Served(d)' /\ ElementInv(d)'
  BY <1>2, <1>6, ElsewhereKept, TodoFacts DEF EffectIInv
<1>9. ToDequeue(e)'
  <2>1. Free(e)'
    BY <1>1, <1>2, <1>5 DEF EffectIInv, ElementInv, Free
  <2>2. QED
    BY <1>3, <2>1, NoneLeft, DequeueNext
<1>10. QED
  BY <1>2, <1>4, <1>5, <1>7, <1>8, <1>9 DEF EffectIInv, TodoInv

LEMMA TickInv ==
  ASSUME EffectIInv, Effect!Tick
  PROVE  EffectIInv'
<1> DEFINE u == [Effect!Do("tick", CHOOSE e \in Elems : TRUE) EXCEPT !.at = 1]
<1>1. /\ todo = <<>> /\ ticking /\ todo' = <<u>>
      /\ timers' = [i \in DOMAIN timers |->
                      [timers[i] EXCEPT !.left = IF @ = 0 THEN 0 ELSE @ - 1]]
      /\ UNCHANGED <<queue, hooked, stopper, delays, promised, ticking, shown, height, clipped,
                     fxshow, calls>>
  BY DEF Effect!Tick, Effect!elements
<1>2. u \in TaskRecords /\ u.do = "tick" /\ u.at = 1
  <2>1. (CHOOSE e \in Elems : TRUE) \in Elems
    BY EffectConstants
  <2>2. QED
    BY <2>1 DEF Effect!Do, TaskRecords, Effect!Entries, Effect!Acts
<1> HIDE DEF u
<1>3. todo' \in Seq(TaskRecords) /\ todo' # <<>> /\ Head(todo') = u /\ Tail(todo') = <<>>
  BY <1>1, <1>2, OneFacts
<1>4. /\ timers \in Seq(TimerRecords) /\ DOMAIN timers = 1..Len(timers) /\ Len(timers) \in Nat
  BY DEF EffectIInv, EffectTyped
<1>5. /\ timers' \in Seq(TimerRecords) /\ Len(timers') = Len(timers)
      /\ \A i \in 1..Len(timers) : timers'[i].elem = timers[i].elem
  <2>1. ASSUME NEW i \in 1..Len(timers)
        PROVE  /\ [timers[i] EXCEPT !.left = IF @ = 0 THEN 0 ELSE @ - 1] \in TimerRecords
               /\ [timers[i] EXCEPT !.left = IF @ = 0 THEN 0 ELSE @ - 1].elem = timers[i].elem
    <3>1. timers[i] \in TimerRecords
      BY <1>4
    <3>2. PICK x : x = IF timers[i].left = 0 THEN 0 ELSE timers[i].left - 1
      OBVIOUS
    <3>3. x \in 0..Duration
      <4>1. timers[i].left \in 0..Duration
        BY <3>1 DEF TimerRecords
      <4>2. QED
        BY <3>2, <4>1, EffectConstants
    <3>4. [timers[i] EXCEPT !.left = x] \in TimerRecords
      BY <3>1, <3>3 DEF TimerRecords
    <3>5. [timers[i] EXCEPT !.left = x].elem = timers[i].elem
      BY <3>1 DEF TimerRecords
    <3>6. QED
      BY <3>2, <3>4, <3>5
  <2>2. DOMAIN timers' = 1..Len(timers) /\ \A i \in 1..Len(timers) :
          timers'[i] \in TimerRecords /\ timers'[i].elem = timers[i].elem
    BY <1>1, <1>4, <2>1
  <2>3. timers' = [i \in 1..Len(timers) |-> timers'[i]]
    BY <1>1, <1>4
  <2>4. QED
    BY <1>4, <2>2, <2>3
<1>6. EffectTyped'
  BY <1>1, <1>3, <1>5 DEF EffectIInv, EffectTyped
<1>7. OneEach' /\ \A d \in Elems : Going(d)' <=> Going(d)
  BY <1>5 DEF EffectIInv, OneEach, Going
<1>8. \A d \in Elems : ElementInv(d)'
  BY <1>1, <1>7 DEF EffectIInv, ElementInv
<1>9. \A d \in Elems : Served(d)'
  BY <1>1, <1>7, TodoFacts DEF Served, Free, Marked
<1>10. Ticking(todo)'
  BY <1>2, <1>3 DEF Ticking
<1>11. QED
  BY <1>1, <1>6, <1>7, <1>8, <1>9, <1>10 DEF EffectIInv, TodoInv

(* An animation begins: it knows the natural height, and so does the element. *)
LEMMA AnimationFacts ==
  ASSUME EffectIInv, NEW e \in Elems, ~Going(e), NEW act \in Effect!Entries,
         NEW t, t = Effect!Animation(e, act), NEW w, w = Effect!Noted(e, act)
  PROVE  /\ t \in TimerRecords /\ t.elem = e /\ t.start \in 0..2
         /\ w \in ShowRecords /\ w.on /\ w.height = 2
<1>1. /\ fxshow[e] \in ShowRecords /\ height[e] \in 0..2 /\ shown[e] \in BOOLEAN
      /\ clipped[e] = FALSE /\ Duration \in Nat
      /\ IF fxshow[e].on THEN fxshow[e].height = 2 ELSE height[e] = 2
  BY EffectConstants DEF EffectIInv, EffectTyped, ElementInv
<1>2. fxshow[e].on \in BOOLEAN /\ fxshow[e].height \in 0..2
      /\ fxshow[e].hidden \in {"unset", "yes", "no"}
  BY <1>1 DEF ShowRecords
<1>3. Effect!Hidden(e) \in BOOLEAN
  BY <1>1 DEF Effect!Hidden
<1>4. Effect!Original(e) = 2
  BY <1>1 DEF Effect!Original, Effect!None
<1>5. t = [elem |-> e, left |-> Duration,
           start |-> IF Effect!Hidden(e) /\ ~fxshow[e].on THEN 1 ELSE height[e],
           end |-> IF ~Effect!Hidden(e) THEN 0
                   ELSE IF ~fxshow[e].on THEN height[e] ELSE fxshow[e].height,
           hides |-> ~Effect!Hidden(e), original |-> 2, clipped |-> FALSE]
  BY <1>1, <1>4 DEF Effect!Animation, Effect!Between, Effect!None
<1>6. t \in TimerRecords /\ t.elem = e /\ t.start \in 0..2
  BY <1>1, <1>2, <1>3, <1>5 DEF TimerRecords
<1>7. w \in ShowRecords /\ w.on /\ w.height = 2
  BY <1>1, <1>2 DEF Effect!Noted, ShowRecords
<1>8. QED
  BY <1>6, <1>7

LEMMA ResolvedFacts ==
  ASSUME EffectIInv, NEW e \in Elems, NEW t, t \in TimerRecords, Effect!Resolved(e, t)
  PROVE  /\ shown' \in [Elems -> BOOLEAN] /\ clipped' \in [Elems -> BOOLEAN]
         /\ height' \in [Elems -> 0..2] /\ fxshow' \in [Elems -> ShowRecords]
         /\ clipped'[e] = FALSE /\ height'[e] = 2 /\ fxshow'[e].on = FALSE
         /\ \A d \in Elems \ {e} :
              clipped'[d] = clipped[d] /\ height'[d] = height[d] /\ fxshow'[d] = fxshow[d]
<1>1. t.hides \in BOOLEAN /\ t.original = 2 /\ t.clipped = FALSE
  BY DEF TimerRecords
<1>2. Effect!NoShow \in ShowRecords /\ Effect!NoShow.on = FALSE
  BY DEF Effect!NoShow, ShowRecords, Effect!None
<1>3. /\ shown \in [Elems -> BOOLEAN] /\ clipped \in [Elems -> BOOLEAN]
      /\ height \in [Elems -> 0..2] /\ fxshow \in [Elems -> ShowRecords]
  BY DEF EffectIInv, EffectTyped
<1>4. shown' \in [Elems -> BOOLEAN]
  BY <1>1, <1>3 DEF Effect!Resolved
<1>5. /\ clipped' \in [Elems -> BOOLEAN] /\ clipped'[e] = FALSE
      /\ \A d \in Elems \ {e} : clipped'[d] = clipped[d]
  BY <1>1, <1>3 DEF Effect!Resolved
<1>6. /\ height' \in [Elems -> 0..2] /\ height'[e] = 2
      /\ \A d \in Elems \ {e} : height'[d] = height[d]
  BY <1>1, <1>3 DEF Effect!Resolved
<1>7. /\ fxshow' = [fxshow EXCEPT ![e] = Effect!NoShow]
  BY DEF Effect!Resolved
<1>8. /\ fxshow' \in [Elems -> ShowRecords] /\ fxshow'[e] = Effect!NoShow
      /\ \A d \in Elems \ {e} : fxshow'[d] = fxshow[d]
  BY <1>2, <1>3, <1>7
<1>9. QED
  BY <1>2, <1>4, <1>5, <1>6, <1>8

LEMMA FinishingFacts ==
  ASSUME NEW e \in Elems, NEW s \in Seq(TaskRecords), s # <<>>, Finishing(e, s)
  PROVE  /\ Head(s).do = "finish" /\ Head(s).elem = e /\ queue[e] = <<>>
         /\ Tail(s) \in Seq(TaskRecords) /\ Finishing(e, Tail(s))
         /\ queue'[e] = <<>> => Finishing(e, Tail(s))'
<1>1. PICK u : u = Tail(s)
  OBVIOUS
<1>2. /\ u \in Seq(TaskRecords) /\ Len(u) = Len(s) - 1 /\ Head(s) = s[1]
      /\ \A i \in 1..(Len(s) - 1) : u[i] = s[i + 1]
      /\ Len(s) \in Nat \ {0}
  BY <1>1, TailFacts
<1>3. Head(s).do = "finish" /\ Head(s).elem = e /\ queue[e] = <<>>
  BY <1>2 DEF Finishing
<1>4. \A i \in 1..Len(u) : u[i].do = "finish" /\ u[i].elem = e
  BY <1>2 DEF Finishing
<1>5. QED
  BY <1>1, <1>2, <1>3, <1>4 DEF Finishing

(* The next function of the queue has been begun, or there was none. *)
LEMMA ServedNext ==
  ASSUME NEW e \in Elems, NEW s \in Seq(TaskRecords),
         Finishing(e, s) \/ BeforeStop(e, s) \/ Ticking(s), todo' = s,
         Len(timers) \in Nat, Len(timers') \in Nat, Len(timers) <= Len(timers'),
         \A i \in 1..Len(timers') : timers'[i].elem = e => i > Len(timers),
         \A d \in Elems : Served(d)', queue[e] = <<>> => queue'[e] = <<>> /\ Free(e)'
  PROVE  TodoInv'
<1>1. CASE s = <<>>
  BY <1>1 DEF TodoInv
<1>2. CASE s # <<>> /\ Finishing(e, s)
  <2>1. /\ Head(s).do = "finish" /\ Head(s).elem = e /\ queue[e] = <<>>
        /\ queue'[e] = <<>> /\ Free(e)' /\ Finishing(e, Tail(s))'
    BY <1>2, FinishingFacts
  <2>2. ToFinish(e)'
    BY <1>2, <2>1 DEF ToFinish, Finishing
  <2>3. QED
    BY <2>2 DEF TodoInv
<1>3. CASE BeforeStop(e, s)
  <2>1. PICK u, w : u = Head(s) /\ w = Tail(s)
    OBVIOUS
  <2>2. /\ u.do = "stop" /\ u.elem = e /\ u.goto /\ u.any /\ u.at <= Len(timers)
        /\ Finishing(e, w) /\ s # <<>> /\ u \in TaskRecords
    BY <1>3, <2>1, TailFacts DEF BeforeStop
  <2>3. u.at \in Nat
    BY <2>2 DEF TaskRecords
  <2>4. Stopping(e, u)'
    <3>1. u.at \in 0..Len(timers')
      BY <2>2, <2>3
    <3>2. \A i \in 1..Len(timers') : timers'[i].elem = e => i > u.at
      BY <2>2, <2>3
    <3>3. QED
      BY <2>2, <3>1, <3>2 DEF Stopping
  <2>5. Finishing(e, w)'
    BY <2>2 DEF Finishing
  <2>6. ToStop(e)'
    BY <2>1, <2>2, <2>4, <2>5, StopNext
  <2>7. QED
    BY <2>6 DEF TodoInv
<1>4. CASE Ticking(s)
  BY <1>4 DEF TodoInv, Ticking
<1>5. QED
  BY <1>1, <1>2, <1>3, <1>4

LEMMA DequeueInv ==
  ASSUME EffectIInv, Effect!Dequeue
  PROVE  EffectIInv'
<1>1. PICK e, s, W : e = Head(todo).elem /\ s = Tail(todo) /\ W = Effect!Waiting(e)
  OBVIOUS
<1>2. /\ todo # <<>> /\ Head(todo).do = "dequeue" /\ e \in Elems /\ s \in Seq(TaskRecords)
      /\ ToDequeue(e) /\ \A d \in Elems \ {e} : Served(d)
  BY <1>1, TodoFacts DEF Effect!Dequeue, TaskRecords
<1>3. /\ Finishing(e, s) \/ BeforeStop(e, s) \/ Ticking(s)
      /\ Free(e) /\ ~Going(e) /\ delays[e] = 0
  BY <1>1, <1>2 DEF ToDequeue, Free
<1>4. /\ queue \in [Elems -> Seq(Effect!Entries)] /\ stopper \in [Elems -> BOOLEAN]
      /\ delays \in [Elems -> {0, 1}] /\ timers \in Seq(TimerRecords) /\ Len(timers) \in Nat
      /\ hooked \in [Elems -> BOOLEAN] /\ calls' = calls
  BY DEF EffectIInv, EffectTyped, Effect!Dequeue
<1>5. W \in Seq(Effect!Entries) /\ (queue[e] = <<>> => W = <<>>)
  BY <1>1, <1>2, <1>4, TailFacts DEF Effect!Waiting
<1>6. \A i \in 1..Len(timers) : timers[i].elem # e
  BY <1>3 DEF Going
<1>7. CASE W = <<>>
  <2>1. /\ queue' = [queue EXCEPT ![e] = <<>>] /\ hooked' = [hooked EXCEPT ![e] = FALSE]
        /\ stopper' = [stopper EXCEPT ![e] = FALSE] /\ todo' = s
        /\ promised' = [promised EXCEPT ![e] = IF @ = "waiting" THEN "resolved" ELSE @]
        /\ UNCHANGED <<delays, timers, ticking, shown, height, clipped, fxshow>>
    BY <1>1, <1>7 DEF Effect!Dequeue, Effect!Emptied, Effect!elements
  <2>2. EffectTyped'
    BY <1>2, <1>4, <2>1 DEF EffectIInv, EffectTyped
  <2>3. OneEach' /\ \A d \in Elems : Going(d)' <=> Going(d)
    BY <2>1 DEF EffectIInv, OneEach, Going
  <2>4. Elsewhere(e)
    BY <1>2, <1>4, <2>1, <2>3 DEF Elsewhere
  <2>5. ElementInv(e)'
    BY <1>2, <1>3, <1>4, <2>1, <2>3 DEF EffectIInv, ElementInv
  <2>6. Free(e)' /\ queue'[e] = <<>> /\ Served(e)'
    BY <1>2, <1>3, <1>4, <2>1, <2>3 DEF Served, Free
  <2>7. \A d \in Elems : Served(d)' /\ ElementInv(d)'
    BY <1>2, <2>4, <2>5, <2>6, ElsewhereKept DEF EffectIInv
  <2>8. TodoInv'
    <3>1. /\ Len(timers') \in Nat /\ Len(timers) <= Len(timers')
          /\ \A i \in 1..Len(timers') : timers'[i].elem = e => i > Len(timers)
      BY <1>4, <1>6, <2>1
    <3>2. todo' = s /\ (queue[e] = <<>> => queue'[e] = <<>> /\ Free(e)')
      BY <2>1, <2>6
    <3>3. QED
      BY <1>2, <1>3, <1>4, <2>7, <3>1, <3>2, ServedNext
  <2>9. QED
    BY <2>1, <2>2, <2>3, <2>7, <2>8 DEF EffectIInv
<1>8. CASE W # <<>>
  <2>1. PICK act, q : act = Head(W) /\ q = <<"inprogress">> \o Tail(W)
    OBVIOUS
  <2>2. /\ queue' = [queue EXCEPT ![e] = q] /\ hooked' = [hooked EXCEPT ![e] = TRUE]
        /\ UNCHANGED promised
    BY <1>1, <1>8, <2>1 DEF Effect!Dequeue, Effect!InProgress
  <2>3. act \in Effect!Entries /\ q \in Seq(Effect!Entries) /\ q # <<>> /\ Head(q) = "inprogress"
    <3>1. "inprogress" \in Effect!Entries /\ Tail(W) \in Seq(Effect!Entries) /\ act \in Effect!Entries
      BY <1>5, <1>8, <2>1, TailFacts DEF Effect!Entries
    <3>2. QED
      BY <2>1, <3>1, ConsFacts
  <2>4. /\ queue[e] # <<>> /\ Marked(e)' /\ queue' \in [Elems -> Seq(Effect!Entries)]
        /\ hooked' \in [Elems -> BOOLEAN] /\ \A d \in Elems \ {e} : queue'[d] = queue[d]
    BY <1>2, <1>4, <1>5, <1>8, <2>2, <2>3 DEF Marked
  <2>5. CASE act = "delay" /\ delays' = [delays EXCEPT ![e] = @ + 1]
             /\ stopper' = [stopper EXCEPT ![e] = TRUE] /\ todo' = s
             /\ UNCHANGED <<timers, ticking, shown, height, clipped, fxshow>>
    <3>1. /\ delays' \in [Elems -> {0, 1}] /\ delays'[e] = 1 /\ stopper' \in [Elems -> BOOLEAN]
          /\ stopper'[e] = TRUE
          /\ \A d \in Elems \ {e} : delays'[d] = delays[d] /\ stopper'[d] = stopper[d]
      BY <1>2, <1>3, <1>4, <2>5
    <3>2. EffectTyped'
      BY <1>2, <1>4, <2>2, <2>4, <2>5, <3>1 DEF EffectIInv, EffectTyped
    <3>3. OneEach' /\ \A d \in Elems : Going(d)' <=> Going(d)
      BY <2>5 DEF EffectIInv, OneEach, Going
    <3>4. Elsewhere(e)
      BY <2>4, <2>5, <3>1, <3>3 DEF Elsewhere
    <3>5. ElementInv(e)'
      BY <1>2, <1>3, <2>5, <3>1, <3>3 DEF EffectIInv, ElementInv
    <3>6. Served(e)'
      BY <2>4, <3>1 DEF Served, Free
    <3>7. \A d \in Elems : Served(d)' /\ ElementInv(d)'
      BY <1>2, <3>4, <3>5, <3>6, ElsewhereKept DEF EffectIInv
    <3>8. TodoInv'
      <4>1. /\ Len(timers') \in Nat /\ Len(timers) <= Len(timers')
            /\ \A i \in 1..Len(timers') : timers'[i].elem = e => i > Len(timers)
        BY <1>4, <1>6, <2>5
      <4>2. todo' = s /\ (queue[e] = <<>> => queue'[e] = <<>> /\ Free(e)')
        BY <2>4, <2>5
      <4>3. QED
        BY <1>2, <1>3, <1>4, <3>7, <4>1, <4>2, ServedNext
    <3>9. QED
      BY <2>5, <3>2, <3>3, <3>7, <3>8 DEF EffectIInv
  <2>6. CASE stopper' = [stopper EXCEPT ![e] = FALSE] /\ UNCHANGED delays
             /\ todo' = <<Effect!Do("dequeue", e)>> \o s
             /\ UNCHANGED <<timers, ticking, shown, height, clipped, fxshow>>
    <3>1. Effect!Do("dequeue", e) \in TaskRecords
      BY <1>2 DEF Effect!Do, TaskRecords, Effect!Entries, Effect!Acts
    <3>2. /\ todo' \in Seq(TaskRecords) /\ todo' # <<>> /\ Tail(todo') = s
          /\ Head(todo') = Effect!Do("dequeue", e)
      BY <1>2, <2>6, <3>1, ConsFacts
    <3>3. EffectTyped'
      BY <1>2, <1>4, <2>2, <2>4, <2>6, <3>2 DEF EffectIInv, EffectTyped
    <3>4. OneEach' /\ \A d \in Elems : Going(d)' <=> Going(d)
      BY <2>6 DEF EffectIInv, OneEach, Going
    <3>5. Elsewhere(e)
      BY <1>4, <2>4, <2>6, <3>4 DEF Elsewhere
    <3>6. ElementInv(e)' /\ Free(e)'
      BY <1>2, <1>3, <1>4, <2>6, <3>4 DEF EffectIInv, ElementInv, Free
    <3>7. /\ \A d \in Elems \ {e} : Served(d)'
          /\ \A d \in Elems : ElementInv(d)'
      BY <1>2, <3>5, <3>6, ElsewhereKept DEF EffectIInv
    <3>8. Finishing(e, s)' \/ BeforeStop(e, s)' \/ Ticking(s)
      <4>1. Finishing(e, s) => Finishing(e, s)'
        BY <2>4 DEF Finishing
      <4>2. BeforeStop(e, s) => BeforeStop(e, s)'
        BY <2>4, <2>6 DEF BeforeStop, Finishing
      <4>3. QED
        BY <1>3, <4>1, <4>2
    <3>9. ToDequeue(e)'
      BY <1>2, <3>2, <3>6, <3>8, DequeueNext
    <3>10. QED
      BY <1>2, <2>6, <3>3, <3>4, <3>7, <3>9 DEF EffectIInv, TodoInv
  <2>7. CASE stopper' = [stopper EXCEPT ![e] = FALSE] /\ UNCHANGED delays
             /\ timers' = Append(timers, Effect!Animation(e, act)) /\ ticking' = TRUE
             /\ Effect!Begin(e, act) /\ todo' = s
    <3>1. PICK t, w : t = Effect!Animation(e, act) /\ w = Effect!Noted(e, act)
      OBVIOUS
    <3>2. /\ t \in TimerRecords /\ t.elem = e /\ t.start \in 0..2
          /\ w \in ShowRecords /\ w.on /\ w.height = 2
      BY <1>2, <1>3, <2>3, <3>1, AnimationFacts
    <3>3. /\ timers' \in Seq(TimerRecords) /\ Len(timers') = Len(timers) + 1 /\ OneEach'
          /\ Going(e)' /\ \A d \in Elems \ {e} : Going(d)' <=> Going(d)
          /\ \A i \in 1..Len(timers') : timers'[i].elem = e => i > Len(timers)
      BY <1>3, <2>7, <3>1, <3>2, TimerAdded DEF EffectIInv
    <3>4. /\ shown' = [shown EXCEPT ![e] = TRUE] /\ height' = [height EXCEPT ![e] = t.start]
          /\ clipped' = [clipped EXCEPT ![e] = TRUE] /\ fxshow' = [fxshow EXCEPT ![e] = w]
      BY <2>7, <3>1 DEF Effect!Begin
    <3>5. EffectTyped'
      BY <1>2, <1>4, <2>2, <2>4, <2>7, <3>2, <3>3, <3>4 DEF EffectIInv, EffectTyped
    <3>6. Elsewhere(e)
      BY <1>4, <2>4, <2>7, <3>3, <3>4 DEF Elsewhere, EffectIInv, EffectTyped
    <3>7. ElementInv(e)'
      <4>1. fxshow'[e] = w /\ delays'[e] = 0 /\ ~stopper'[e]
        BY <1>2, <1>3, <1>4, <2>7, <3>4 DEF EffectIInv, EffectTyped
      <4>2. QED
        BY <3>2, <3>3, <4>1 DEF ElementInv
    <3>8. Served(e)'
      BY <2>4, <3>3 DEF Served, Free
    <3>9. \A d \in Elems : Served(d)' /\ ElementInv(d)'
      BY <1>2, <3>6, <3>7, <3>8, ElsewhereKept DEF EffectIInv
    <3>10. Len(timers') \in Nat /\ Len(timers) <= Len(timers')
      BY <1>4, <3>3
    <3>11. TodoInv'
      BY <1>2, <1>3, <1>4, <2>4, <2>7, <3>3, <3>9, <3>10, ServedNext
    <3>12. QED
      BY <2>7, <3>3, <3>5, <3>9, <3>11 DEF EffectIInv
  <2>8. QED
    BY <1>1, <1>8, <2>1, <2>5, <2>6, <2>7 DEF Effect!Dequeue, Effect!elements
<1>9. QED
  BY <1>7, <1>8

(* A task with another index. *)
LEMMA TaskFacts ==
  ASSUME NEW u \in TaskRecords, NEW k \in Nat, NEW v, v = [u EXCEPT !.at = k]
  PROVE  /\ v \in TaskRecords /\ v.at = k /\ v.do = u.do /\ v.elem = u.elem
         /\ v.goto = u.goto /\ v.any = u.any
  BY DEF TaskRecords

LEMMA AnyFacts ==
  ASSUME NEW u \in TaskRecords, NEW v, v = [u EXCEPT !.any = TRUE]
  PROVE  /\ v \in TaskRecords /\ v.at = u.at /\ v.do = u.do /\ v.elem = u.elem
         /\ v.goto = u.goto /\ v.any
  BY DEF TaskRecords

LEMMA StopTimerInv ==
  ASSUME EffectIInv, Effect!StopTimer
  PROVE  EffectIInv'
<1>1. PICK u, s, e, k : u = Head(todo) /\ s = Tail(todo) /\ e = u.elem /\ k = u.at
  OBVIOUS
<1>2. /\ todo # <<>> /\ u.do = "stop" /\ k > 0 /\ u \in TaskRecords /\ s \in Seq(TaskRecords)
      /\ Stopping(e, u) /\ Finishing(e, s) /\ \A d \in Elems \ {e} : Served(d)
  BY <1>1, TodoFacts DEF Effect!StopTimer, ToStop
<1>3. /\ k \in 1..Len(timers) /\ k - 1 \in Nat /\ k - 1 <= Len(timers) - 1 /\ e \in Elems
      /\ timers \in Seq(TimerRecords) /\ Len(timers) \in Nat /\ u.goto \in BOOLEAN
  BY <1>1, <1>2 DEF Stopping, TaskRecords, EffectIInv, EffectTyped
<1>4. UNCHANGED <<queue, hooked, stopper, delays, promised, ticking, calls>>
  BY DEF Effect!StopTimer
<1>5. PICK v, w : v = [u EXCEPT !.at = k - 1] /\ w = [v EXCEPT !.any = TRUE]
  OBVIOUS
<1>6. /\ v \in TaskRecords /\ v.at = k - 1 /\ v.do = "stop" /\ v.elem = e
      /\ v.goto = u.goto /\ v.any = u.any
  BY <1>1, <1>2, <1>3, <1>5, TaskFacts
<1>7. /\ w \in TaskRecords /\ w.at = k - 1 /\ w.do = "stop" /\ w.elem = e
      /\ w.goto = u.goto /\ w.any
  BY <1>5, <1>6, AnyFacts
<1>8. Finishing(e, s)'
  BY <1>2, <1>4 DEF Finishing
<1>9. CASE timers[k].elem # e
  <2>1. todo' = <<v>> \o s /\ UNCHANGED <<timers, shown, height, clipped, fxshow>>
    BY <1>1, <1>5, <1>9 DEF Effect!StopTimer, Effect!elements
  <2>2. todo' \in Seq(TaskRecords) /\ todo' # <<>> /\ Head(todo') = v /\ Tail(todo') = s
    BY <1>2, <1>6, <2>1, ConsFacts
  <2>3. EffectTyped'
    BY <1>4, <2>1, <2>2 DEF EffectIInv, EffectTyped
  <2>4. OneEach' /\ \A d \in Elems : Going(d)' <=> Going(d)
    BY <2>1 DEF EffectIInv, OneEach, Going
  <2>5. \A d \in Elems : ElementInv(d)'
    BY <1>4, <2>1, <2>4 DEF EffectIInv, ElementInv
  <2>6. \A d \in Elems : Served(d) => Served(d)'
    BY <1>4, <2>4 DEF Served, Free, Marked
  <2>7. Stopping(e, v)'
    <3>1. v.at \in 0..Len(timers')
      BY <1>3, <1>6, <2>1
    <3>2. \A i \in 1..Len(timers) : timers[i].elem = e => i # k
      BY <1>9
    <3>3. CASE /\ delays[e] = 0
               /\ \A i \in 1..Len(timers) : timers[i].elem = e => i <= u.at
               /\ u.goto /\ u.any => queue[e] = <<>>
      <4>1. \A i \in 1..Len(timers') : timers'[i].elem = e => i <= v.at
        BY <1>1, <1>3, <1>6, <2>1, <3>2, <3>3
      <4>2. QED
        BY <1>4, <1>6, <3>1, <3>3, <4>1 DEF Stopping
    <3>4. CASE /\ u.goto /\ u.any /\ Served(e)
               /\ \A i \in 1..Len(timers) : timers[i].elem = e => i > u.at
      <4>1. \A i \in 1..Len(timers') : timers'[i].elem = e => i > v.at
        BY <1>1, <1>3, <1>6, <2>1, <3>4
      <4>2. QED
        BY <1>3, <1>6, <2>6, <3>1, <3>4, <4>1 DEF Stopping
    <3>5. QED
      BY <1>2, <3>3, <3>4 DEF Stopping
  <2>8. ToStop(e)'
    BY <1>3, <1>8, <2>2, <2>7, StopNext
  <2>9. QED
    BY <1>2, <1>3, <1>4, <2>1, <2>3, <2>4, <2>5, <2>6, <2>8 DEF EffectIInv, TodoInv
<1>10. CASE timers[k].elem = e
  <2>1. delays[e] = 0 /\ (u.goto /\ u.any => queue[e] = <<>>)
    <3>1. ~(k > k)
      BY <1>3
    <3>2. ~(\A i \in 1..Len(timers) : timers[i].elem = e => i > u.at)
      BY <1>1, <1>3, <1>10, <3>1
    <3>3. QED
      BY <1>2, <3>2 DEF Stopping
  <2>2. timers' = Effect!Without(timers, k)
    BY <1>1, <1>10 DEF Effect!StopTimer
  <2>3. /\ timers' \in Seq(TimerRecords) /\ Len(timers') = Len(timers) - 1 /\ OneEach'
        /\ timers[k] \in TimerRecords /\ ~Going(e)'
        /\ \A d \in Elems \ {e} : Going(d)' <=> Going(d)
    BY <1>3, <1>10, <2>2, TimerRemoved DEF EffectIInv
  <2>4. w.at \in 0..Len(timers')
    BY <1>3, <1>7, <2>3
  <2>5. timers # <<>> /\ ticking'
    BY <1>3, <1>4 DEF EffectIInv
  <2>6. CASE u.goto /\ Effect!Resolved(e, timers[k])
             /\ todo' = <<Effect!Do("dequeue", e), w>> \o s
    <3>1. Effect!Do("dequeue", e) \in TaskRecords
      BY <1>3 DEF Effect!Do, TaskRecords, Effect!Entries, Effect!Acts
    <3>2. PICK more : more = <<w>> \o s
      OBVIOUS
    <3>3. /\ more \in Seq(TaskRecords) /\ more # <<>> /\ Head(more) = w /\ Tail(more) = s
      BY <1>2, <1>7, <3>2, ConsFacts
    <3>4. /\ todo' \in Seq(TaskRecords) /\ todo' # <<>> /\ Tail(todo') = more
          /\ Head(todo') = Effect!Do("dequeue", e)
      <4>1. PICK x : x = Effect!Do("dequeue", e)
        OBVIOUS
      <4>2. x \in TaskRecords /\ todo' = <<x, w>> \o s
        BY <2>6, <3>1, <4>1
      <4>3. /\ <<x, w>> \o s \in Seq(TaskRecords) /\ <<x, w>> \o s # <<>>
            /\ Head(<<x, w>> \o s) = x /\ Tail(<<x, w>> \o s) = <<w>> \o s
        BY <1>2, <1>7, <4>2, PairFacts
      <4>4. QED
        BY <3>2, <4>1, <4>2, <4>3
    <3>5. /\ shown' \in [Elems -> BOOLEAN] /\ clipped' \in [Elems -> BOOLEAN]
          /\ height' \in [Elems -> 0..2] /\ fxshow' \in [Elems -> ShowRecords]
          /\ clipped'[e] = FALSE /\ height'[e] = 2 /\ fxshow'[e].on = FALSE
          /\ \A d \in Elems \ {e} :
               clipped'[d] = clipped[d] /\ height'[d] = height[d] /\ fxshow'[d] = fxshow[d]
      BY <1>3, <2>3, <2>6, ResolvedFacts
    <3>6. EffectTyped'
      BY <1>4, <2>3, <3>4, <3>5 DEF EffectIInv, EffectTyped
    <3>7. Elsewhere(e)
      BY <1>4, <2>3, <3>5 DEF Elsewhere
    <3>8. ElementInv(e)' /\ Free(e)'
      BY <1>3, <1>4, <2>1, <2>3, <3>5 DEF EffectIInv, ElementInv, Free
    <3>9. /\ \A d \in Elems \ {e} : Served(d)'
          /\ \A d \in Elems : ElementInv(d)'
      BY <1>2, <3>7, <3>8, ElsewhereKept DEF EffectIInv
    <3>10. BeforeStop(e, more)'
      <4>1. /\ more # <<>> /\ Head(more).do = "stop" /\ Head(more).elem = e
            /\ Head(more).any /\ Tail(more) = s
        BY <1>7, <3>3
      <4>2. Head(more).goto
        BY <1>7, <2>6, <3>3
      <4>3. Head(more).at <= Len(timers')
        BY <1>3, <2>3, <2>4, <3>3
      <4>4. Finishing(e, Tail(more))'
        BY <1>8, <4>1 DEF Finishing
      <4>5. QED
        BY <4>1, <4>2, <4>3, <4>4 DEF BeforeStop, Finishing
    <3>11. ToDequeue(e)'
      BY <1>3, <3>4, <3>8, <3>10, DequeueNext
    <3>12. QED
      BY <1>3, <2>3, <2>5, <3>6, <3>9, <3>11 DEF EffectIInv, TodoInv
  <2>7. CASE ~u.goto /\ Effect!Rejected(e, timers[k]) /\ todo' = <<w>> \o s
    <3>1. todo' \in Seq(TaskRecords) /\ todo' # <<>> /\ Head(todo') = w /\ Tail(todo') = s
      BY <1>2, <1>7, <2>7, ConsFacts
    <3>2. timers[k].clipped = FALSE
      BY <2>3 DEF TimerRecords
    <3>3. clipped' = [clipped EXCEPT ![e] = FALSE] /\ UNCHANGED <<shown, height, fxshow>>
      BY <2>7, <3>2 DEF Effect!Rejected
    <3>4. EffectTyped'
      BY <1>4, <2>3, <3>1, <3>3 DEF EffectIInv, EffectTyped
    <3>5. Elsewhere(e)
      BY <1>4, <2>3, <3>3 DEF Elsewhere, EffectIInv, EffectTyped
    <3>6. ~clipped'[e]
      BY <1>3, <3>3 DEF EffectIInv, EffectTyped
    <3>7. ElementInv(e)'
      BY <1>3, <1>4, <2>3, <3>3, <3>6 DEF EffectIInv, ElementInv
    <3>8. /\ \A d \in Elems \ {e} : Served(d)'
          /\ \A d \in Elems : ElementInv(d)'
      BY <1>2, <3>5, <3>7, ElsewhereKept DEF EffectIInv
    <3>9. \A i \in 1..Len(timers') : timers'[i].elem # e
      BY <2>3 DEF Going
    <3>10. Stopping(e, w)'
      BY <1>4, <1>7, <2>1, <2>4, <2>7, <3>9 DEF Stopping
    <3>11. ToStop(e)'
      BY <1>3, <1>8, <3>1, <3>10, StopNext
    <3>12. QED
      BY <1>3, <2>3, <2>5, <3>4, <3>8, <3>11 DEF EffectIInv, TodoInv
  <2>8. QED
    BY <1>1, <1>3, <1>5, <1>10, <2>6, <2>7 DEF Effect!StopTimer
<1>11. QED
  BY <1>9, <1>10

(* When all that was to be ended of an element is, what is left is to be finished. *)
LEMMA EndedNext ==
  ASSUME NEW e \in Elems, NEW s \in Seq(TaskRecords), Finishing(e, s), todo' = s,
         queue' = queue, \A d \in Elems : Served(d)'
  PROVE  TodoInv'
<1>1. CASE s = <<>>
  BY <1>1 DEF TodoInv
<1>2. CASE s # <<>>
  <2>1. /\ Head(s).do = "finish" /\ Head(s).elem = e /\ queue[e] = <<>>
        /\ Finishing(e, Tail(s))'
    BY <1>2, FinishingFacts
  <2>2. Free(e)'
    BY <2>1 DEF Served, Marked
  <2>3. ToFinish(e)'
    BY <1>2, <2>1, <2>2 DEF ToFinish, Finishing
  <2>4. QED
    BY <2>3 DEF TodoInv
<1>3. QED
  BY <1>1, <1>2

LEMMA StopEndsInv ==
  ASSUME EffectIInv, Effect!StopEnds
  PROVE  EffectIInv'
<1>1. PICK u, s, e : u = Head(todo) /\ s = Tail(todo) /\ e = u.elem
  OBVIOUS
<1>2. /\ todo # <<>> /\ u.do = "stop" /\ u.at = 0 /\ u \in TaskRecords /\ s \in Seq(TaskRecords)
      /\ Stopping(e, u) /\ Finishing(e, s) /\ \A d \in Elems \ {e} : Served(d)
  BY <1>1, TodoFacts DEF Effect!StopEnds, ToStop
<1>3. e \in Elems /\ timers \in Seq(TimerRecords) /\ Len(timers) \in Nat
  <2>1. timers \in Seq(TimerRecords)
    BY DEF EffectIInv, EffectTyped
  <2>2. u.elem \in Elems
    BY <1>2 DEF TaskRecords
  <2>3. QED
    BY <1>1, <2>1, <2>2
<1>4. UNCHANGED <<queue, hooked, stopper, delays, promised, timers, ticking, shown, height,
                  clipped, fxshow, calls>>
  BY DEF Effect!StopEnds, Effect!elements
<1>5. OneEach' /\ \A d \in Elems : Going(d)' <=> Going(d)
  BY <1>4 DEF EffectIInv, OneEach, Going
<1>6. \A d \in Elems : ElementInv(d)'
  BY <1>4, <1>5 DEF EffectIInv, ElementInv
<1>7. \A d \in Elems : Served(d) => Served(d)'
  BY <1>4, <1>5 DEF Served, Free, Marked
<1>8. CASE ~(u.goto /\ u.any)
  <2>1. todo' = <<Effect!Do("dequeue", e)>> \o s
    BY <1>1, <1>3, <1>8 DEF Effect!StopEnds
  <2>2. Effect!Do("dequeue", e) \in TaskRecords
    BY <1>3 DEF Effect!Do, TaskRecords, Effect!Entries, Effect!Acts
  <2>3. /\ todo' \in Seq(TaskRecords) /\ todo' # <<>> /\ Tail(todo') = s
        /\ Head(todo') = Effect!Do("dequeue", e)
    BY <1>2, <2>1, <2>2, ConsFacts
  <2>4. EffectTyped'
    BY <1>4, <2>3 DEF EffectIInv, EffectTyped
  <2>5. delays[e] = 0 /\ \A i \in 1..Len(timers) : timers[i].elem = e => i <= 0
    BY <1>2, <1>8 DEF Stopping
  <2>6. Free(e)'
    BY <1>3, <1>4, <1>5, <2>5 DEF Free, Going
  <2>7. Finishing(e, s)'
    BY <1>2, <1>4 DEF Finishing
  <2>8. ToDequeue(e)'
    BY <1>3, <2>3, <2>6, <2>7, DequeueNext
  <2>9. QED
    BY <1>2, <1>3, <1>4, <1>5, <1>6, <1>7, <2>4, <2>8 DEF EffectIInv, TodoInv
<1>9. CASE u.goto /\ u.any
  <2>1. todo' = <<>> \o s
    BY <1>1, <1>9 DEF Effect!StopEnds
  <2>2. todo' = s
    BY <1>2, <2>1, ConcatEmptySeq
  <2>3. EffectTyped'
    BY <1>2, <1>4, <2>2 DEF EffectIInv, EffectTyped
  <2>4. Served(e)
    <3>1. CASE /\ delays[e] = 0 /\ queue[e] = <<>>
               /\ \A i \in 1..Len(timers) : timers[i].elem = e => i <= 0
      BY <1>3, <3>1 DEF Served, Free, Going
    <3>2. QED
      BY <1>2, <1>9, <3>1 DEF Stopping
  <2>5. TodoInv'
    BY <1>2, <1>3, <1>4, <1>7, <2>2, <2>4, EndedNext
  <2>6. QED
    BY <1>4, <1>5, <1>6, <2>3, <2>5 DEF EffectIInv
<1>10. QED
  BY <1>8, <1>9
LEMMA FinishEntryInv ==
  ASSUME EffectIInv, Effect!FinishEntry
  PROVE  EffectIInv'
<1>1. PICK u, s, e, act : u = Head(todo) /\ s = Tail(todo) /\ e = u.elem /\ act = u.act
  OBVIOUS
<1>2. /\ todo # <<>> /\ u \in TaskRecords /\ s \in Seq(TaskRecords) /\ ToFinish(e)
      /\ \A d \in Elems \ {e} : Served(d)
  BY <1>1, TodoFacts DEF Effect!FinishEntry
<1>3. e \in Elems /\ act \in Effect!Entries
  BY <1>1, <1>2 DEF TaskRecords
<1>4. Free(e) /\ ~Going(e) /\ queue[e] = <<>> /\ Finishing(e, s)
  BY <1>1, <1>2 DEF ToFinish, Free
<1>5. UNCHANGED <<queue, hooked, stopper, delays, promised, timers, calls>>
  BY DEF Effect!FinishEntry
<1>6. OneEach' /\ \A d \in Elems : Going(d)' <=> Going(d)
  BY <1>5 DEF EffectIInv, OneEach, Going
<1>7. \A d \in Elems : Served(d)'
  <2>1. Served(e)
    BY <1>4 DEF Served
  <2>2. QED
    BY <1>2, <1>5, <1>6, <2>1 DEF Served, Free, Marked
<1>8. CASE act \notin Effect!Acts
  <2>1. todo' = s /\ UNCHANGED <<ticking, shown, height, clipped, fxshow>>
    BY <1>1, <1>8 DEF Effect!FinishEntry, Effect!elements
  <2>2. EffectTyped'
    BY <1>2, <1>5, <2>1 DEF EffectIInv, EffectTyped
  <2>3. \A d \in Elems : ElementInv(d)'
    BY <1>5, <1>6, <2>1 DEF EffectIInv, ElementInv
  <2>4. TodoInv'
    BY <1>2, <1>3, <1>4, <1>5, <1>7, <2>1, EndedNext
  <2>5. QED
    BY <1>5, <1>6, <2>1, <2>2, <2>3, <2>4 DEF EffectIInv
<1>9. CASE act \in Effect!Acts
  <2>1. todo' = <<Effect!Do("dequeue", e)>> \o s
    BY <1>1, <1>9 DEF Effect!FinishEntry
  <2>2. Effect!Do("dequeue", e) \in TaskRecords
    BY <1>3 DEF Effect!Do, TaskRecords, Effect!Entries, Effect!Acts
  <2>3. /\ todo' \in Seq(TaskRecords) /\ todo' # <<>> /\ Tail(todo') = s
        /\ Head(todo') = Effect!Do("dequeue", e)
    BY <1>2, <2>1, <2>2, ConsFacts
  <2>4. Free(e)'
    BY <1>3, <1>4, <1>5, <1>6 DEF Free
  <2>5. Finishing(e, s)'
    BY <1>4, <1>5 DEF Finishing
  <2>6. TodoInv'
    <3>1. ToDequeue(e)'
      BY <1>3, <2>3, <2>4, <2>5, DequeueNext
    <3>2. QED
      BY <1>3, <1>7, <3>1 DEF TodoInv
  <2>7. CASE UNCHANGED <<ticking, shown, height, clipped, fxshow>>
    <3>1. EffectTyped'
      BY <1>5, <2>3, <2>7 DEF EffectIInv, EffectTyped
    <3>2. \A d \in Elems : ElementInv(d)'
      BY <1>5, <1>6, <2>7 DEF EffectIInv, ElementInv
    <3>3. QED
      BY <1>5, <1>6, <2>6, <2>7, <3>1, <3>2 DEF EffectIInv
  <2>8. CASE ticking' = TRUE /\ Effect!Resolved(e, Effect!Animation(e, act))
    <3>1. PICK t : t = Effect!Animation(e, act)
      OBVIOUS
    <3>2. t \in TimerRecords
      BY <1>3, <1>4, <3>1, AnimationFacts
    <3>3. Effect!Resolved(e, t)
      BY <2>8, <3>1
    <3>4. /\ shown' \in [Elems -> BOOLEAN] /\ clipped' \in [Elems -> BOOLEAN]
          /\ height' \in [Elems -> 0..2] /\ fxshow' \in [Elems -> ShowRecords]
          /\ clipped'[e] = FALSE /\ height'[e] = 2 /\ fxshow'[e].on = FALSE
          /\ \A d \in Elems \ {e} :
               clipped'[d] = clipped[d] /\ height'[d] = height[d] /\ fxshow'[d] = fxshow[d]
      BY <1>3, <3>2, <3>3, ResolvedFacts
    <3>5. EffectTyped'
      BY <1>5, <2>3, <2>8, <3>4 DEF EffectIInv, EffectTyped
    <3>6. ElementInv(e)'
      BY <1>3, <1>4, <1>5, <1>6, <3>4 DEF EffectIInv, ElementInv
    <3>7. Elsewhere(e)
      BY <1>5, <1>6, <3>4 DEF Elsewhere
    <3>8. \A d \in Elems : ElementInv(d)'
      BY <3>6, <3>7, ElsewhereKept DEF EffectIInv
    <3>9. QED
      BY <1>6, <2>6, <2>8, <3>5, <3>8 DEF EffectIInv
  <2>9. QED
    BY <1>1, <1>9, <2>7, <2>8 DEF Effect!FinishEntry, Effect!elements
<1>10. QED
  BY <1>8, <1>9

LEMMA TickTimerInv ==
  ASSUME EffectIInv, Effect!TickTimer
  PROVE  EffectIInv'
<1>1. PICK u, i : u = Head(todo) /\ i = u.at
  OBVIOUS
<1>2. PICK t : t = timers[i]
  OBVIOUS
<1>3. PICK e : e = t.elem
  OBVIOUS
<1>4. /\ todo # <<>> /\ u \in TaskRecords /\ u.do = "tick" /\ i >= 1
      /\ Tail(todo) = <<>> /\ \A d \in Elems : Served(d)
  BY <1>1, TodoFacts DEF Effect!TickTimer, Ticking
<1>5. /\ i \in 1..Len(timers) /\ timers \in Seq(TimerRecords) /\ Len(timers) \in Nat
      /\ t \in TimerRecords /\ e \in Elems
  <2>1. timers \in Seq(TimerRecords)
    BY DEF EffectIInv, EffectTyped
  <2>2. i \in Nat
    BY <1>1, <1>4 DEF TaskRecords
  <2>3. i \in 1..Len(timers)
    BY <1>1, <1>4, <2>1, <2>2 DEF Effect!TickTimer
  <2>4. t \in TimerRecords
    BY <1>2, <2>1, <2>3
  <2>5. t.elem \in Elems
    BY <2>4 DEF TimerRecords
  <2>6. QED
    BY <1>3, <2>1, <2>3, <2>4, <2>5
<1>6. UNCHANGED <<queue, hooked, stopper, delays, promised, ticking, calls>>
  BY DEF Effect!TickTimer
<1>7. Going(e) /\ timers # <<>> /\ ticking
  BY <1>2, <1>3, <1>5 DEF Going, EffectIInv
<1>8. CASE t.left > 0
  <2>1. /\ height' = [height EXCEPT ![e] = IF t.start = t.end THEN t.end ELSE 1]
        /\ UNCHANGED <<timers, shown, clipped, fxshow>>
    BY <1>1, <1>2, <1>3, <1>8 DEF Effect!TickTimer, Effect!Between
  <2>2. PICK v : v = [u EXCEPT !.at = i + 1]
    OBVIOUS
  <2>3. v \in TaskRecords /\ v.do = "tick" /\ v.at >= 1
    BY <1>4, <1>5, <2>2, TaskFacts
  <2>4. todo' = <<v>>
    BY <1>1, <1>2, <1>8, <2>2 DEF Effect!TickTimer
  <2>5. todo' \in Seq(TaskRecords) /\ Ticking(todo')
    BY <2>3, <2>4, OneFacts DEF Ticking
  <2>6. height' \in [Elems -> 0..2] /\ \A d \in Elems \ {e} : height'[d] = height[d]
    <3>1. t.end \in 0..2
      BY <1>5 DEF TimerRecords
    <3>2. height \in [Elems -> 0..2]
      BY DEF EffectIInv, EffectTyped
    <3>3. QED
      BY <1>5, <2>1, <3>1, <3>2
  <2>7. EffectTyped'
    BY <1>6, <2>1, <2>5, <2>6 DEF EffectIInv, EffectTyped
  <2>8. OneEach' /\ \A d \in Elems : Going(d)' <=> Going(d)
    BY <2>1 DEF EffectIInv, OneEach, Going
  <2>9. ElementInv(e)'
    BY <1>5, <1>6, <1>7, <2>1, <2>8 DEF EffectIInv, ElementInv
  <2>10. Elsewhere(e)
    BY <1>6, <2>1, <2>6, <2>8 DEF Elsewhere
  <2>11. \A d \in Elems : ElementInv(d)'
    BY <2>9, <2>10, ElsewhereKept DEF EffectIInv
  <2>12. \A d \in Elems : Served(d)'
    BY <1>4, <1>6, <2>8 DEF Served, Free, Marked
  <2>13. TodoInv'
    BY <2>5, <2>12 DEF TodoInv, Ticking
  <2>14. QED
    BY <1>6, <1>7, <2>7, <2>8, <2>11, <2>13 DEF EffectIInv
<1>9. CASE ~(t.left > 0)
  <2>1. timers' = Effect!Without(timers, i) /\ Effect!Resolved(e, t)
    BY <1>1, <1>2, <1>3, <1>9 DEF Effect!TickTimer
  <2>2. /\ timers' \in Seq(TimerRecords) /\ OneEach' /\ ~Going(e)'
        /\ \A d \in Elems \ {e} : Going(d)' <=> Going(d)
    BY <1>2, <1>3, <1>5, <2>1, TimerRemoved DEF EffectIInv
  <2>3. PICK x : x = Effect!Do("dequeue", e)
    OBVIOUS
  <2>4. x \in TaskRecords
    BY <1>5, <2>3 DEF Effect!Do, TaskRecords, Effect!Entries, Effect!Acts
  <2>5. todo' = <<x, u>>
    BY <1>1, <1>2, <1>3, <1>9, <2>3 DEF Effect!TickTimer
  <2>6. /\ todo' \in Seq(TaskRecords) /\ todo' # <<>> /\ Head(todo') = x
        /\ Tail(todo') = <<u>>
    BY <1>4, <2>4, <2>5
  <2>7. Ticking(<<u>>)
    BY <1>1, <1>4, OneFacts DEF Ticking
  <2>8. /\ shown' \in [Elems -> BOOLEAN] /\ clipped' \in [Elems -> BOOLEAN]
        /\ height' \in [Elems -> 0..2] /\ fxshow' \in [Elems -> ShowRecords]
        /\ clipped'[e] = FALSE /\ height'[e] = 2 /\ fxshow'[e].on = FALSE
        /\ \A d \in Elems \ {e} :
             clipped'[d] = clipped[d] /\ height'[d] = height[d] /\ fxshow'[d] = fxshow[d]
    BY <1>5, <2>1, ResolvedFacts
  <2>9. EffectTyped'
    BY <1>6, <2>2, <2>6, <2>8 DEF EffectIInv, EffectTyped
  <2>10. delays[e] = 0
    BY <1>5, <1>7 DEF EffectIInv, ElementInv
  <2>11. Elsewhere(e)
    BY <1>6, <2>2, <2>8 DEF Elsewhere
  <2>12. ElementInv(e)' /\ Free(e)'
    BY <1>5, <1>6, <2>2, <2>8, <2>10 DEF EffectIInv, ElementInv, Free
  <2>13. /\ \A d \in Elems : ElementInv(d)'
         /\ \A d \in Elems \ {e} : Served(d)'
    BY <1>4, <2>11, <2>12, ElsewhereKept DEF EffectIInv
  <2>14. ToDequeue(e)'
    BY <1>5, <2>3, <2>6, <2>7, <2>12, DequeueNext
  <2>15. QED
    BY <1>5, <1>6, <1>7, <2>2, <2>9, <2>13, <2>14 DEF EffectIInv, TodoInv
<1>10. QED
  BY <1>8, <1>9

LEMMA TickEndsInv ==
  ASSUME EffectIInv, Effect!TickEnds
  PROVE  EffectIInv'
<1>1. /\ todo' = <<>> /\ ticking' = (timers # <<>>)
      /\ UNCHANGED <<queue, hooked, stopper, delays, promised, timers, shown, height,
                     clipped, fxshow, calls>>
  BY DEF Effect!TickEnds, Effect!elements
<1>2. \A d \in Elems : Served(d)
  BY TodoFacts DEF Effect!TickEnds
<1>3. OneEach' /\ \A d \in Elems : Going(d)' <=> Going(d)
  BY <1>1 DEF EffectIInv, OneEach, Going
<1>4. EffectTyped'
  <2>1. todo' \in Seq(TaskRecords)
    BY <1>1
  <2>2. ticking' \in BOOLEAN
    BY <1>1
  <2>3. QED
    BY <1>1, <2>1, <2>2 DEF EffectIInv, EffectTyped
<1>5. \A d \in Elems : ElementInv(d)'
  BY <1>1, <1>3 DEF EffectIInv, ElementInv
<1>6. TodoInv'
  BY <1>1, <1>2, <1>3 DEF TodoInv, Served, Free, Marked
<1>7. timers' # <<>> => ticking'
  BY <1>1
<1>8. QED
  BY <1>3, <1>4, <1>5, <1>6, <1>7 DEF EffectIInv

LEMMA EffectNextInv == EffectIInv /\ Effect!Next => EffectIInv'
<1> SUFFICES ASSUME EffectIInv, Effect!Next
             PROVE  EffectIInv'
  OBVIOUS
<1>1. CASE \E e \in Elems : \E entry \in Effect!Acts \cup {"delay"} : Effect!Enqueue(e, entry)
  BY <1>1, EnqueueInv
<1>2. CASE \E e \in Elems : \E goto \in BOOLEAN : Effect!Stop(e, goto)
  BY <1>2, StopInv
<1>3. CASE \E e \in Elems : Effect!ClearQueue(e) \/ Effect!StopAll(e)
  BY <1>3, EffectConstants DEF Effect!ClearQueue, Effect!StopAll, Effect!Call
<1>4. CASE \E e \in Elems : Effect!Finish(e)
  BY <1>4, FinishInv
<1>5. CASE \E e \in Elems : Effect!Promise(e)
  BY <1>5, PromiseInv
<1>6. CASE \E e \in Elems : Effect!DelayEnds(e)
  BY <1>6, DelayEndsInv
<1>7. QED
  BY <1>1, <1>2, <1>3, <1>4, <1>5, <1>6, TickInv, DequeueInv, StopTimerInv, StopEndsInv,
     FinishEntryInv, TickTimerInv, TickEndsInv DEF Effect!Next

LEMMA EffectStutter == EffectIInv /\ UNCHANGED Effect!vars => EffectIInv'
<1> SUFFICES ASSUME EffectIInv, UNCHANGED Effect!vars
             PROVE  EffectIInv'
  OBVIOUS
<1>1. UNCHANGED <<queue, hooked, stopper, delays, promised, timers, ticking, shown, height,
                  clipped, fxshow, todo, calls>>
  BY DEF Effect!vars, Effect!elements
<1>2. OneEach' /\ \A d \in Elems : Going(d)' <=> Going(d)
  BY <1>1 DEF EffectIInv, OneEach, Going
<1>3. EffectTyped'
  BY <1>1 DEF EffectIInv, EffectTyped
<1>4. \A d \in Elems : ElementInv(d)'
  BY <1>1, <1>2 DEF EffectIInv, ElementInv
<1>5. \A d \in Elems : Free(d)' <=> Free(d)
  BY <1>1, <1>2 DEF Free
<1>6. \A d \in Elems : Served(d)' <=> Served(d)
  BY <1>1, <1>5 DEF Served, Marked
<1>7. ASSUME NEW d \in Elems
      PROVE  /\ ToDequeue(d) => ToDequeue(d)'
             /\ ToStop(d) => ToStop(d)'
             /\ ToFinish(d) => ToFinish(d)'
  <2>1. ToDequeue(d) => ToDequeue(d)'
    BY <1>1, <1>5 DEF ToDequeue, Finishing, BeforeStop, Ticking
  <2>2. ToStop(d) => ToStop(d)'
    BY <1>1, <1>6 DEF ToStop, Stopping, Finishing
  <2>3. ToFinish(d) => ToFinish(d)'
    BY <1>1, <1>5 DEF ToFinish, Finishing
  <2>4. QED
    BY <2>1, <2>2, <2>3
<1>8. TodoInv'
  <2>1. CASE (todo = <<>> \/ Ticking(todo)) /\ \A d \in Elems : Served(d)
    BY <1>1, <1>6, <2>1 DEF TodoInv, Ticking
  <2>2. CASE \E e \in Elems : /\ ToDequeue(e) \/ ToStop(e) \/ ToFinish(e)
                              /\ \A d \in Elems \ {e} : Served(d)
    BY <1>6, <1>7, <2>2 DEF TodoInv
  <2>3. QED
    BY <2>1, <2>2 DEF EffectIInv, TodoInv
<1>9. QED
  BY <1>1, <1>2, <1>3, <1>4, <1>8 DEF EffectIInv

LEMMA EffectSets ==
  ASSUME NEW S
  PROVE  Effect!Cardinality(S) = Cardinality(S)
  BY DEF Effect!Cardinality, Cardinality

(* An element has at most one timer, and it has one if it is going. *)
LEMMA RunningFacts ==
  ASSUME EffectIInv, NEW e \in Elems
  PROVE  /\ Effect!Running(e) # {} <=> Going(e)
         /\ Going(e) => Effect!Cardinality(Effect!Running(e)) = 1
         /\ ~Going(e) => Effect!Cardinality(Effect!Running(e)) = 0
<1>1. timers \in Seq(TimerRecords) /\ DOMAIN timers = 1..Len(timers)
  BY DEF EffectIInv, EffectTyped
<1>2. Effect!Running(e) # {} <=> Going(e)
  BY <1>1 DEF Effect!Running, Going
<1>3. ASSUME Going(e)
      PROVE  Effect!Cardinality(Effect!Running(e)) = 1
  <2>1. PICK i \in 1..Len(timers) : timers[i].elem = e
    BY <1>3 DEF Going
  <2>2. \A j \in 1..Len(timers) : timers[j].elem = e => j = i
    BY <2>1 DEF EffectIInv, OneEach
  <2>3. Effect!Running(e) = {i}
    BY <1>1, <2>1, <2>2 DEF Effect!Running
  <2>4. QED
    BY <2>3, FS_Singleton, EffectSets
<1>4. ASSUME ~Going(e)
      PROVE  Effect!Cardinality(Effect!Running(e)) = 0
  BY <1>2, <1>4, FS_EmptySet, EffectSets
<1>5. QED
  BY <1>2, <1>3, <1>4

LEMMA EffectIInvSound ==
  ASSUME EffectIInv
  PROVE  Effect!EffectsAreRight
<1>1. Effect!TypeOK
  <2>1. delays \in [Elems -> Nat] /\ \A e \in Elems : stopper[e] => delays[e] > 0
    <3>1. delays \in [Elems -> {0, 1}]
      BY DEF EffectIInv, EffectTyped
    <3>2. \A e \in Elems : stopper[e] => delays[e] = 1
      BY DEF EffectIInv, ElementInv
    <3>3. QED
      BY <3>1, <3>2
  <2>2. \A i \in DOMAIN timers : timers[i].elem \in Elems /\ timers[i].left \in 0..Duration
    <3>1. timers \in Seq(TimerRecords)
      BY DEF EffectIInv, EffectTyped
    <3>2. \A i \in DOMAIN timers : timers[i] \in TimerRecords
      BY <3>1
    <3>3. QED
      BY <3>2 DEF TimerRecords
  <2>3. height \in [Elems -> Effect!None..Effect!Full]
    BY DEF EffectIInv, EffectTyped, Effect!None, Effect!Full
  <2>4. QED
    BY <2>1, <2>2, <2>3 DEF EffectIInv, EffectTyped, Effect!TypeOK
<1>2. Effect!OneAtATime
  <2>1. \A e \in Elems : delays[e] \in {0, 1} /\ (Going(e) => delays[e] = 0)
    BY DEF EffectIInv, EffectTyped, ElementInv
  <2>2. QED
    BY <2>1, RunningFacts DEF Effect!OneAtATime
<1>3. Effect!QueueAtWork
  <2>1. ASSUME todo = <<>>, NEW e \in Elems, queue[e] # <<>>
        PROVE  Effect!Running(e) # {} \/ delays[e] > 0
    <3>1. ~Free(e)
      BY <2>1, TodoFacts DEF Served
    <3>2. Going(e) \/ delays[e] = 1
      BY <3>1 DEF Free, EffectIInv, EffectTyped
    <3>3. QED
      BY <3>2, RunningFacts
  <2>2. QED
    BY <2>1 DEF Effect!QueueAtWork
<1>4. Effect!IntervalRuns
  BY DEF EffectIInv, Effect!IntervalRuns
<1>5. Effect!HeightComesBack
  BY DEF EffectIInv, ElementInv, Effect!HeightComesBack, Effect!Full
<1>6. Effect!Unclipped
  BY RunningFacts DEF EffectIInv, ElementInv, Effect!Unclipped, Effect!AtRest
<1>7. QED
  BY <1>1, <1>2, <1>3, <1>4, <1>5, <1>6 DEF Effect!EffectsAreRight

(* The effects of the behaviours that MCScripts checks: functions of a queue are at work   *)
(* one after the other and none is forgotten, the interval runs as long as there are        *)
(* animations, and the height of an element comes back whatever was stopped on the way.     *)
THEOREM EffectsCorrect == Spec => []EffectsAreRight
<1> DEFINE Inv == part = "effect" => EffectIInv
<1>1. Init => Inv
  BY EffectInitInv DEF Init
<1>2. Inv /\ [Next]_everything => Inv'
  <2> SUFFICES ASSUME Inv, [Next]_everything
               PROVE  Inv'
    OBVIOUS
  <2>1. CASE UNCHANGED everything
    <3>1. UNCHANGED <<part, ofEffect>>
      BY <2>1 DEF everything
    <3>2. part = "effect" => UNCHANGED Effect!vars
      BY <3>1 DEF ofEffect, Effect!vars, Effect!elements
    <3>3. QED
      BY <3>1, <3>2, EffectStutter
  <2>2. CASE part = "effect" /\ part' = part /\ Effect!Next
    BY <2>2, EffectNextInv
  <2>3. CASE part' = part /\ part \in {"list", "follow", "event", "nestedevent", "convert",
                                       "script"}
    BY <2>3
  <2>4. QED
    BY <2>1, <2>2, <2>3
       DEF Next, OfList, OfFollow, OfEvent, OfEffect, OfConvert, OfScript
<1>3. Inv => EffectsAreRight
  BY EffectIInvSound DEF EffectsAreRight
<1>4. QED
  BY <1>1, <1>2, <1>3, PTL DEF Spec

(***************************************************************************)
(* Callback lists.                                                          *)
(***************************************************************************)

(* A list, whatever else is known of it. *)
IsList(m) ==
  /\ DOMAIN m = {"options", "alive", "list", "open", "stack", "memory", "fired",
                 "firing", "data", "index", "length"}
  /\ m.options \in AllOptions /\ m.alive \in BOOLEAN /\ m.list \in Seq(Functions)
  /\ m.open \in BOOLEAN /\ m.stack \in Seq(Data) /\ m.memory \in Data \cup {0}
  /\ m.fired \in BOOLEAN /\ m.firing \in BOOLEAN /\ m.data \in Data \cup {0}
  /\ m.index \in Int /\ m.length \in Nat

ListTyped ==
  /\ IsList(l)
  /\ called \in BOOLEAN /\ dead \in BOOLEAN /\ plain \in BOOLEAN /\ emptied \in BOOLEAN
  /\ rest \in Seq(Functions) /\ fired \in Seq(Data) /\ begun \in Nat
  /\ added \in [Functions -> Nat] /\ counted \in [Functions -> Nat]

(* The places of a function in a list; how many of a set of places are up to k. *)
Places(s, f) == {i \in DOMAIN s : s[i] = f}
Within(S, n) == \A e \in S : e \in 1..n
UpTo(S, k) == {j \in S : j <= k}
Count(S, k) == Cardinality(UpTo(S, k))

(* r is what s has after its first m functions. *)
Suffix(r, s, m) == Len(r) + m = Len(s) /\ \A i \in 1..Len(r) : r[i] = s[m + i]

(* How many functions of the list the loop has called or is calling. *)
Reached == IF l.firing THEN IF called THEN l.index + 1 ELSE l.index ELSE 0

(* What the batch owes is the end of the list. *)
LoopInv ==
  /\ called => l.firing
  /\ l.firing => l.index >= -1 /\ (called \/ dead \/ l.index >= 0)
  /\ l.firing /\ l.alive => l.length = Len(l.list)
  /\ ~l.alive => l.list = <<>> /\ rest = <<>> /\ l.memory = 0 /\ ~l.open
  /\ ~l.firing => rest = <<>>
  /\ l.firing /\ l.alive /\ ~dead /\ ~emptied => Suffix(rest, l.list, Reached)

(* What waits is what was asked for and is not begun; what is called with is what was    *)
(* begun last. *)
FireInv ==
  /\ ~l.firing \/ ~l.open => l.stack = <<>>
  /\ l.open => Suffix(l.stack, fired, begun)
  /\ begun <= Len(fired)
  /\ IF l.fired THEN begun > 0 ELSE fired = <<>>
  /\ l.firing => l.fired /\ l.data = fired[begun]
  /\ l.memory # 0 => l.fired /\ l.memory = fired[begun]
  /\ l.options.once => ~l.open /\ Len(fired) <= 1
  /\ plain => (l.open <=> ~l.options.once)

(* Each addition was called for, or its function is still to be reached. *)
OnceInv ==
  l.options.once /\ l.options.memory /\ plain =>
    /\ l.alive /\ ~dead /\ ~emptied
    /\ l.fired => l.memory # 0
    /\ l.fired /\ ~l.firing => l.list = <<>>
    /\ \A f \in Functions :
         added[f] + Count(Places(l.list, f), Reached)
           = counted[f] + Cardinality(Places(l.list, f))

Injective(s) == \A i, j \in DOMAIN s : s[i] = s[j] => i = j

ListIInv ==
  /\ ListTyped /\ LoopInv /\ FireInv /\ OnceInv
  /\ l.options.unique => Injective(l.list)

(* The sets of Callbacks are those of this module. *)
LEMMA ListSets ==
  ASSUME NEW S
  PROVE  List!Cardinality(S) = Cardinality(S)
  BY DEF List!Cardinality, List!IsFiniteSet, Cardinality, IsFiniteSet

LEMMA CountFacts ==
  ASSUME NEW n \in Nat, NEW S, Within(S, n), NEW k \in Nat
  PROVE  /\ IsFiniteSet(S) /\ IsFiniteSet(UpTo(S, k)) /\ Count(S, k) \in Nat
         /\ Count(S, 0) = 0 /\ Count(S, k) <= k
         /\ Count(S, k + 1) = Count(S, k) + (IF k + 1 \in S THEN 1 ELSE 0)
         /\ Count(S, k) <= Cardinality(S) /\ Cardinality(S) \in Nat
         /\ n <= k => Count(S, k) = Cardinality(S)
<1> USE DEF Within
<1>1. IsFiniteSet(1..n)
  BY FS_Interval
<1>2. IsFiniteSet(S)
  BY <1>1, FS_Subset
<1>3. UpTo(S, k) \subseteq S /\ UpTo(S, k) \subseteq 1..k
  BY DEF UpTo
<1>4. IsFiniteSet(UpTo(S, k)) /\ Count(S, k) <= Cardinality(S)
  BY <1>2, <1>3, FS_Subset DEF Count
<1>5. Count(S, k) \in Nat /\ Cardinality(S) \in Nat
  BY <1>2, <1>4, FS_CardinalityType DEF Count
<1>6. Count(S, k) <= k
  <2>1. IsFiniteSet(1..k) /\ Cardinality(1..k) <= k
    BY FS_Interval
  <2>2. Count(S, k) <= Cardinality(1..k) /\ Cardinality(1..k) \in Nat
    BY <1>3, <2>1, FS_Subset, FS_CardinalityType DEF Count
  <2>3. QED
    BY <1>5, <2>1, <2>2
<1>7. Count(S, 0) = 0
  <2>1. UpTo(S, 0) = {}
    BY DEF UpTo
  <2>2. QED
    BY <2>1, FS_EmptySet DEF Count
<1>8. Count(S, k + 1) = Count(S, k) + (IF k + 1 \in S THEN 1 ELSE 0)
  <2>1. CASE k + 1 \in S
    <3>1. UpTo(S, k + 1) = UpTo(S, k) \cup {k + 1} /\ k + 1 \notin UpTo(S, k)
      BY <2>1 DEF UpTo
    <3>2. QED
      BY <1>4, <2>1, <3>1, FS_AddElement DEF Count
  <2>2. CASE k + 1 \notin S
    <3>1. UpTo(S, k + 1) = UpTo(S, k)
      BY <2>2 DEF UpTo
    <3>2. QED
      BY <1>5, <2>2, <3>1 DEF Count
  <2>3. QED
    BY <2>1, <2>2
<1>9. ASSUME n <= k
      PROVE  Count(S, k) = Cardinality(S)
  <2>1. UpTo(S, k) = S
    BY <1>9 DEF UpTo
  <2>2. QED
    BY <2>1 DEF Count
<1>10. QED
  BY <1>2, <1>4, <1>5, <1>6, <1>7, <1>8, <1>9

(* Places are counted one by one. *)
Counted(S) ==
  /\ Count(S, 0) = 0
  /\ \A k \in Nat : /\ Count(S, k) \in Nat
                    /\ Count(S, k + 1) = Count(S, k) + (IF k + 1 \in S THEN 1 ELSE 0)

LEMMA CountSteps ==
  ASSUME NEW n \in Nat, NEW S, Within(S, n)
  PROVE  Counted(S)
  BY CountFacts DEF Counted

(* Later places count more. *)
LEMMA CountGrows ==
  ASSUME NEW n \in Nat, NEW S, Within(S, n), NEW i \in Nat, NEW k \in Nat, i <= k
  PROVE  /\ Count(S, i) <= Count(S, k)
         /\ i # k /\ k \in S => Count(S, i) < Count(S, k)
<1>1. /\ IsFiniteSet(UpTo(S, k)) /\ Count(S, i) \in Nat /\ Count(S, k) \in Nat
  BY CountFacts
<1>2. UpTo(S, i) \subseteq UpTo(S, k)
  BY DEF UpTo, Within
<1>3. Count(S, i) <= Count(S, k)
  BY <1>1, <1>2, FS_Subset DEF Count
<1>4. ASSUME i # k, k \in S
      PROVE  Count(S, i) < Count(S, k)
  <2>1. k \in UpTo(S, k) /\ k \notin UpTo(S, i)
    BY <1>4 DEF UpTo, Within
  <2>2. Count(S, i) # Count(S, k)
    BY <1>1, <1>2, <2>1, FS_Subset DEF Count
  <2>3. QED
    BY <1>1, <1>3, <2>2
<1>5. QED
  BY <1>3, <1>4

(* Each place is the k-th of some k, and there is one k-th place. *)
LEMMA PlaceExists ==
  ASSUME NEW n \in Nat, NEW S, Within(S, n), NEW k \in 1..Cardinality(S)
  PROVE  \E i \in S : Count(S, i) = k
<1> DEFINE T == {m \in Nat : Count(S, m) >= k}
<1>1. k \in Nat /\ k > 0
  OBVIOUS
<1>2. n \in T
  BY CountFacts
<1>3. PICK m \in T : \A d \in T : m <= d
  <2>1. T \in SUBSET Nat /\ T # {}
    BY <1>2
  <2>2. QED
    BY <2>1, LeastNumber
<1>4. m \in Nat /\ Count(S, m) \in Nat /\ Count(S, m) >= k
  BY <1>3, CountFacts
<1>5. m # 0
  BY <1>1, <1>4, CountFacts
<1>6. PICK j \in Nat : m = j + 1
  <2>1. m - 1 \in Nat /\ m = (m - 1) + 1
    BY <1>4, <1>5
  <2>2. QED
    BY <2>1
<1>7. Count(S, j) \in Nat /\ Count(S, j) < k
  <2>1. j \notin T
    BY <1>3, <1>6
  <2>2. Count(S, j) \in Nat
    BY CountFacts
  <2>3. QED
    BY <1>1, <2>1, <2>2
<1>8. Count(S, m) = Count(S, j) + (IF m \in S THEN 1 ELSE 0)
  BY <1>6, CountFacts
<1>9. m \in S /\ Count(S, m) = k
  BY <1>1, <1>4, <1>7, <1>8
<1>10. QED
  BY <1>9

LEMMA PlaceIsOne ==
  ASSUME NEW n \in Nat, NEW S, Within(S, n), NEW i \in S, NEW j \in S,
         Count(S, i) = Count(S, j)
  PROVE  i = j
<1>1. i \in Nat /\ j \in Nat /\ Count(S, i) \in Nat /\ Count(S, j) \in Nat
  <2>1. i \in Nat /\ j \in Nat
    BY DEF Within
  <2>2. QED
    BY <2>1, CountFacts
<1>2. CASE i < j
  <2>1. i <= j /\ i # j
    BY <1>1, <1>2
  <2>2. Count(S, i) < Count(S, j)
    BY <1>1, <2>1, CountGrows
  <2>3. QED
    BY <1>1, <2>2
<1>3. CASE j < i
  <2>1. j <= i /\ i # j
    BY <1>1, <1>3
  <2>2. Count(S, j) < Count(S, i)
    BY <1>1, <2>1, CountGrows
  <2>3. QED
    BY <1>1, <2>2
<1>4. QED
  BY <1>1, <1>2, <1>3

(* What List!Without(s, f) is made of. *)
Kept(s, f) == {i \in DOMAIN s : s[i] # f}

LEMMA WithoutIs ==
  ASSUME NEW s, NEW f
  PROVE  List!Without(s, f) =
           [n \in 1..Cardinality(Kept(s, f)) |->
              s[CHOOSE i \in Kept(s, f) : Count(Kept(s, f), i) = n]]
  BY DEF List!Without, List!Cardinality, Cardinality, List!IsFiniteSet, IsFiniteSet, Kept, Count, UpTo

LEMMA ListWithoutFacts ==
  ASSUME NEW U, NEW s \in Seq(U), NEW f
  PROVE  /\ List!Without(s, f) \in Seq(U)
         /\ Len(List!Without(s, f)) = Cardinality(Kept(s, f))
         /\ Cardinality(Kept(s, f)) \in Nat
         /\ Within(Kept(s, f), Len(s))
         /\ \A n \in 1..Cardinality(Kept(s, f)) :
              \E i \in Kept(s, f) :
                Count(Kept(s, f), i) = n /\ List!Without(s, f)[n] = s[i]
<1> DEFINE K == Kept(s, f)
           W == List!Without(s, f)
<1>1. Within(K, Len(s))
  BY DEF Kept, Within
<1>2. Len(s) \in Nat /\ DOMAIN s = 1..Len(s) /\ \A e \in K : s[e] \in U
  BY DEF Kept
<1>3. PICK c \in Nat : c = Cardinality(K)
  BY <1>1, <1>2, CountFacts
<1>4. W = [n \in 1..c |-> s[CHOOSE i \in K : Count(K, i) = n]]
  BY <1>3, WithoutIs
<1> HIDE DEF K, W
<1>5. ASSUME NEW n \in 1..c
      PROVE  \E i \in K : Count(K, i) = n /\ W[n] = s[i]
  <2>1. \E i \in K : Count(K, i) = n
    BY <1>1, <1>2, <1>3, PlaceExists
  <2>2. PICK i : i = CHOOSE h \in K : Count(K, h) = n
    OBVIOUS
  <2>3. i \in K /\ Count(K, i) = n
    BY <2>1, <2>2
  <2>4. W[n] = s[i]
    BY <1>4, <2>2
  <2>5. QED
    BY <2>3, <2>4
<1>6. W \in Seq(U) /\ Len(W) = c
  <2>1. DOMAIN W = 1..c
    BY <1>4
  <2>2. \A n \in 1..c : W[n] \in U
    BY <1>2, <1>5
  <2>3. W = [n \in 1..c |-> W[n]]
    BY <1>4
  <2>4. QED
    BY <1>3, <2>1, <2>2, <2>3
<1>7. QED
  BY <1>1, <1>3, <1>5, <1>6 DEF K, W

(* Up to each place a function is f or is kept. *)
LEMMA KeptOrGone ==
  ASSUME NEW U, NEW s \in Seq(U), NEW f, NEW k \in 0..Len(s)
  PROVE  Count(Kept(s, f), k) = k - Count(Places(s, f), k)
<1> DEFINE K == Kept(s, f)
           G == Places(s, f)
<1>1. Len(s) \in Nat /\ DOMAIN s = 1..Len(s)
  OBVIOUS
<1>2. /\ Within(K, Len(s)) /\ Within(G, Len(s))
      /\ \A i \in 1..Len(s) : i \in K <=> i \notin G
  BY DEF Kept, Places, Within
<1> HIDE DEF K, G
<1>3. /\ Count(K, 0) = 0
      /\ \A i \in Nat : /\ Count(K, i) \in Nat
                        /\ Count(K, i + 1) = Count(K, i) + (IF i + 1 \in K THEN 1 ELSE 0)
  BY <1>1, <1>2, CountSteps DEF Counted
<1>4. /\ Count(G, 0) = 0
      /\ \A i \in Nat : /\ Count(G, i) \in Nat
                        /\ Count(G, i + 1) = Count(G, i) + (IF i + 1 \in G THEN 1 ELSE 0)
  BY <1>1, <1>2, CountSteps DEF Counted
<1> DEFINE T == {i \in Nat : i <= Len(s) /\ Count(K, i) + Count(G, i) # i}
<1>5. T = {}
  <2> SUFFICES ASSUME T # {}
               PROVE  FALSE
    OBVIOUS
  <2>1. PICK m \in T : \A d \in T : m <= d
    <3>1. T \in SUBSET Nat
      OBVIOUS
    <3>2. QED
      BY <3>1, LeastNumber
  <2>2. m \in Nat /\ m <= Len(s) /\ Count(K, m) + Count(G, m) # m
    BY <2>1
  <2>3. m # 0
    BY <1>3, <1>4, <2>2
  <2>4. PICK j \in Nat : m = j + 1
    <3>1. m - 1 \in Nat /\ m = (m - 1) + 1
      BY <2>2, <2>3
    <3>2. QED
      BY <3>1
  <2>5. j <= Len(s) /\ ~(m <= j) /\ m \in 1..Len(s)
    BY <1>1, <2>2, <2>4
  <2>6. Count(K, j) + Count(G, j) = j
    BY <2>1, <2>4, <2>5
  <2>7. m \in K <=> m \notin G
    BY <1>2, <2>5
  <2>8. /\ Count(K, m) = Count(K, j) + (IF m \in K THEN 1 ELSE 0)
        /\ Count(G, m) = Count(G, j) + (IF m \in G THEN 1 ELSE 0)
        /\ Count(K, j) \in Nat /\ Count(G, j) \in Nat
    BY <1>3, <1>4, <2>4
  <2>9. QED
    BY <2>2, <2>4, <2>6, <2>7, <2>8
<1>6. k \in Nat /\ k <= Len(s)
  BY <1>1
<1>7. Count(K, k) + Count(G, k) = k
  BY <1>5, <1>6
<1>8. QED
  BY <1>3, <1>4, <1>6, <1>7 DEF K, G

(* The functions kept of the end of a list are counted after those before it. *)
LEMMA SuffixCount ==
  ASSUME NEW U, NEW r \in Seq(U), NEW s \in Seq(U), NEW m \in Nat, Suffix(r, s, m),
         NEW f, NEW k \in 0..Len(r)
  PROVE  Count(Kept(s, f), m + k) = Count(Kept(s, f), m) + Count(Kept(r, f), k)
<1> DEFINE K == Kept(s, f)
           R == Kept(r, f)
<1>1. /\ Len(s) \in Nat /\ DOMAIN s = 1..Len(s) /\ Len(r) \in Nat /\ DOMAIN r = 1..Len(r)
      /\ Len(r) + m = Len(s)
  BY DEF Suffix
<1>2. Within(K, Len(s)) /\ Within(R, Len(r))
  BY DEF Kept, Within
<1>3. \A i \in 1..Len(r) : i \in R <=> m + i \in K
  <2> TAKE i \in 1..Len(r)
  <2>1. m + i \in 1..Len(s) /\ r[i] = s[m + i]
    BY <1>1 DEF Suffix
  <2>2. QED
    BY <1>1, <2>1 DEF Kept
<1> HIDE DEF K, R
<1>4. \A i \in Nat : /\ Count(K, i) \in Nat
                     /\ Count(K, i + 1) = Count(K, i) + (IF i + 1 \in K THEN 1 ELSE 0)
  BY <1>1, <1>2, CountSteps DEF Counted
<1>5. /\ Count(R, 0) = 0
      /\ \A i \in Nat : /\ Count(R, i) \in Nat
                        /\ Count(R, i + 1) = Count(R, i) + (IF i + 1 \in R THEN 1 ELSE 0)
  BY <1>1, <1>2, CountSteps DEF Counted
<1> DEFINE T == {i \in Nat : i <= Len(r) /\ Count(K, m + i) # Count(K, m) + Count(R, i)}
<1>6. T = {}
  <2> SUFFICES ASSUME T # {}
               PROVE  FALSE
    OBVIOUS
  <2>1. PICK i \in T : \A d \in T : i <= d
    <3>1. T \in SUBSET Nat
      OBVIOUS
    <3>2. QED
      BY <3>1, LeastNumber
  <2>2. i \in Nat /\ i <= Len(r) /\ Count(K, m + i) # Count(K, m) + Count(R, i)
    BY <2>1
  <2>3. i # 0
    <3>1. Count(K, m + 0) = Count(K, m) + Count(R, 0)
      BY <1>4, <1>5
    <3>2. QED
      BY <2>2, <3>1
  <2>4. PICK j \in Nat : i = j + 1
    <3>1. i - 1 \in Nat /\ i = (i - 1) + 1
      BY <2>2, <2>3
    <3>2. QED
      BY <3>1
  <2>5. j <= Len(r) /\ ~(i <= j) /\ i \in 1..Len(r)
    BY <1>1, <2>2, <2>4
  <2>6. Count(K, m + j) = Count(K, m) + Count(R, j)
    BY <2>1, <2>4, <2>5
  <2>7. i \in R <=> m + i \in K
    BY <1>3, <2>5
  <2>8. PICK h \in Nat : h = m + j
    OBVIOUS
  <2>9. m + i = h + 1
    BY <2>4, <2>8
  <2>10. Count(K, m + i) = Count(K, h) + (IF m + i \in K THEN 1 ELSE 0)
    BY <1>4, <2>8, <2>9
  <2>11. Count(R, i) = Count(R, j) + (IF i \in R THEN 1 ELSE 0)
    BY <1>5, <2>4
  <2>12. Count(K, m) \in Nat /\ Count(R, j) \in Nat
    BY <1>4, <1>5
  <2>13. QED
    BY <2>2, <2>6, <2>7, <2>8, <2>10, <2>11, <2>12
<1>7. k \in Nat /\ k <= Len(r)
  BY <1>1
<1>8. QED
  BY <1>6, <1>7 DEF K, R

(* Without f, what is left of a list is what is left of the list without f. *)
LEMMA SuffixWithout ==
  ASSUME NEW U, NEW r \in Seq(U), NEW s \in Seq(U), NEW m \in Nat, Suffix(r, s, m),
         NEW f
  PROVE  /\ m - Count(Places(s, f), m) \in Nat
         /\ Suffix(List!Without(r, f), List!Without(s, f), m - Count(Places(s, f), m))
<1> DEFINE K == Kept(s, f)
           R == Kept(r, f)
           V == List!Without(r, f)
           W == List!Without(s, f)
<1>1. Len(s) \in Nat /\ Len(r) \in Nat /\ Len(r) + m = Len(s) /\ m \in 0..Len(s)
  BY DEF Suffix
<1>2. Count(K, m) = m - Count(Places(s, f), m)
  BY <1>1, KeptOrGone
<1>3. /\ Within(K, Len(s)) /\ Within(R, Len(r))
      /\ Len(W) = Cardinality(K) /\ Len(V) = Cardinality(R)
      /\ Cardinality(K) \in Nat /\ Cardinality(R) \in Nat
  BY ListWithoutFacts
<1>4. \A k \in 0..Len(r) : Count(K, m + k) = Count(K, m) + Count(R, k)
  BY SuffixCount
<1>5. \A i \in 1..Len(r) : i \in R => m + i \in K /\ r[i] = s[m + i]
  <2> TAKE i \in 1..Len(r)
  <2>1. m + i \in 1..Len(s) /\ r[i] = s[m + i]
    BY <1>1 DEF Suffix
  <2>2. QED
    BY <1>1, <2>1 DEF Kept
<1>6. \A n \in 1..Cardinality(R) : \E i \in R : Count(R, i) = n /\ V[n] = r[i]
  BY ListWithoutFacts
<1>7. \A n \in 1..Cardinality(K) : \E i \in K : Count(K, i) = n /\ W[n] = s[i]
  BY ListWithoutFacts
<1> HIDE DEF K, R, V, W
<1>8. Count(K, m) \in Nat
  BY <1>1, <1>3, CountFacts
<1>9. Len(V) + Count(K, m) = Len(W)
  <2>1. Count(R, Len(r)) = Cardinality(R) /\ Count(K, Len(s)) = Cardinality(K)
    <3>1. Count(R, Len(r)) = Cardinality(R)
      BY <1>1, <1>3, CountFacts
    <3>2. Count(K, Len(s)) = Cardinality(K)
      BY <1>1, <1>3, CountFacts
    <3>3. QED
      BY <3>1, <3>2
  <2>2. Len(r) \in 0..Len(r) /\ m + Len(r) = Len(s)
    BY <1>1
  <2>3. Count(K, Len(s)) = Count(K, m) + Count(R, Len(r))
    BY <1>4, <2>2
  <2>4. QED
    BY <1>3, <1>8, <2>1, <2>3
<1>10. ASSUME NEW n \in 1..Len(V)
       PROVE  V[n] = W[Count(K, m) + n]
  <2>1. PICK i \in R : Count(R, i) = n /\ V[n] = r[i]
    BY <1>3, <1>6
  <2>2. i \in 1..Len(r) /\ i \in 0..Len(r) /\ i \in Nat
    BY <1>1, <1>3 DEF Within
  <2>3. m + i \in K /\ r[i] = s[m + i]
    BY <1>5, <2>2
  <2>4. PICK k \in Nat : k = Count(K, m) + n
    BY <1>3, <1>8
  <2>5. Count(K, m + i) = k
    BY <1>4, <2>1, <2>2, <2>4
  <2>6. k \in 1..Cardinality(K)
    BY <1>3, <1>8, <1>9, <2>4
  <2>7. PICK j \in K : Count(K, j) = k /\ W[k] = s[j]
    BY <1>7, <2>6
  <2>8. PICK h \in K : h = m + i
    BY <2>3
  <2>9. j = h
    BY <1>1, <1>3, <2>5, <2>7, <2>8, PlaceIsOne
  <2>10. QED
    BY <2>1, <2>3, <2>4, <2>7, <2>8, <2>9
<1>11. Suffix(V, W, Count(K, m))
  BY <1>9, <1>10 DEF Suffix
<1>12. QED
  BY <1>2, <1>8, <1>11 DEF K, V, W

LEMMA PlacesFacts ==
  ASSUME NEW U, NEW s \in Seq(U), NEW f
  PROVE  /\ Within(Places(s, f), Len(s)) /\ Cardinality(Places(s, f)) \in Nat
         /\ Count(Places(s, f), 0) = 0
         /\ Count(Places(s, f), Len(s)) = Cardinality(Places(s, f))
         /\ \A k \in Nat : /\ Count(Places(s, f), k) \in Nat
                           /\ Count(Places(s, f), k) <= k
                           /\ Count(Places(s, f), k + 1)
                                = Count(Places(s, f), k)
                                    + (IF k + 1 \in Places(s, f) THEN 1 ELSE 0)
<1> DEFINE P == Places(s, f)
<1>1. Len(s) \in Nat /\ Within(P, Len(s))
  BY DEF Places, Within
<1> HIDE DEF P
<1>2. Cardinality(P) \in Nat /\ Count(P, Len(s)) = Cardinality(P)
  BY <1>1, CountFacts
<1>3. \A k \in Nat : Count(P, k) <= k
  BY <1>1, CountFacts
<1>4. Counted(P)
  BY <1>1, CountSteps
<1>5. QED
  BY <1>1, <1>2, <1>3, <1>4 DEF P, Counted

LEMMA PlacesAppend ==
  ASSUME NEW U, NEW s \in Seq(U), NEW g \in U, NEW f
  PROVE  /\ \A k \in 0..Len(s) :
              Count(Places(Append(s, g), f), k) = Count(Places(s, f), k)
         /\ Cardinality(Places(Append(s, g), f))
              = Cardinality(Places(s, f)) + (IF g = f THEN 1 ELSE 0)
<1>1. PICK t : t = Append(s, g)
  OBVIOUS
<1>2. /\ t \in Seq(U) /\ Len(s) \in Nat /\ Len(t) = Len(s) + 1 /\ t[Len(s) + 1] = g
      /\ \A i \in 1..Len(s) : t[i] = s[i]
  BY <1>1
<1>3. DOMAIN t = 1..(Len(s) + 1) /\ DOMAIN s = 1..Len(s)
  BY <1>2
<1>4. ASSUME NEW k \in 0..Len(s)
      PROVE  Count(Places(t, f), k) = Count(Places(s, f), k)
  <2>1. UpTo(Places(t, f), k) = UpTo(Places(s, f), k)
    BY <1>2, <1>3 DEF UpTo, Places
  <2>2. QED
    BY <2>1 DEF Count
<1>5. Len(s) + 1 \in Places(t, f) <=> g = f
  BY <1>2, <1>3 DEF Places
<1>6. /\ Count(Places(t, f), Len(s) + 1) = Cardinality(Places(t, f))
      /\ Count(Places(t, f), Len(s) + 1)
           = Count(Places(t, f), Len(s)) + (IF Len(s) + 1 \in Places(t, f) THEN 1 ELSE 0)
  BY <1>2, PlacesFacts
<1>7. Count(Places(s, f), Len(s)) = Cardinality(Places(s, f))
  BY PlacesFacts
<1>8. Count(Places(t, f), Len(s)) = Count(Places(s, f), Len(s))
  BY <1>2, <1>4
<1>9. QED
  BY <1>1, <1>4, <1>5, <1>6, <1>7, <1>8

LEMMA NoPlaces ==
  ASSUME NEW f
  PROVE  Cardinality(Places(<<>>, f)) = 0 /\ \A k : Count(Places(<<>>, f), k) = 0
<1>1. Places(<<>>, f) = {} /\ \A k : UpTo(Places(<<>>, f), k) = {}
  BY DEF Places, UpTo
<1>2. QED
  BY <1>1, FS_EmptySet DEF Count

LEMMA SuffixFirst ==
  ASSUME NEW U, NEW r \in Seq(U), NEW s \in Seq(U), NEW m \in Nat, Suffix(r, s, m)
  PROVE  /\ r = <<>> <=> m = Len(s)
         /\ m < Len(s) => /\ r # <<>> /\ Head(r) = s[m + 1] /\ Tail(r) \in Seq(U)
                          /\ Suffix(Tail(r), s, m + 1)
<1>1. Len(r) \in Nat /\ Len(s) \in Nat /\ Len(r) + m = Len(s)
  BY DEF Suffix
<1>2. r = <<>> <=> m = Len(s)
  BY <1>1
<1>3. ASSUME m < Len(s)
      PROVE  /\ r # <<>> /\ Head(r) = s[m + 1] /\ Tail(r) \in Seq(U)
             /\ Suffix(Tail(r), s, m + 1)
  <2>1. r # <<>> /\ 1 \in 1..Len(r)
    BY <1>1, <1>3
  <2>2. Head(r) = s[m + 1]
    BY <2>1 DEF Suffix
  <2>3. PICK t : t = Tail(r)
    OBVIOUS
  <2>4. /\ t \in Seq(U) /\ Len(t) = Len(r) - 1
        /\ \A i \in 1..Len(t) : t[i] = r[i + 1]
    BY <1>1, <2>1, <2>3, TailFacts
  <2>5. ASSUME NEW i \in 1..Len(t)
        PROVE  t[i] = s[m + 1 + i]
    <3>1. i + 1 \in 1..Len(r) /\ m + (i + 1) = m + 1 + i
      BY <1>1, <2>4
    <3>2. r[i + 1] = s[m + (i + 1)]
      BY <3>1 DEF Suffix
    <3>3. QED
      BY <2>4, <3>1, <3>2
  <2>6. Len(t) + (m + 1) = Len(s)
    <3>1. PICK c \in Nat : c = Len(r)
      BY <1>1
    <3>2. Len(t) = c - 1 /\ c + m = Len(s)
      BY <1>1, <2>4, <3>1
    <3>3. QED
      BY <3>2
  <2>7. QED
    BY <2>1, <2>2, <2>3, <2>4, <2>5, <2>6 DEF Suffix
<1>4. QED
  BY <1>2, <1>3

LEMMA SuffixAppend ==
  ASSUME NEW U, NEW r \in Seq(U), NEW s \in Seq(U), NEW m \in Nat, Suffix(r, s, m),
         NEW g \in U
  PROVE  Suffix(Append(r, g), Append(s, g), m)
<1>1. Len(r) \in Nat /\ Len(s) \in Nat /\ Len(r) + m = Len(s)
  BY DEF Suffix
<1>2. PICK t : t = Append(r, g)
  OBVIOUS
<1>3. PICK u : u = Append(s, g)
  OBVIOUS
<1>4. /\ Len(t) = Len(r) + 1 /\ t[Len(r) + 1] = g /\ \A i \in 1..Len(r) : t[i] = r[i]
      /\ Len(u) = Len(s) + 1 /\ u[Len(s) + 1] = g /\ \A i \in 1..Len(s) : u[i] = s[i]
  BY <1>2, <1>3
<1>5. ASSUME NEW i \in 1..Len(t)
      PROVE  t[i] = u[m + i]
  <2>1. CASE i = Len(r) + 1
    <3>1. m + i = Len(s) + 1
      BY <1>1, <2>1
    <3>2. QED
      BY <1>4, <2>1, <3>1
  <2>2. CASE i # Len(r) + 1
    <3>1. i \in 1..Len(r) /\ m + i \in 1..Len(s)
      BY <1>1, <1>4, <2>2
    <3>2. QED
      BY <1>4, <3>1 DEF Suffix
  <2>3. QED
    BY <2>1, <2>2
<1>6. QED
  <2>1. Len(t) + m = Len(u)
    BY <1>1, <1>4
  <2>2. Suffix(t, u, m)
    BY <1>5, <2>1 DEF Suffix
  <2>3. QED
    BY <1>2, <1>3, <2>2

(* What the operators leave and what they change. *)
Begun(n, m, d, i) ==
  /\ n.options = m.options /\ n.alive = m.alive
  /\ n.list = m.list /\ n.open = m.open /\ n.stack = m.stack
  /\ n.memory = (IF m.options.memory THEN d ELSE 0)
  /\ n.fired = TRUE /\ n.firing = TRUE /\ n.data = d
  /\ n.index = i /\ n.length = Len(m.list)

Disabled(n, m) ==
  /\ n.options = m.options /\ n.alive = FALSE /\ n.list = <<>>
  /\ n.open = FALSE /\ n.stack = <<>> /\ n.memory = 0 /\ n.fired = m.fired
  /\ n.firing = m.firing /\ n.data = m.data /\ n.index = m.index
  /\ n.length = m.length

Ended(n, m) ==
  /\ n.options = m.options
  /\ \/ /\ m.alive /\ m.open /\ m.stack # <<>>
        /\ n.alive /\ n.open /\ n.fired /\ n.firing /\ n.list = m.list
        /\ n.stack = Tail(m.stack) /\ n.data = Head(m.stack)
        /\ n.memory = (IF m.options.memory THEN n.data ELSE 0)
        /\ n.index = 0 /\ n.length = Len(m.list)
     \/ /\ ~m.alive \/ ~m.open \/ m.stack = <<>>
        /\ ~n.firing /\ n.fired = m.fired
        /\ IF m.alive /\ ~m.open /\ m.memory = 0
           THEN /\ ~n.alive /\ n.list = <<>> /\ ~n.open /\ n.stack = <<>>
                /\ n.memory = 0
           ELSE /\ n.alive = m.alive /\ n.open = m.open /\ n.stack = m.stack
                /\ n.memory = m.memory
                /\ n.list = (IF m.alive /\ ~m.open THEN <<>> ELSE m.list)

LEMMA BeginFacts ==
  ASSUME NEW m, IsList(m), NEW d \in Data, NEW i \in Nat,
         NEW n, n = List!BeginFire(m, d, i)
  PROVE  IsList(n) /\ Begun(n, m, d, i)
<1>1. Begun(n, m, d, i)
  BY DEF List!BeginFire, List!NoData, IsList, Begun
<1>2. IsList(n)
  BY DEF List!BeginFire, List!NoData, IsList
<1>3. QED
  BY <1>1, <1>2

LEMMA DisableFacts ==
  ASSUME NEW m, IsList(m), NEW n, n = List!disable(m)
  PROVE  IsList(n) /\ Disabled(n, m)
<1>1. Disabled(n, m)
  BY DEF List!disable, List!NoData, IsList, Disabled
<1>2. IsList(n)
  BY DEF List!disable, List!NoData, IsList
<1>3. QED
  BY <1>1, <1>2

LEMMA EndFacts ==
  ASSUME NEW m, IsList(m), NEW n, n = List!EndFire(m)
  PROVE  IsList(n) /\ Ended(n, m)
<1> DEFINE Idled == [m EXCEPT !.firing = FALSE, !.data = 0, !.index = 0, !.length = 0]
<1>1. PICK o : o = Idled
  OBVIOUS
<1>2. /\ IsList(o) /\ o.options = m.options /\ o.alive = m.alive /\ o.list = m.list
      /\ o.open = m.open /\ o.stack = m.stack /\ o.memory = m.memory /\ o.fired = m.fired
      /\ ~o.firing
  BY <1>1 DEF IsList
<1>3. m.stack \in Seq(Data) /\ m.alive \in BOOLEAN /\ m.open \in BOOLEAN
  BY DEF IsList
<1>4. CASE ~m.alive
  <2>1. n = o
    BY <1>1, <1>4 DEF List!EndFire, List!NoData
  <2>2. QED
    BY <1>2, <1>4, <2>1 DEF Ended
<1>5. CASE m.alive /\ m.open /\ m.stack = <<>>
  <2>1. n = o
    BY <1>1, <1>5 DEF List!EndFire, List!NoData
  <2>2. QED
    BY <1>2, <1>5, <2>1 DEF Ended
<1>6. CASE m.alive /\ m.open /\ m.stack # <<>>
  <2>1. PICK q : q = [o EXCEPT !.stack = Tail(@)]
    OBVIOUS
  <2>2. Head(m.stack) \in Data /\ Tail(m.stack) \in Seq(Data)
    BY <1>3, <1>6
  <2>3. /\ IsList(q) /\ q.options = m.options /\ q.alive = m.alive
        /\ q.list = m.list /\ q.open = m.open /\ q.stack = Tail(m.stack)
    BY <1>2, <2>1, <2>2 DEF IsList
  <2>4. n = List!BeginFire(q, Head(m.stack), 0)
    BY <1>1, <1>6, <2>1 DEF List!EndFire, List!NoData
  <2>5. PICK d \in Data : d = Head(m.stack)
    BY <2>2
  <2>6. PICK i \in Nat : i = 0
    OBVIOUS
  <2>7. n = List!BeginFire(q, d, i)
    BY <2>4, <2>5, <2>6
  <2>8. IsList(n) /\ Begun(n, q, d, i)
    BY <2>3, <2>7, BeginFacts
  <2>9. QED
    BY <1>6, <2>3, <2>5, <2>6, <2>8 DEF Begun, Ended
<1>7. CASE m.alive /\ ~m.open /\ m.memory # 0
  <2>1. n = [o EXCEPT !.list = <<>>]
    BY <1>1, <1>7 DEF List!EndFire, List!NoData
  <2>2. /\ n.options = o.options /\ n.alive = o.alive /\ n.list = <<>>
        /\ n.open = o.open /\ n.stack = o.stack /\ n.memory = o.memory
        /\ n.fired = o.fired /\ n.firing = o.firing
    BY <1>2, <2>1 DEF IsList
  <2>3. IsList(n)
    BY <1>2, <2>1 DEF IsList
  <2>4. QED
    BY <1>2, <1>7, <2>2, <2>3 DEF Ended
<1>8. CASE m.alive /\ ~m.open /\ m.memory = 0
  <2>1. n = List!disable(o)
    BY <1>1, <1>8 DEF List!EndFire, List!NoData
  <2>2. QED
    BY <1>2, <1>8, <2>1, DisableFacts DEF Disabled, Ended
<1>9. QED
  BY <1>3, <1>4, <1>5, <1>6, <1>7, <1>8

(* The function is new to the list. *)
New(m, f) == m.alive /\ ~(m.options.unique /\ List!has(m, f))

Grown(n, m, f) ==
  /\ n.options = m.options /\ n.alive = m.alive /\ n.open = m.open /\ n.stack = m.stack
  /\ n.list = (IF New(m, f) THEN Append(m.list, f) ELSE m.list)
  /\ IF m.alive /\ ~m.firing /\ m.memory # 0
     THEN /\ n.firing /\ n.fired /\ n.data = m.memory
          /\ n.memory = (IF m.options.memory THEN m.memory ELSE 0)
          /\ n.index = Len(m.list) /\ n.length = Len(n.list)
     ELSE /\ n.firing = m.firing /\ n.fired = m.fired /\ n.data = m.data
          /\ n.memory = m.memory /\ n.index = m.index
          /\ n.length = (IF m.alive /\ m.firing THEN Len(n.list) ELSE m.length)

LEMMA AddFacts ==
  ASSUME NEW m, IsList(m), NEW f \in Functions, NEW n, n = List!add(m, f)
  PROVE  IsList(n) /\ Grown(n, m, f)
<1>1. PICK a : a = IF m.options.unique /\ List!has(m, f) THEN m
                   ELSE [m EXCEPT !.list = Append(@, f)]
  OBVIOUS
<1>2. m.list \in Seq(Functions) /\ Append(m.list, f) \in Seq(Functions) /\ Len(m.list) \in Nat
  BY DEF IsList
<1>3. /\ IsList(a) /\ a.options = m.options /\ a.alive = m.alive /\ a.open = m.open
      /\ a.stack = m.stack /\ a.firing = m.firing /\ a.fired = m.fired /\ a.data = m.data
      /\ a.memory = m.memory /\ a.index = m.index /\ a.length = m.length
      /\ m.alive => a.list = (IF New(m, f) THEN Append(m.list, f) ELSE m.list)
  <2>1. CASE m.options.unique /\ List!has(m, f)
    BY <1>1, <2>1 DEF New
  <2>2. CASE ~(m.options.unique /\ List!has(m, f))
    <3>1. a = [m EXCEPT !.list = Append(@, f)]
      BY <1>1, <2>2
    <3>2. IsList(a)
      BY <1>2, <3>1 DEF IsList
    <3>3. /\ a.options = m.options /\ a.alive = m.alive /\ a.open = m.open
          /\ a.stack = m.stack /\ a.firing = m.firing /\ a.fired = m.fired
          /\ a.data = m.data /\ a.memory = m.memory /\ a.index = m.index
          /\ a.length = m.length /\ a.list = Append(m.list, f)
      BY <3>1 DEF IsList
    <3>4. QED
      BY <2>2, <3>2, <3>3 DEF New
  <2>3. QED
    BY <2>1, <2>2
<1>4. CASE ~m.alive
  <2>1. n = m
    BY <1>4 DEF List!add
  <2>2. QED
    BY <1>4, <2>1 DEF Grown, New
<1>5. CASE m.alive /\ m.firing
  <2>1. n = [a EXCEPT !.length = Len(a.list)]
    BY <1>1, <1>5 DEF List!add
  <2>2. Len(a.list) \in Nat
    BY <1>3 DEF IsList
  <2>3. IsList(n)
    BY <1>3, <2>1, <2>2 DEF IsList
  <2>4. /\ n.options = a.options /\ n.alive = a.alive /\ n.open = a.open
        /\ n.stack = a.stack /\ n.firing = a.firing /\ n.fired = a.fired
        /\ n.data = a.data /\ n.memory = a.memory /\ n.index = a.index
        /\ n.length = Len(a.list) /\ n.list = a.list
    BY <1>3, <2>1 DEF IsList
  <2>5. QED
    BY <1>3, <1>5, <2>3, <2>4 DEF Grown
<1>6. CASE m.alive /\ ~m.firing /\ m.memory # 0
  <2>1. n = List!BeginFire(a, m.memory, Len(m.list))
    BY <1>1, <1>6 DEF List!add, List!NoData
  <2>2. PICK d \in Data : d = m.memory
    BY <1>6 DEF IsList
  <2>3. PICK i \in Nat : i = Len(m.list)
    BY <1>2
  <2>4. n = List!BeginFire(a, d, i)
    BY <2>1, <2>2, <2>3
  <2>5. IsList(n) /\ Begun(n, a, d, i)
    BY <1>3, <2>4, BeginFacts
  <2>6. QED
    BY <1>3, <1>6, <2>2, <2>3, <2>5 DEF Begun, Grown
<1>7. CASE m.alive /\ ~m.firing /\ m.memory = 0
  <2>1. n = a
    BY <1>1, <1>7 DEF List!add, List!NoData
  <2>2. QED
    BY <1>3, <1>7, <2>1 DEF Grown
<1>8. QED
  BY <1>4, <1>5, <1>6, <1>7 DEF IsList

Shrunk(n, m, f) ==
  /\ n.options = m.options /\ n.alive = m.alive /\ n.open = m.open /\ n.stack = m.stack
  /\ n.firing = m.firing /\ n.fired = m.fired /\ n.data = m.data /\ n.memory = m.memory
  /\ n.list = List!Without(m.list, f)
  /\ n.firing => /\ n.length = Len(n.list)
                 /\ n.index = m.index - Count(Places(m.list, f), m.index + 1)

LEMMA RemoveFacts ==
  ASSUME NEW m, IsList(m), m.alive, NEW f, NEW n, n = List!remove(m, f),
         m.firing => m.length = Len(m.list) /\ m.index >= -1
  PROVE  IsList(n) /\ Shrunk(n, m, f)
<1> DEFINE gone(k) == {i \in DOMAIN m.list : i <= k /\ m.list[i] = f}
           P == Places(m.list, f)
<1>1. m.list \in Seq(Functions) /\ Len(m.list) \in Nat
  BY DEF IsList
<1>2. PICK w : w = List!Without(m.list, f)
  OBVIOUS
<1>3. /\ w \in Seq(Functions) /\ Len(w) = Cardinality(Kept(m.list, f))
      /\ Cardinality(Kept(m.list, f)) \in Nat /\ Within(Kept(m.list, f), Len(m.list))
  BY <1>1, <1>2, ListWithoutFacts
<1>4. \A k : List!Cardinality(gone(k)) = Count(P, k)
  <2> TAKE k
  <2>1. gone(k) = UpTo(P, k)
    BY DEF UpTo, Places
  <2>2. QED
    BY <2>1, ListSets DEF Count
<1>5. Len(w) = Len(m.list) - Count(P, Len(m.list))
  <2>1. Count(Kept(m.list, f), Len(m.list)) = Cardinality(Kept(m.list, f))
    BY <1>1, <1>3, CountFacts
  <2>2. Len(m.list) \in 0..Len(m.list)
    BY <1>1
  <2>3. QED
    BY <1>1, <1>3, <2>1, <2>2, KeptOrGone
<1>6. PICK c : c = List!Cardinality(gone(Len(m.list))) /\ c = Count(P, Len(m.list))
  BY <1>4
<1>7. PICK b : b = List!Cardinality(gone(m.index + 1)) /\ b = Count(P, m.index + 1)
  BY <1>4
<1>8. n = [m EXCEPT !.list = w,
                    !.length = IF m.firing THEN m.length - c ELSE m.length,
                    !.index = IF m.firing THEN m.index - b ELSE m.index]
  BY <1>2, <1>6, <1>7 DEF List!remove
<1>9. /\ n.options = m.options /\ n.alive = m.alive /\ n.open = m.open /\ n.stack = m.stack
      /\ n.firing = m.firing /\ n.fired = m.fired /\ n.data = m.data
      /\ n.memory = m.memory /\ n.list = w
      /\ n.length = (IF m.firing THEN m.length - c ELSE m.length)
      /\ n.index = (IF m.firing THEN m.index - b ELSE m.index)
  BY <1>8 DEF IsList
<1>10. n.length \in Nat /\ n.index \in Int
  <2>1. m.firing => b \in Nat
    <3>1. m.firing => m.index + 1 \in Nat
      BY DEF IsList
    <3>2. QED
      BY <1>1, <1>7, <3>1, PlacesFacts
  <2>2. m.length \in Nat /\ m.index \in Int
    BY DEF IsList
  <2>3. m.firing => n.length = Len(w)
    BY <1>5, <1>6, <1>9
  <2>4. Len(w) \in Nat
    BY <1>3
  <2>5. QED
    BY <1>9, <2>1, <2>2, <2>3, <2>4
<1>11. DOMAIN n = DOMAIN m
  BY <1>8
<1>12. IsList(n)
  BY <1>3, <1>9, <1>10, <1>11 DEF IsList
<1>13. Shrunk(n, m, f)
  BY <1>2, <1>5, <1>6, <1>7, <1>9 DEF Shrunk
<1>14. QED
  BY <1>12, <1>13

Emptied(n, m) ==
  /\ n.options = m.options /\ n.alive /\ n.open = m.open /\ n.stack = m.stack
  /\ n.firing = m.firing /\ n.fired = m.fired /\ n.data = m.data /\ n.memory = m.memory
  /\ n.list = <<>> /\ n.length = 0 /\ n.index = m.index

LEMMA EmptyFacts ==
  ASSUME NEW m, IsList(m), NEW n, n = List!empty(m)
  PROVE  IsList(n) /\ Emptied(n, m)
<1>1. Emptied(n, m)
  BY DEF List!empty, IsList, Emptied
<1>2. IsList(n)
  BY DEF List!empty, IsList
<1>3. QED
  BY <1>1, <1>2

Closed(n, m) ==
  /\ n.options = m.options /\ n.alive = m.alive /\ ~n.open /\ n.stack = <<>>
  /\ n.firing = m.firing /\ n.fired = m.fired /\ n.data = m.data /\ n.memory = m.memory
  /\ n.list = m.list /\ n.length = m.length /\ n.index = m.index

LEMMA LockFacts ==
  ASSUME NEW m, IsList(m), NEW n, n = List!lock(m)
  PROVE  /\ IsList(n)
         /\ IF m.memory = 0 THEN Disabled(n, m) ELSE Closed(n, m)
<1>1. PICK c : c = [m EXCEPT !.open = FALSE, !.stack = <<>>]
  OBVIOUS
<1>2. Closed(c, m)
  BY <1>1 DEF IsList, Closed
<1>3. IsList(c)
  BY <1>1 DEF IsList
<1>4. CASE m.memory = 0
  <2>1. n = List!disable(c)
    BY <1>1, <1>4 DEF List!lock, List!NoData
  <2>2. IsList(n) /\ Disabled(n, c)
    BY <1>3, <2>1, DisableFacts
  <2>3. QED
    BY <1>2, <1>4, <2>2 DEF Closed, Disabled
<1>5. CASE m.memory # 0
  <2>1. n = c
    BY <1>1, <1>5 DEF List!lock, List!NoData
  <2>2. QED
    BY <1>2, <1>3, <1>5, <2>1
<1>6. QED
  BY <1>4, <1>5

Waiting(n, m, d) ==
  /\ n.options = m.options /\ n.alive = m.alive /\ n.open = m.open
  /\ n.stack = Append(m.stack, d)
  /\ n.firing = m.firing /\ n.fired = m.fired /\ n.data = m.data /\ n.memory = m.memory
  /\ n.list = m.list /\ n.length = m.length /\ n.index = m.index

LEMMA FireFacts ==
  ASSUME NEW m, IsList(m), NEW d \in Data, NEW n, n = List!fireWith(m, d)
  PROVE  /\ IsList(n)
         /\ IF ~m.alive \/ (m.fired /\ ~m.open) THEN n = m
            ELSE IF m.firing THEN n # m /\ Waiting(n, m, d)
            ELSE n # m /\ Begun(n, m, d, 0)
<1>1. CASE ~m.alive \/ (m.fired /\ ~m.open)
  BY <1>1 DEF List!fireWith
<1>2. CASE ~(~m.alive \/ (m.fired /\ ~m.open)) /\ m.firing
  <2>1. n = [m EXCEPT !.stack = Append(@, d)]
    BY <1>2 DEF List!fireWith
  <2>2. m.stack \in Seq(Data) /\ Append(m.stack, d) \in Seq(Data) /\ Append(m.stack, d) # m.stack
    BY DEF IsList
  <2>3. IsList(n)
    BY <2>1, <2>2 DEF IsList
  <2>4. Waiting(n, m, d)
    BY <2>1 DEF IsList, Waiting
  <2>5. n # m
    BY <2>2, <2>4 DEF Waiting
  <2>6. QED
    BY <1>2, <2>3, <2>4, <2>5
<1>3. CASE ~(~m.alive \/ (m.fired /\ ~m.open)) /\ ~m.firing
  <2>1. PICK i \in Nat : i = 0
    OBVIOUS
  <2>2. n = List!BeginFire(m, d, i)
    BY <1>3, <2>1 DEF List!fireWith
  <2>3. IsList(n) /\ Begun(n, m, d, i)
    BY <2>2, BeginFacts
  <2>4. n # m
    BY <1>3, <2>3 DEF Begun
  <2>5. QED
    BY <1>3, <2>1, <2>3, <2>4
<1>4. QED
  BY <1>1, <1>2, <1>3

LEMMA DataFacts == 0 \notin Data
  BY Assumptions DEF List!DataAssumption, List!NoData

LEMMA ListParts ==
  ASSUME ListIInv
  PROVE  /\ IsList(l) /\ l.list \in Seq(Functions) /\ l.stack \in Seq(Data)
         /\ Len(l.list) \in Nat /\ DOMAIN l.list = 1..Len(l.list)
         /\ l.options \in AllOptions /\ l.alive \in BOOLEAN /\ l.open \in BOOLEAN
         /\ l.fired \in BOOLEAN /\ l.firing \in BOOLEAN /\ l.index \in Int
         /\ l.memory \in Data \cup {0} /\ l.data \in Data \cup {0} /\ l.length \in Nat
         /\ called \in BOOLEAN /\ dead \in BOOLEAN /\ plain \in BOOLEAN
         /\ emptied \in BOOLEAN /\ rest \in Seq(Functions) /\ fired \in Seq(Data)
         /\ begun \in Nat /\ Len(fired) \in Nat
         /\ added \in [Functions -> Nat] /\ counted \in [Functions -> Nat]
  BY DEF ListIInv, ListTyped, IsList

LEMMA ListInitInv == List!Init => ListIInv
<1> SUFFICES ASSUME List!Init
             PROVE  ListIInv
  OBVIOUS
<1>1. PICK o \in AllOptions : l = List!NewList(o)
  BY DEF List!Init
<1>2. o.once \in BOOLEAN
  BY DEF AllOptions
<1>3. /\ l.options = o /\ l.alive /\ l.list = <<>> /\ l.open = ~o.once
      /\ l.stack = <<>> /\ l.memory = 0 /\ ~l.fired /\ ~l.firing
  BY <1>1 DEF List!NewList, List!NoData
<1>4. IsList(l)
  BY <1>1, <1>2 DEF List!NewList, List!NoData, IsList
<1>5. /\ called = FALSE /\ dead = FALSE /\ rest = <<>> /\ fired = <<>> /\ begun = 0
      /\ added = [f \in Functions |-> 0] /\ counted = [f \in Functions |-> 0]
      /\ plain = TRUE /\ emptied = FALSE
  BY DEF List!Init
<1>6. ListTyped
  <2>1. added \in [Functions -> Nat] /\ counted \in [Functions -> Nat]
    BY <1>5
  <2>2. rest \in Seq(Functions) /\ fired \in Seq(Data) /\ begun \in Nat
    BY <1>5
  <2>3. QED
    BY <1>4, <1>5, <2>1, <2>2 DEF ListTyped
<1>7. LoopInv
  BY <1>3, <1>5 DEF LoopInv
<1>8. FireInv
  <2>1. Suffix(<<>>, <<>>, 0) /\ Len(fired) = 0
    BY <1>5 DEF Suffix
  <2>2. l.open <=> ~l.options.once
    BY <1>2, <1>3
  <2>3. QED
    BY <1>3, <1>5, <2>1, <2>2 DEF FireInv
<1>9. OnceInv
  BY <1>3, <1>5, NoPlaces DEF OnceInv
<1>10. QED
  BY <1>3, <1>6, <1>7, <1>8, <1>9 DEF ListIInv, Injective

(* A step that leaves all but the histories of calls alone. *)
LEMMA SameList ==
  ASSUME ListIInv, IsList(l'),
         l'.options = l.options, l'.alive = l.alive, l'.list = l.list,
         l'.open = l.open, l'.stack = l.stack, l'.memory = l.memory,
         l'.fired = l.fired, l'.firing = l.firing, l'.data = l.data,
         l'.index = l.index, l'.length = l.length,
         UNCHANGED <<called, dead, rest, fired, begun, added, counted, plain, emptied>>
  PROVE  ListIInv'
<1>1. ListTyped'
  BY DEF ListIInv, ListTyped
<1>2. Reached' = Reached
  BY DEF Reached
<1>3. LoopInv'
  BY <1>2 DEF ListIInv, LoopInv
<1>4. FireInv'
  BY DEF ListIInv, FireInv
<1>5. OnceInv'
  BY <1>2 DEF ListIInv, OnceInv
<1>6. QED
  BY <1>1, <1>3, <1>4, <1>5 DEF ListIInv

LEMMA InjectiveAppend ==
  ASSUME NEW U, NEW s \in Seq(U), NEW f \in U, Injective(s),
         \A i \in DOMAIN s : s[i] # f
  PROVE  Injective(Append(s, f))
<1>1. PICK t : t = Append(s, f)
  OBVIOUS
<1>2. /\ Len(s) \in Nat /\ DOMAIN s = 1..Len(s) /\ DOMAIN t = 1..(Len(s) + 1)
      /\ t[Len(s) + 1] = f /\ \A i \in 1..Len(s) : t[i] = s[i]
  BY <1>1
<1>3. Injective(t)
  BY <1>2 DEF Injective
<1>4. QED
  BY <1>1, <1>3

LEMMA ReachedFacts ==
  ASSUME ListIInv, l.options.once, l.options.memory, plain
  PROVE  Reached \in 0..Len(l.list)
<1>1. l.alive /\ ~dead /\ ~emptied
  BY DEF ListIInv, OnceInv
<1>2. CASE l.firing
  <2>1. Suffix(rest, l.list, Reached)
    BY <1>1, <1>2 DEF ListIInv, LoopInv
  <2>2. Len(rest) + Reached = Len(l.list) /\ Len(rest) \in Nat /\ Len(l.list) \in Nat
    BY <2>1, ListParts DEF Suffix
  <2>3. Reached \in Int /\ Reached >= 0
    BY <1>1, <1>2, ListParts DEF ListIInv, LoopInv, Reached
  <2>4. QED
    BY <2>2, <2>3
<1>3. CASE ~l.firing
  BY <1>3, ListParts DEF Reached
<1>4. QED
  BY <1>2, <1>3, ListParts

LEMMA ListAddInv ==
  ASSUME ListIInv, NEW f \in Functions, List!Add(f)
  PROVE  ListIInv'
<1>1. IsList(l') /\ Grown(l', l, f)
  BY ListParts, AddFacts DEF List!Add
<1>2. UNCHANGED <<called, dead, fired, begun, counted, plain, emptied>>
  BY DEF List!Add
<1>3. /\ added' = IF New(l, f) THEN [added EXCEPT ![f] = @ + 1] ELSE added
      /\ rest' = IF ~New(l, f) THEN rest
                 ELSE IF l.firing THEN Append(rest, f)
                 ELSE IF l.memory # 0 THEN <<f>>
                 ELSE rest
  BY DEF List!Add, New, List!NoData
<1>4. ListTyped'
  <2>1. added' \in [Functions -> Nat]
    BY <1>3, ListParts
  <2>2. rest' \in Seq(Functions)
    BY <1>3, ListParts
  <2>3. QED
    BY <1>1, <1>2, <2>1, <2>2 DEF ListIInv, ListTyped
<1>5. /\ l'.options = l.options /\ l'.alive = l.alive /\ l'.open = l.open
      /\ l'.stack = l.stack
      /\ l'.list = IF New(l, f) THEN Append(l.list, f) ELSE l.list
  BY <1>1 DEF Grown
<1>6. l'.options.unique => Injective(l'.list)
  <2>1. CASE New(l, f)
    <3>1. l.options.unique => \A i \in DOMAIN l.list : l.list[i] # f
      BY <2>1 DEF New, List!has
    <3>2. l.options.unique => Injective(l.list)
      BY DEF ListIInv
    <3>3. QED
      BY <1>5, <2>1, <3>1, <3>2, ListParts, InjectiveAppend
  <2>2. CASE ~New(l, f)
    BY <1>5, <2>2 DEF ListIInv
  <2>3. QED
    BY <2>1, <2>2
<1>7. CASE ~New(l, f) /\ ~(l.alive /\ ~l.firing /\ l.memory # 0)
  <2>1. /\ l'.firing = l.firing /\ l'.fired = l.fired /\ l'.data = l.data
        /\ l'.memory = l.memory /\ l'.index = l.index
        /\ l'.length = IF l.alive /\ l.firing THEN Len(l.list) ELSE l.length
    BY <1>1, <1>5, <1>7 DEF Grown
  <2>2. l'.length = l.length
    BY <2>1 DEF ListIInv, LoopInv
  <2>3. QED
    BY <1>1, <1>2, <1>3, <1>5, <1>7, <2>1, <2>2, SameList
(* It joins the batch. *)
<1>8. CASE New(l, f) /\ l.firing
  <2>1. /\ l'.firing = l.firing /\ l'.fired = l.fired /\ l'.data = l.data
        /\ l'.memory = l.memory /\ l'.index = l.index /\ l'.length = Len(l'.list)
        /\ l.alive /\ l'.list = Append(l.list, f) /\ rest' = Append(rest, f)
    BY <1>1, <1>3, <1>5, <1>8 DEF Grown, New
  <2>2. Reached' = Reached
    BY <1>2, <2>1 DEF Reached
  <2>3. ~dead /\ ~emptied => Suffix(rest', l'.list, Reached')
    <3>1. ASSUME ~dead, ~emptied
          PROVE  Suffix(rest, l.list, Reached) /\ Reached \in Nat
      BY <1>8, <2>1, <3>1, ListParts DEF ListIInv, LoopInv, Reached
    <3>2. QED
      BY <2>1, <2>2, <3>1, ListParts, SuffixAppend
  <2>4. LoopInv'
    BY <1>2, <1>5, <1>8, <2>1, <2>3 DEF ListIInv, LoopInv
  <2>5. FireInv'
    BY <1>2, <1>5, <2>1 DEF ListIInv, FireInv
  <2>6. OnceInv'
    <3> SUFFICES ASSUME l.options.once, l.options.memory, plain
                 PROVE  /\ l'.alive /\ ~dead' /\ ~emptied'
                        /\ l'.fired => l'.memory # 0
                        /\ \A g \in Functions :
                             added'[g] + Count(Places(l'.list, g), Reached')
                               = counted'[g] + Cardinality(Places(l'.list, g))
      BY <1>2, <1>5, <1>8, <2>1 DEF OnceInv
    <3>1. /\ l.alive /\ ~dead /\ ~emptied /\ (l.fired => l.memory # 0)
          /\ \A g \in Functions :
               added[g] + Count(Places(l.list, g), Reached)
                 = counted[g] + Cardinality(Places(l.list, g))
      BY DEF ListIInv, OnceInv
    <3>2. Reached \in 0..Len(l.list)
      BY ReachedFacts
    <3>3. ASSUME NEW g \in Functions
          PROVE  added'[g] + Count(Places(l'.list, g), Reached')
                   = counted'[g] + Cardinality(Places(l'.list, g))
      <4>1. /\ Count(Places(l'.list, g), Reached') = Count(Places(l.list, g), Reached)
            /\ Cardinality(Places(l'.list, g))
                 = Cardinality(Places(l.list, g)) + (IF f = g THEN 1 ELSE 0)
        BY <2>1, <2>2, <3>2, ListParts, PlacesAppend
      <4>2. added'[g] = added[g] + (IF f = g THEN 1 ELSE 0) /\ added[g] \in Nat
        BY <1>3, <1>8, ListParts
      <4>3. /\ Cardinality(Places(l.list, g)) \in Nat /\ counted[g] \in Nat
            /\ Count(Places(l.list, g), Reached) \in Nat /\ counted'[g] = counted[g]
        BY <1>2, <3>2, ListParts, PlacesFacts
      <4>4. QED
        BY <3>1, <4>1, <4>2, <4>3
    <3>4. QED
      BY <1>2, <1>5, <2>1, <3>1, <3>3
  <2>7. QED
    BY <1>4, <1>6, <2>4, <2>5, <2>6 DEF ListIInv
(* It waits for a fire. *)
<1>9. CASE New(l, f) /\ ~l.firing /\ l.memory = 0
  <2>1. /\ l'.firing = l.firing /\ l'.fired = l.fired /\ l'.data = l.data
        /\ l'.memory = l.memory /\ l'.index = l.index /\ l'.length = l.length
        /\ l.alive /\ l'.list = Append(l.list, f) /\ rest' = rest
    BY <1>1, <1>3, <1>5, <1>9 DEF Grown, New
  <2>2. Reached' = 0 /\ Reached = 0
    BY <1>9, <2>1 DEF Reached
  <2>3. LoopInv'
    BY <1>2, <1>5, <1>9, <2>1 DEF ListIInv, LoopInv
  <2>4. FireInv'
    BY <1>2, <1>5, <2>1 DEF ListIInv, FireInv
  <2>5. OnceInv'
    <3> SUFFICES ASSUME l.options.once, l.options.memory, plain
                 PROVE  /\ l'.alive /\ ~dead' /\ ~emptied' /\ ~l'.fired
                        /\ \A g \in Functions :
                             added'[g] + Count(Places(l'.list, g), Reached')
                               = counted'[g] + Cardinality(Places(l'.list, g))
      BY <1>2, <1>5, <1>9, <2>1 DEF OnceInv
    <3>1. /\ l.alive /\ ~dead /\ ~emptied /\ ~l.fired
          /\ \A g \in Functions :
               added[g] + Count(Places(l.list, g), Reached)
                 = counted[g] + Cardinality(Places(l.list, g))
      BY <1>9 DEF ListIInv, OnceInv
    <3>2. ASSUME NEW g \in Functions
          PROVE  added'[g] + Count(Places(l'.list, g), Reached')
                   = counted'[g] + Cardinality(Places(l'.list, g))
      <4>1. /\ Count(Places(l'.list, g), Reached') = Count(Places(l.list, g), Reached)
            /\ Cardinality(Places(l'.list, g))
                 = Cardinality(Places(l.list, g)) + (IF f = g THEN 1 ELSE 0)
        <5>1. Reached \in 0..Len(l.list) /\ Reached' = Reached
          BY <2>2, ListParts
        <5>2. QED
          BY <2>1, <5>1, ListParts, PlacesAppend
      <4>2. added'[g] = added[g] + (IF f = g THEN 1 ELSE 0) /\ added[g] \in Nat
        BY <1>3, <1>9, ListParts
      <4>3. /\ Cardinality(Places(l.list, g)) \in Nat /\ counted[g] \in Nat
            /\ Count(Places(l.list, g), Reached) \in Nat /\ counted'[g] = counted[g]
        BY <1>2, <2>2, ListParts, PlacesFacts
      <4>4. QED
        BY <3>1, <4>1, <4>2, <4>3
    <3>3. QED
      BY <1>2, <1>5, <2>1, <3>1, <3>2
  <2>6. QED
    BY <1>4, <1>6, <2>3, <2>4, <2>5 DEF ListIInv
(* It is called with what the list was fired with. *)
<1>10. CASE l.alive /\ ~l.firing /\ l.memory # 0
  <2>1. /\ l'.firing /\ l'.fired /\ l'.data = l.memory
        /\ l'.memory = (IF l.options.memory THEN l.memory ELSE 0)
        /\ l'.index = Len(l.list) /\ l'.length = Len(l'.list)
    BY <1>1, <1>10 DEF Grown
  <2>2. rest = <<>> /\ ~called /\ ~called'
    BY <1>2, <1>10, ListParts DEF ListIInv, LoopInv
  <2>3. Reached' = Len(l.list) /\ Reached = 0
    BY <1>10, <2>1, <2>2 DEF Reached
  <2>4. rest' = IF New(l, f) THEN <<f>> ELSE <<>>
    BY <1>3, <1>10, <2>2
  <2>5. Suffix(rest', l'.list, Len(l.list))
    <3>1. CASE New(l, f)
      <4>1. PICK t : t = Append(l.list, f)
        OBVIOUS
      <4>2. Len(t) = Len(l.list) + 1 /\ t[Len(l.list) + 1] = f
        BY <4>1, ListParts
      <4>3. Suffix(<<f>>, t, Len(l.list))
        BY <4>2, ListParts DEF Suffix
      <4>4. QED
        BY <1>5, <2>4, <3>1, <4>1, <4>3
    <3>2. CASE ~New(l, f)
      <4>1. Suffix(<<>>, l.list, Len(l.list))
        BY ListParts DEF Suffix
      <4>2. QED
        BY <1>5, <2>4, <3>2, <4>1
    <3>3. QED
      BY <3>1, <3>2
  <2>6. LoopInv'
    <3>1. l'.index >= 0
      BY <2>1, ListParts
    <3>2. l'.index >= -1
      BY <2>1, ListParts
    <3>3. QED
      BY <1>5, <1>10, <2>1, <2>2, <2>3, <2>5, <3>1, <3>2 DEF LoopInv
  <2>7. FireInv'
    BY <1>2, <1>5, <1>10, <2>1 DEF ListIInv, FireInv
  <2>8. OnceInv'
    <3> SUFFICES ASSUME l.options.once, l.options.memory, plain
                 PROVE  /\ l'.alive /\ ~dead' /\ ~emptied' /\ l'.memory # 0
                        /\ \A g \in Functions :
                             added'[g] + Count(Places(l'.list, g), Reached')
                               = counted'[g] + Cardinality(Places(l'.list, g))
      BY <1>2, <1>5, <2>1 DEF OnceInv
    <3>1. /\ l.alive /\ ~dead /\ ~emptied /\ l.list = <<>>
          /\ \A g \in Functions :
               added[g] + Count(Places(l.list, g), Reached)
                 = counted[g] + Cardinality(Places(l.list, g))
      BY <1>10 DEF ListIInv, OnceInv, FireInv
    <3>2. New(l, f) /\ l'.list = Append(l.list, f)
      BY <1>5, <1>10, <3>1 DEF New, List!has
    <3>3. ASSUME NEW g \in Functions
          PROVE  added'[g] + Count(Places(l'.list, g), Reached')
                   = counted'[g] + Cardinality(Places(l'.list, g))
      <4>1. /\ Count(Places(l'.list, g), Reached') = Count(Places(l.list, g), Reached)
            /\ Cardinality(Places(l'.list, g))
                 = Cardinality(Places(l.list, g)) + (IF f = g THEN 1 ELSE 0)
        <5>1. Reached \in 0..Len(l.list) /\ Reached' = Reached
          BY <2>3, <3>1, ListParts
        <5>2. QED
          BY <3>2, <5>1, ListParts, PlacesAppend
      <4>2. added'[g] = added[g] + (IF f = g THEN 1 ELSE 0) /\ added[g] \in Nat
        BY <1>3, <3>2, ListParts
      <4>3. /\ Cardinality(Places(l.list, g)) \in Nat /\ counted[g] \in Nat
            /\ Count(Places(l.list, g), Reached) \in Nat /\ counted'[g] = counted[g]
        BY <1>2, <2>3, ListParts, PlacesFacts
      <4>4. QED
        BY <3>1, <4>1, <4>2, <4>3
    <3>4. QED
      BY <1>2, <1>5, <1>10, <2>1, <3>1, <3>3
  <2>9. QED
    BY <1>4, <1>6, <2>6, <2>7, <2>8 DEF ListIInv
<1>11. QED
  BY <1>7, <1>8, <1>9, <1>10, ListParts DEF New

LEMMA InjectiveWithout ==
  ASSUME NEW U, NEW s \in Seq(U), NEW f, Injective(s)
  PROVE  Injective(List!Without(s, f))
<1> DEFINE K == Kept(s, f)
           W == List!Without(s, f)
<1>1. /\ W \in Seq(U) /\ Len(W) = Cardinality(K) /\ Cardinality(K) \in Nat
      /\ Within(K, Len(s))
      /\ \A n \in 1..Cardinality(K) : \E i \in K : Count(K, i) = n /\ W[n] = s[i]
  BY ListWithoutFacts
<1>2. DOMAIN W = 1..Cardinality(K)
  BY <1>1
<1>3. \A i \in K : i \in DOMAIN s
  BY DEF Kept
<1> HIDE DEF K, W
<1>4. ASSUME NEW i \in DOMAIN W, NEW j \in DOMAIN W, W[i] = W[j]
      PROVE  i = j
  <2>1. PICK a \in K : Count(K, a) = i /\ W[i] = s[a]
    BY <1>1, <1>2
  <2>2. PICK b \in K : Count(K, b) = j /\ W[j] = s[b]
    BY <1>1, <1>2
  <2>3. a = b
    BY <1>3, <1>4, <2>1, <2>2 DEF Injective
  <2>4. QED
    BY <2>1, <2>2, <2>3
<1>5. Injective(W)
  BY <1>4 DEF Injective
<1>6. QED
  BY <1>5 DEF W

(* Nothing that FireInv speaks of changes. *)
LEMMA SameFire ==
  ASSUME ListIInv, l'.options = l.options, l'.open = l.open, l'.stack = l.stack,
         l'.memory = l.memory, l'.fired = l.fired, l'.firing = l.firing,
         l'.data = l.data, fired' = fired, begun' = begun, plain' \in {plain, FALSE}
  PROVE  FireInv'
<1>1. plain' => plain
  OBVIOUS
<1>2. QED
  BY <1>1 DEF ListIInv, FireInv

LEMMA ListRemoveInv ==
  ASSUME ListIInv, NEW f \in Functions, List!Remove(f)
  PROVE  ListIInv'
<1>1. l.alive
  <2>1. l.list # <<>>
    BY ListParts DEF List!Remove, List!has
  <2>2. QED
    BY <2>1 DEF ListIInv, LoopInv
<1>2. IsList(l') /\ Shrunk(l', l, f)
  <2>1. l' = List!remove(l, f)
    BY DEF List!Remove
  <2>2. l.firing => l.length = Len(l.list) /\ l.index >= -1
    BY <1>1 DEF ListIInv, LoopInv
  <2>3. QED
    BY <1>1, <2>1, <2>2, ListParts, RemoveFacts
<1>3. /\ l'.options = l.options /\ l'.alive = l.alive /\ l'.open = l.open
      /\ l'.stack = l.stack /\ l'.firing = l.firing /\ l'.fired = l.fired
      /\ l'.data = l.data /\ l'.memory = l.memory
      /\ l'.list = List!Without(l.list, f)
      /\ l.firing => /\ l'.length = Len(l'.list)
                     /\ l'.index = l.index - Count(Places(l.list, f), l.index + 1)
  BY <1>2 DEF Shrunk
<1>4. /\ rest' = List!Without(rest, f) /\ ~plain' /\ plain' \in BOOLEAN
      /\ UNCHANGED <<called, dead, fired, begun, added, counted, emptied>>
  BY DEF List!Remove
<1>5. rest' \in Seq(Functions)
  BY <1>4, ListParts, ListWithoutFacts
<1>6. ListTyped'
  BY <1>2, <1>4, <1>5 DEF ListIInv, ListTyped
<1>7. l'.options.unique => Injective(l'.list)
  BY <1>3, ListParts, InjectiveWithout DEF ListIInv
<1>8. FireInv'
  BY <1>3, <1>4, SameFire
<1>9. OnceInv'
  BY <1>4 DEF OnceInv
<1>10. LoopInv'
  <2>1. CASE ~l.firing
    <3>1. rest = <<>>
      BY <2>1 DEF ListIInv, LoopInv
    <3>2. rest' = <<>>
      <4>1. Kept(<<>>, f) = {}
        BY DEF Kept
      <4>2. Len(rest') = Cardinality(Kept(rest, f))
        BY <1>4, ListParts, ListWithoutFacts
      <4>3. Len(rest') = 0
        BY <3>1, <4>1, <4>2, FS_EmptySet
      <4>4. QED
        BY <1>5, <4>3
    <3>3. QED
      BY <1>1, <1>3, <1>4, <2>1, <3>2 DEF ListIInv, LoopInv
  <2>2. CASE l.firing
    <3>1. PICK k : k = l.index + 1
      OBVIOUS
    <3>2. k \in Nat
      <4>1. l.index >= -1
        BY <2>2 DEF ListIInv, LoopInv
      <4>2. QED
        BY <3>1, <4>1, ListParts
    <3>3. Count(Places(l.list, f), k) \in Nat /\ Count(Places(l.list, f), k) <= k
      BY <3>2, ListParts, PlacesFacts
    <3>4. l'.index + 1 = k - Count(Places(l.list, f), k) /\ l'.index \in Int
      BY <1>2, <1>3, <2>2, <3>1, <3>3, ListParts DEF IsList
    <3>5. l'.index >= -1 /\ (called \/ dead)
      <4>1. l'.index >= -1
        BY <3>2, <3>3, <3>4
      <4>2. called \/ dead
        BY <2>2 DEF List!Remove, List!Turn
      <4>3. QED
        BY <4>1, <4>2
    <3>6. ASSUME ~dead, ~emptied
          PROVE  Suffix(rest', l'.list, Reached')
      <4>1. called /\ Reached = k
        BY <2>2, <3>1, <3>5, <3>6 DEF Reached
      <4>2. Suffix(rest, l.list, k)
        BY <1>1, <2>2, <3>6, <4>1 DEF ListIInv, LoopInv
      <4>3. Suffix(rest', l'.list, k - Count(Places(l.list, f), k))
        BY <1>3, <1>4, <3>2, <4>2, ListParts, SuffixWithout
      <4>4. Reached' = k - Count(Places(l.list, f), k)
        BY <1>3, <1>4, <2>2, <3>4, <4>1 DEF Reached
      <4>5. QED
        BY <4>3, <4>4
    <3>7. QED
      BY <1>1, <1>3, <1>4, <2>2, <3>5, <3>6 DEF LoopInv
  <2>3. QED
    BY <2>1, <2>2
<1>11. QED
  BY <1>6, <1>7, <1>8, <1>9, <1>10 DEF ListIInv

LEMMA ListEmptyInv ==
  ASSUME ListIInv, List!Empty
  PROVE  ListIInv'
<1>1. IsList(l') /\ Emptied(l', l)
  BY ListParts, EmptyFacts DEF List!Empty
<1>2. /\ l'.options = l.options /\ l'.alive /\ l'.open = l.open
      /\ l'.stack = l.stack /\ l'.firing = l.firing /\ l'.fired = l.fired
      /\ l'.data = l.data /\ l'.memory = l.memory
      /\ l'.list = <<>> /\ l'.length = 0 /\ l'.index = l.index
  BY <1>1 DEF Emptied
<1>3. /\ rest' = <<>> /\ ~plain' /\ plain' \in BOOLEAN /\ emptied' = l.firing
      /\ UNCHANGED <<called, dead, fired, begun, added, counted>>
  BY DEF List!Empty
<1>4. ListTyped'
  <2>1. rest' \in Seq(Functions) /\ emptied' \in BOOLEAN
    BY <1>3, ListParts
  <2>2. QED
    BY <1>1, <1>3, <2>1 DEF ListIInv, ListTyped
<1>5. LoopInv'
  <2>1. Len(l'.list) = 0
    BY <1>2
  <2>2. QED
    BY <1>2, <1>3, <2>1 DEF ListIInv, LoopInv
<1>6. FireInv'
  BY <1>2, <1>3, SameFire
<1>7. OnceInv' /\ Injective(l'.list)
  BY <1>2, <1>3 DEF OnceInv, Injective
<1>8. QED
  BY <1>4, <1>5, <1>6, <1>7 DEF ListIInv

(* The list is disabled, or no more than closed. *)
LEMMA ListDisabled ==
  ASSUME ListIInv, IsList(l'), Disabled(l', l), rest' = <<>>, plain' = FALSE,
         UNCHANGED <<called, dead, fired, begun, added, counted, emptied>>
  PROVE  ListIInv'
<1>1. /\ l'.options = l.options /\ ~l'.alive /\ l'.list = <<>> /\ ~l'.open
      /\ l'.stack = <<>> /\ l'.memory = 0 /\ l'.fired = l.fired
      /\ l'.firing = l.firing /\ l'.data = l.data /\ l'.index = l.index
      /\ l'.length = l.length
  BY DEF Disabled
<1>2. ListTyped'
  <2>1. rest' \in Seq(Functions)
    <3>1. <<>> \in Seq(Functions)
      OBVIOUS
    <3>2. QED
      BY <3>1
  <2>2. plain' \in BOOLEAN
    OBVIOUS
  <2>3. QED
    BY <2>1, <2>2 DEF ListIInv, ListTyped
<1>3. LoopInv'
  BY <1>1 DEF ListIInv, LoopInv
<1>4. FireInv'
  BY <1>1 DEF ListIInv, FireInv
<1>5. OnceInv' /\ Injective(l'.list)
  BY <1>1 DEF OnceInv, Injective
<1>6. QED
  BY <1>2, <1>3, <1>4, <1>5 DEF ListIInv

LEMMA ListDisableInv ==
  ASSUME ListIInv, List!Disable
  PROVE  ListIInv'
<1>1. IsList(l') /\ Disabled(l', l)
  BY ListParts, DisableFacts DEF List!Disable
<1>2. /\ rest' = <<>> /\ plain' = FALSE
      /\ UNCHANGED <<called, dead, fired, begun, added, counted, emptied>>
  BY DEF List!Disable
<1>3. QED
  BY <1>1, <1>2, ListDisabled

LEMMA ListLockInv ==
  ASSUME ListIInv, List!Lock
  PROVE  ListIInv'
<1>1. /\ IsList(l')
      /\ IF l.memory = 0 THEN Disabled(l', l) ELSE Closed(l', l)
  BY ListParts, LockFacts DEF List!Lock
<1>2. /\ rest' = (IF l'.alive THEN rest ELSE <<>>) /\ plain' = FALSE
      /\ UNCHANGED <<called, dead, fired, begun, added, counted, emptied>>
  BY DEF List!Lock
<1>3. CASE l.memory = 0
  <2>1. Disabled(l', l)
    BY <1>1, <1>3
  <2>2. rest' = <<>>
    BY <1>2, <2>1 DEF Disabled
  <2>3. QED
    BY <1>1, <1>2, <2>1, <2>2, ListDisabled
<1>4. CASE l.memory # 0
  <2>1. /\ l'.options = l.options /\ l'.alive = l.alive /\ ~l'.open /\ l'.stack = <<>>
        /\ l'.firing = l.firing /\ l'.fired = l.fired /\ l'.data = l.data
        /\ l'.memory = l.memory /\ l'.list = l.list /\ l'.length = l.length
        /\ l'.index = l.index
    BY <1>1, <1>4 DEF Closed
  <2>2. l.alive /\ rest' = rest
    <3>1. l.alive
      BY <1>4 DEF ListIInv, LoopInv
    <3>2. QED
      BY <1>2, <2>1, <3>1
  <2>3. Reached' = Reached
    BY <1>2, <2>1 DEF Reached
  <2>4. ListTyped'
    BY <1>1, <1>2, <2>2 DEF ListIInv, ListTyped
  <2>5. LoopInv'
    BY <1>2, <2>1, <2>2, <2>3 DEF ListIInv, LoopInv
  <2>6. FireInv'
    BY <1>2, <2>1 DEF ListIInv, FireInv
  <2>7. OnceInv'
    BY <1>2 DEF OnceInv
  <2>8. QED
    BY <2>1, <2>4, <2>5, <2>6, <2>7 DEF ListIInv
<1>5. QED
  BY <1>3, <1>4

LEMMA ListFireInv ==
  ASSUME ListIInv, NEW d \in Data, List!Fire(d)
  PROVE  ListIInv'
<1>1. /\ IsList(l')
      /\ IF ~l.alive \/ (l.fired /\ ~l.open) THEN l' = l
         ELSE IF l.firing THEN l' # l /\ Waiting(l', l, d)
         ELSE l' # l /\ Begun(l', l, d, 0)
  BY ListParts, FireFacts DEF List!Fire
<1>2. UNCHANGED <<called, dead, added, counted, plain, emptied>>
  BY DEF List!Fire
<1>3. /\ fired' = IF l' = l THEN fired ELSE Append(fired, d)
      /\ IF l' # l /\ ~l.firing THEN rest' = l.list /\ begun' = begun + 1
                                ELSE rest' = rest /\ begun' = begun
  BY DEF List!Fire
<1>4. PICK t : t = Append(fired, d)
  OBVIOUS
<1>5. /\ t \in Seq(Data) /\ Len(t) = Len(fired) + 1 /\ t[Len(fired) + 1] = d
      /\ \A i \in 1..Len(fired) : t[i] = fired[i]
  BY <1>4, ListParts
<1>6. CASE ~l.alive \/ (l.fired /\ ~l.open)
  <2>1. l' = l /\ fired' = fired /\ rest' = rest /\ begun' = begun
    BY <1>1, <1>3, <1>6
  <2>2. QED
    BY <1>1, <1>2, <2>1, SameList
<1>7. CASE ~(~l.alive \/ (l.fired /\ ~l.open)) /\ l.firing
  <2>1. /\ l'.options = l.options /\ l'.alive = l.alive /\ l'.open = l.open
        /\ l'.stack = Append(l.stack, d)
        /\ l'.firing = l.firing /\ l'.fired = l.fired /\ l'.data = l.data
        /\ l'.memory = l.memory /\ l'.list = l.list /\ l'.length = l.length
        /\ l'.index = l.index
    BY <1>1, <1>7 DEF Waiting
  <2>2. fired' = t /\ rest' = rest /\ begun' = begun
    BY <1>1, <1>3, <1>4, <1>7
  <2>3. l.open /\ l.fired /\ ~l.options.once
    BY <1>7 DEF ListIInv, FireInv
  <2>4. Reached' = Reached
    BY <1>2, <2>1 DEF Reached
  <2>5. ListTyped'
    BY <1>1, <1>2, <1>5, <2>2 DEF ListIInv, ListTyped
  <2>6. LoopInv'
    BY <1>2, <2>1, <2>2, <2>4 DEF ListIInv, LoopInv
  <2>7. FireInv'
    <3>1. begun > 0 /\ begun <= Len(fired) /\ Suffix(l.stack, fired, begun)
      BY <2>3 DEF ListIInv, FireInv
    <3>2. begun \in 1..Len(fired)
      BY <3>1, ListParts
    <3>3. fired'[begun'] = fired[begun] /\ begun' <= Len(fired')
      BY <1>5, <2>2, <3>2, ListParts
    <3>4. Suffix(l'.stack, fired', begun')
      BY <1>4, <2>1, <2>2, <3>1, ListParts, SuffixAppend
    <3>5. QED
      BY <1>2, <1>7, <2>1, <2>2, <2>3, <3>1, <3>3, <3>4 DEF ListIInv, FireInv
  <2>8. OnceInv'
    BY <2>1, <2>3 DEF OnceInv
  <2>9. QED
    BY <2>1, <2>5, <2>6, <2>7, <2>8 DEF ListIInv
<1>8. CASE ~(~l.alive \/ (l.fired /\ ~l.open)) /\ ~l.firing
  <2>1. /\ l'.options = l.options /\ l'.alive = l.alive /\ l'.open = l.open
        /\ l'.stack = l.stack
        /\ l'.memory = (IF l.options.memory THEN d ELSE 0)
        /\ l'.fired = TRUE /\ l'.firing = TRUE /\ l'.data = d
        /\ l'.list = l.list /\ l'.length = Len(l.list) /\ l'.index = 0
    BY <1>1, <1>8 DEF Begun
  <2>2. fired' = t /\ rest' = l.list /\ begun' = begun + 1
    BY <1>1, <1>3, <1>4, <1>8
  <2>3. ~called /\ l.stack = <<>>
    BY <1>8, ListParts DEF ListIInv, LoopInv, FireInv
  <2>4. begun = Len(fired)
    <3>1. CASE l.open
      <4>1. Suffix(<<>>, fired, begun)
        BY <2>3, <3>1 DEF ListIInv, FireInv
      <4>2. QED
        BY <4>1, ListParts DEF Suffix
    <3>2. CASE ~l.open
      <4>1. fired = <<>> /\ begun <= Len(fired)
        BY <1>8, <3>2 DEF ListIInv, FireInv
      <4>2. QED
        BY <4>1, ListParts
    <3>3. QED
      BY <3>1, <3>2
  <2>5. Reached' = 0 /\ Reached = 0
    BY <1>2, <1>8, <2>1, <2>3 DEF Reached
  <2>6. ListTyped'
    <3>1. rest' \in Seq(Functions) /\ begun' \in Nat
      BY <2>2, ListParts
    <3>2. QED
      BY <1>1, <1>2, <1>5, <2>2, <3>1 DEF ListIInv, ListTyped
  <2>7. LoopInv'
    <3>1. Suffix(l.list, l.list, 0)
      BY ListParts DEF Suffix
    <3>2. QED
      BY <1>2, <1>8, <2>1, <2>2, <2>3, <2>5, <3>1 DEF LoopInv
  <2>8. FireInv'
    <3>1. fired'[begun'] = d /\ begun' <= Len(fired') /\ begun' > 0
      BY <1>5, <2>2, <2>4, ListParts
    <3>2. Suffix(l'.stack, fired', begun')
      BY <1>5, <2>1, <2>2, <2>3, <2>4, ListParts DEF Suffix
    <3>3. l.options.once => ~l.open /\ Len(fired') <= 1
      <4>1. ASSUME l.options.once
            PROVE  ~l.open /\ fired = <<>>
        BY <1>8, <4>1 DEF ListIInv, FireInv
      <4>2. fired = <<>> => Len(fired) = 0
        OBVIOUS
      <4>3. Len(fired') = Len(fired) + 1
        BY <1>5, <2>2
      <4>4. QED
        BY <4>1, <4>2, <4>3
    <3>4. plain' => (l.open <=> ~l.options.once)
      BY <1>2 DEF ListIInv, FireInv
    <3>5. QED
      BY <2>1, <2>3, <3>1, <3>2, <3>3, <3>4 DEF FireInv
  <2>9. OnceInv'
    <3>1. d # 0
      BY DataFacts
    <3>2. QED
      BY <1>2, <2>1, <2>5, <3>1 DEF ListIInv, OnceInv
  <2>10. QED
    BY <2>1, <2>6, <2>7, <2>8, <2>9 DEF ListIInv
<1>9. QED
  BY <1>6, <1>7, <1>8

LEMMA ListCallInv ==
  ASSUME ListIInv, List!Call
  PROVE  ListIInv'
<1>1. /\ l.firing /\ ~called /\ ~dead /\ l.alive /\ ~(l.index >= l.length)
  BY DEF List!Call, List!Looping, List!AtEnd
<1>2. PICK k \in Nat : k = l.index
  BY <1>1, ListParts DEF ListIInv, LoopInv
<1>3. k < Len(l.list) /\ k + 1 \in 1..Len(l.list)
  <2>1. l.length = Len(l.list)
    BY <1>1 DEF ListIInv, LoopInv
  <2>2. QED
    BY <1>1, <1>2, <2>1, ListParts
<1>4. PICK f \in Functions : f = l.list[k + 1]
  BY <1>3, ListParts
<1>5. /\ called' = TRUE /\ counted' = [counted EXCEPT ![f] = @ + 1]
      /\ rest' = IF rest = <<>> THEN rest ELSE Tail(rest)
      /\ UNCHANGED <<l, dead, fired, begun, added, plain, emptied>>
  BY <1>2, <1>4 DEF List!Call
<1>6. Reached = k /\ Reached' = k + 1
  BY <1>1, <1>2, <1>5 DEF Reached
<1>7. ListTyped'
  <2>1. rest' \in Seq(Functions)
    BY <1>5, ListParts
  <2>2. counted' \in [Functions -> Nat]
    BY <1>5, ListParts
  <2>3. QED
    BY <1>5, <2>1, <2>2 DEF ListIInv, ListTyped
<1>8. LoopInv'
  <2>1. ASSUME ~emptied
        PROVE  Suffix(rest', l.list, k + 1)
    <3>1. Suffix(rest, l.list, k)
      BY <1>1, <1>6, <2>1 DEF ListIInv, LoopInv
    <3>2. rest # <<>> /\ Suffix(Tail(rest), l.list, k + 1)
      BY <1>3, <3>1, ListParts, SuffixFirst
    <3>3. QED
      BY <1>5, <3>2
  <2>2. l.index >= -1
    BY <1>2
  <2>3. QED
    BY <1>1, <1>5, <1>6, <2>1, <2>2 DEF ListIInv, LoopInv
<1>9. FireInv'
  BY <1>5, SameFire
<1>10. OnceInv'
  <2> SUFFICES ASSUME l.options.once, l.options.memory, plain, NEW g \in Functions
               PROVE  added[g] + Count(Places(l.list, g), k + 1)
                        = counted'[g] + Cardinality(Places(l.list, g))
    BY <1>5, <1>6 DEF ListIInv, OnceInv
  <2>1. added[g] + Count(Places(l.list, g), k) = counted[g] + Cardinality(Places(l.list, g))
    BY <1>6 DEF ListIInv, OnceInv
  <2>2. /\ Count(Places(l.list, g), k + 1)
             = Count(Places(l.list, g), k) + (IF k + 1 \in Places(l.list, g) THEN 1 ELSE 0)
        /\ Count(Places(l.list, g), k) \in Nat /\ Cardinality(Places(l.list, g)) \in Nat
    <3>1. Cardinality(Places(l.list, g)) \in Nat
      BY ListParts, PlacesFacts
    <3>2. Counted(Places(l.list, g))
      BY ListParts, PlacesFacts, CountSteps
    <3>3. QED
      BY <3>1, <3>2 DEF Counted
  <2>3. k + 1 \in Places(l.list, g) <=> f = g
    BY <1>3, <1>4, ListParts DEF Places
  <2>4. counted'[g] = counted[g] + (IF f = g THEN 1 ELSE 0) /\ counted[g] \in Nat
    BY <1>5, ListParts
  <2>5. added[g] \in Nat
    BY ListParts
  <2>6. QED
    BY <2>1, <2>2, <2>3, <2>4, <2>5
<1>11. QED
  BY <1>5, <1>7, <1>8, <1>9, <1>10 DEF ListIInv

LEMMA ListReturnInv ==
  ASSUME ListIInv, List!Return
  PROVE  ListIInv'
<1>1. called /\ l.firing /\ l.index >= -1
  BY DEF List!Return, ListIInv, LoopInv
<1>2. /\ called' = FALSE
      /\ UNCHANGED <<dead, rest, fired, begun, added, counted, plain, emptied>>
  BY DEF List!Return, List!history
<1>3. PICK k \in Int : k = l.index + 1
  BY ListParts
<1>4. l' = [l EXCEPT !.index = k]
  BY <1>3 DEF List!Return, List!AfterCall
<1>5. /\ l'.options = l.options /\ l'.alive = l.alive /\ l'.list = l.list
      /\ l'.open = l.open /\ l'.stack = l.stack /\ l'.memory = l.memory
      /\ l'.fired = l.fired /\ l'.firing = l.firing /\ l'.data = l.data
      /\ l'.index = k /\ l'.length = l.length
  BY <1>4, ListParts DEF IsList
<1>6. IsList(l')
  BY <1>4, ListParts DEF IsList
<1>7. Reached' = Reached
  BY <1>1, <1>2, <1>3, <1>5 DEF Reached
<1>8. k >= 0 /\ k >= -1
  BY <1>1, <1>3, ListParts
<1>9. ListTyped'
  BY <1>2, <1>6 DEF ListIInv, ListTyped
<1>10. LoopInv'
  BY <1>1, <1>2, <1>5, <1>7, <1>8 DEF ListIInv, LoopInv
<1>11. FireInv'
  BY <1>2, <1>5, SameFire
<1>12. OnceInv'
  BY <1>2, <1>5, <1>7 DEF ListIInv, OnceInv
<1>13. QED
  BY <1>5, <1>9, <1>10, <1>11, <1>12 DEF ListIInv

LEMMA ListThrowInv ==
  ASSUME ListIInv, List!Throw
  PROVE  ListIInv'
<1>1. called /\ l.firing
  BY DEF List!Throw, ListIInv, LoopInv
<1>2. /\ called' = FALSE /\ dead' = TRUE /\ rest' = <<>> /\ plain' = FALSE
      /\ UNCHANGED <<l, fired, begun, added, counted, emptied>>
  BY DEF List!Throw
<1>3. ListTyped'
  <2>1. rest' \in Seq(Functions)
    BY <1>2
  <2>2. QED
    BY <1>2, <2>1 DEF ListIInv, ListTyped
<1>4. LoopInv'
  BY <1>1, <1>2 DEF ListIInv, LoopInv
<1>5. FireInv'
  BY <1>2, SameFire
<1>6. OnceInv'
  BY <1>2 DEF OnceInv
<1>7. QED
  BY <1>2, <1>3, <1>4, <1>5, <1>6 DEF ListIInv

(* The batch is over, and that of a waiting fire may begin. *)
LEMMA BatchEnds ==
  ASSUME ListIInv, l.firing, NEW m, IsList(m),
         m.options = l.options, m.alive = l.alive, m.list = l.list, m.open = l.open,
         m.stack = l.stack, m.fired = l.fired,
         l' = List!EndFire(m), List!NextBatch, called' = FALSE,
         UNCHANGED <<dead, fired, added, counted>>,
         \/ plain' = plain /\ m.memory = l.memory /\ List!AtEnd(l) /\ ~called
         \/ plain' = FALSE /\ m.memory \in {l.memory, 0}
  PROVE  ListIInv'
<1>1. IsList(l') /\ Ended(l', m)
  BY EndFacts
<1>2. /\ emptied' = FALSE
      /\ IF l'.firing THEN rest' = l'.list /\ begun' = begun + 1
                      ELSE rest' = <<>> /\ begun' = begun
  BY DEF List!NextBatch
<1>3. l.fired
  BY DEF ListIInv, FireInv
<1>4. ListTyped'
  <2>1. l'.list \in Seq(Functions)
    BY <1>1 DEF IsList
  <2>2. rest' \in Seq(Functions)
    <3>1. <<>> \in Seq(Functions)
      OBVIOUS
    <3>2. QED
      BY <1>2, <2>1, <3>1
  <2>3. begun' \in Nat
    BY <1>2, ListParts
  <2>4. plain' \in BOOLEAN
    BY ListParts
  <2>5. QED
    BY <1>1, <1>2, <2>2, <2>3, <2>4 DEF ListIInv, ListTyped
<1>5. CASE l.alive /\ l.open /\ l.stack # <<>>
  <2>1. /\ l'.options = l.options /\ l'.alive /\ l'.open /\ l'.fired /\ l'.firing
        /\ l'.list = l.list /\ l'.stack = Tail(l.stack) /\ l'.data = Head(l.stack)
        /\ l'.memory = (IF l.options.memory THEN l'.data ELSE 0)
        /\ l'.index = 0 /\ l'.length = Len(l.list)
    BY <1>1, <1>5 DEF Ended
  <2>2. rest' = l.list /\ begun' = begun + 1
    BY <1>2, <2>1
  <2>3. Reached' = 0
    BY <2>1 DEF Reached
  <2>4. LoopInv'
    <3>1. Suffix(l.list, l.list, 0)
      BY ListParts DEF Suffix
    <3>2. QED
      BY <2>1, <2>2, <2>3, <3>1 DEF LoopInv
  <2>5. ~l.options.once
    BY <1>5 DEF ListIInv, FireInv
  <2>6. FireInv'
    <3>1. Suffix(l.stack, fired, begun)
      BY <1>5 DEF ListIInv, FireInv
    <3>2. begun < Len(fired)
      BY <1>5, <3>1, ListParts DEF Suffix
    <3>3. /\ Head(l.stack) = fired[begun + 1]
          /\ Suffix(Tail(l.stack), fired, begun + 1)
      BY <3>1, <3>2, ListParts, SuffixFirst
    <3>4. begun + 1 <= Len(fired) /\ begun + 1 > 0
      BY <3>2, ListParts
    <3>5. plain' => (l'.open <=> ~l'.options.once)
      BY <2>1, <2>5
    <3>6. QED
      BY <2>1, <2>2, <2>5, <3>3, <3>4, <3>5 DEF FireInv
  <2>7. OnceInv'
    BY <2>1, <2>5 DEF OnceInv
  <2>8. QED
    BY <1>4, <2>1, <2>4, <2>6, <2>7 DEF ListIInv
<1>6. CASE ~(l.alive /\ l.open /\ l.stack # <<>>)
  <2>1. /\ l'.options = l.options /\ ~l'.firing /\ l'.fired = l.fired
        /\ IF l.alive /\ ~l.open /\ m.memory = 0
           THEN /\ ~l'.alive /\ l'.list = <<>> /\ ~l'.open /\ l'.stack = <<>>
                /\ l'.memory = 0
           ELSE /\ l'.alive = l.alive /\ l'.open = l.open /\ l'.stack = l.stack
                /\ l'.memory = m.memory
                /\ l'.list = (IF l.alive /\ ~l.open THEN <<>> ELSE l.list)
    BY <1>1, <1>6 DEF Ended
  <2>2. rest' = <<>> /\ begun' = begun
    BY <1>2, <2>1
  <2>3. m.memory \in {l.memory, 0}
    OBVIOUS
  <2>4. /\ l'.open => l.open /\ l.alive
        /\ l'.stack = <<>>
        /\ l'.memory \in {l.memory, 0}
        /\ l'.open <=> l.open
    <3>1. ~l.alive => ~l.open
      BY DEF ListIInv, LoopInv
    <3>2. ~l.open => l.stack = <<>>
      BY DEF ListIInv, FireInv
    <3>3. QED
      BY <1>6, <2>1, <2>3, <3>1, <3>2, ListParts
  <2>5. LoopInv'
    <3>1. ~l.alive => l.list = <<>> /\ l.memory = 0 /\ ~l.open
      BY DEF ListIInv, LoopInv
    <3>2. QED
      BY <2>1, <2>2, <2>3, <3>1 DEF LoopInv
  <2>6. FireInv'
    <3>1. l.open => Suffix(l'.stack, fired, begun)
      BY <1>6, <2>4 DEF ListIInv, FireInv, LoopInv
    <3>2. QED
      BY <2>1, <2>2, <2>4, <3>1 DEF ListIInv, FireInv
  <2>7. OnceInv'
    <3> SUFFICES ASSUME l.options.once, l.options.memory, plain'
                 PROVE  /\ l'.alive /\ ~dead' /\ ~emptied' /\ l'.memory # 0 /\ l'.list = <<>>
                        /\ \A g \in Functions :
                             added'[g] + Count(Places(l'.list, g), Reached')
                               = counted'[g] + Cardinality(Places(l'.list, g))
      BY <2>1 DEF OnceInv
    <3>1. plain /\ m.memory = l.memory /\ List!AtEnd(l) /\ ~called
      OBVIOUS
    <3>2. l.alive /\ ~dead /\ ~emptied /\ l.memory # 0 /\ ~l.open
      BY <1>3, <3>1 DEF ListIInv, OnceInv, FireInv
    <3>3. l'.alive /\ l'.memory # 0 /\ l'.list = <<>>
      BY <2>1, <3>1, <3>2
    <3>4. Reached = Len(l.list)
      <4>1. Reached = l.index /\ l.length = Len(l.list) /\ l.index >= l.length
        BY <3>1, <3>2 DEF Reached, ListIInv, LoopInv, List!AtEnd
      <4>2. Reached \in 0..Len(l.list)
        BY <3>1, ReachedFacts
      <4>3. QED
        BY <4>1, <4>2, ListParts
    <3>5. ASSUME NEW g \in Functions
          PROVE  added'[g] + Count(Places(l'.list, g), Reached')
                   = counted'[g] + Cardinality(Places(l'.list, g))
      <4>1. added[g] + Count(Places(l.list, g), Reached)
              = counted[g] + Cardinality(Places(l.list, g))
        BY <3>1 DEF ListIInv, OnceInv
      <4>2. /\ Count(Places(l.list, g), Reached) = Cardinality(Places(l.list, g))
            /\ Cardinality(Places(l.list, g)) \in Nat
        BY <3>4, ListParts, PlacesFacts
      <4>3. added[g] \in Nat /\ counted[g] \in Nat
        BY ListParts
      <4>4. added[g] = counted[g]
        BY <4>1, <4>2, <4>3
      <4>5. /\ Count(Places(l'.list, g), Reached') = 0
            /\ Cardinality(Places(l'.list, g)) = 0
        BY <3>3, NoPlaces
      <4>6. QED
        BY <4>3, <4>4, <4>5
    <3>6. QED
      BY <1>2, <3>2, <3>3, <3>5
  <2>8. l'.options.unique => Injective(l'.list)
    <3>1. Injective(<<>>)
      BY DEF Injective
    <3>2. l'.list = <<>> \/ l'.list = l.list
      BY <2>1
    <3>3. QED
      BY <2>1, <3>1, <3>2 DEF ListIInv
  <2>9. QED
    BY <1>4, <2>5, <2>6, <2>7, <2>8 DEF ListIInv
<1>7. QED
  BY <1>5, <1>6

LEMMA ListReturnFalseInv ==
  ASSUME ListIInv, List!ReturnFalse
  PROVE  ListIInv'
<1>1. l.firing
  BY DEF List!ReturnFalse, ListIInv, LoopInv
<1>2. PICK m : m = [l EXCEPT !.memory = 0]
  OBVIOUS
<1>3. /\ m.options = l.options /\ m.alive = l.alive /\ m.list = l.list
      /\ m.open = l.open /\ m.stack = l.stack /\ m.fired = l.fired /\ m.memory = 0
  BY <1>2, ListParts DEF IsList
<1>4. IsList(m)
  BY <1>2, ListParts DEF IsList
<1>5. l' = List!EndFire(m)
  BY <1>2 DEF List!ReturnFalse, List!AfterCall, List!NoData
<1>6. /\ List!NextBatch /\ called' = FALSE /\ plain' = FALSE
      /\ UNCHANGED <<dead, fired, added, counted>>
  BY DEF List!ReturnFalse
<1>7. QED
  BY <1>1, <1>3, <1>4, <1>5, <1>6, BatchEnds

LEMMA ListFinishInv ==
  ASSUME ListIInv, List!Finish
  PROVE  ListIInv'
<1>1. l.firing /\ ~called /\ List!AtEnd(l) /\ l' = List!EndFire(l)
  BY DEF List!Finish, List!Looping
<1>2. /\ List!NextBatch /\ called' = FALSE /\ plain' = plain
      /\ UNCHANGED <<dead, fired, added, counted>>
  BY <1>1, ListParts DEF List!Finish
<1>3. QED
  BY <1>1, <1>2, ListParts, BatchEnds

LEMMA ListNextInv == ListIInv /\ List!Next => ListIInv'
  BY ListAddInv, ListRemoveInv, ListEmptyInv, ListDisableInv, ListLockInv, ListFireInv,
     ListCallInv, ListReturnInv, ListReturnFalseInv, ListThrowInv, ListFinishInv
     DEF List!Next

LEMMA ListStutter == ListIInv /\ UNCHANGED List!vars => ListIInv'
<1> SUFFICES ASSUME ListIInv, UNCHANGED List!vars
             PROVE  ListIInv'
  OBVIOUS
<1>1. /\ l' = l
      /\ UNCHANGED <<called, dead, rest, fired, begun, added, counted, plain, emptied>>
  BY DEF List!vars, List!history
<1>2. QED
  BY <1>1, SameList, ListParts

LEMMA ListIInvSound ==
  ASSUME ListIInv
  PROVE  List!ListIsRight
<1>1. List!TypeOK
  BY ListParts DEF List!TypeOK, List!NoData
<1>2. List!BatchKept
  <2> SUFFICES ASSUME l.firing, ~called, ~dead, ~emptied
               PROVE  List!LoopPaysBatch
    BY DEF List!BatchKept, List!Looping
  <2>1. CASE ~l.alive
    BY <2>1 DEF ListIInv, LoopInv, List!LoopPaysBatch, List!AtEnd
  <2>2. CASE l.alive
    <3>1. l.index \in Nat /\ Suffix(rest, l.list, l.index) /\ l.length = Len(l.list)
      BY <2>2, ListParts DEF ListIInv, LoopInv, Reached
    <3>2. Len(rest) \in Nat /\ Len(rest) + l.index = Len(l.list)
      BY <3>1, ListParts DEF Suffix
    <3>3. CASE List!AtEnd(l)
      <4>1. l.index >= Len(l.list)
        BY <2>2, <3>1, <3>3 DEF List!AtEnd
      <4>2. l.index = Len(l.list)
        BY <3>1, <3>2, <4>1, ListParts
      <4>3. rest = <<>>
        BY <3>1, <4>2, ListParts, SuffixFirst
      <4>4. QED
        BY <3>3, <4>3 DEF List!LoopPaysBatch
    <3>4. CASE ~List!AtEnd(l)
      <4>1. l.index < Len(l.list)
        BY <2>2, <3>1, <3>4, ListParts DEF List!AtEnd
      <4>2. rest # <<>> /\ Head(rest) = l.list[l.index + 1]
        BY <3>1, <4>1, ListParts, SuffixFirst
      <4>3. QED
        BY <3>4, <4>2 DEF List!LoopPaysBatch
    <3>5. QED
      BY <3>3, <3>4
  <2>3. QED
    BY <2>1, <2>2
<1>3. List!FiresInOrder
  BY DEF ListIInv, FireInv, List!FiresInOrder
<1>4. List!AllFiresBegun
  <2> SUFFICES ASSUME plain, ~l.firing
               PROVE  begun = Len(fired)
    BY DEF List!AllFiresBegun
  <2>1. l.stack = <<>> /\ begun <= Len(fired)
    BY DEF ListIInv, FireInv
  <2>2. CASE l.open
    <3>1. Suffix(<<>>, fired, begun)
      BY <2>1, <2>2 DEF ListIInv, FireInv
    <3>2. QED
      BY <3>1, ListParts DEF Suffix
  <2>3. CASE ~l.open
    <3>1. Len(fired) <= 1
      BY <2>3 DEF ListIInv, FireInv
    <3>2. begun > 0 \/ fired = <<>>
      BY DEF ListIInv, FireInv
    <3>3. QED
      BY <2>1, <3>1, <3>2, ListParts
  <2>4. QED
    BY <2>2, <2>3
<1>5. List!FiresOnce
  BY DEF ListIInv, FireInv, List!FiresOnce
<1>6. List!ExactlyOnce
  <2> SUFFICES ASSUME l.options.once, l.options.memory, plain, l.fired, ~l.firing
               PROVE  counted = added
    BY DEF List!ExactlyOnce
  <2>1. /\ l.list = <<>>
        /\ \A g \in Functions :
             added[g] + Count(Places(l.list, g), Reached)
               = counted[g] + Cardinality(Places(l.list, g))
    BY DEF ListIInv, OnceInv
  <2>2. \A g \in Functions : counted[g] = added[g]
    <3> TAKE g \in Functions
    <3>1. added[g] + 0 = counted[g] + 0
      BY <2>1, NoPlaces
    <3>2. QED
      BY <3>1, ListParts
  <2>3. QED
    BY <2>2, ListParts
<1>7. List!UniqueKept
  BY DEF ListIInv, Injective, List!UniqueKept
<1>8. QED
  BY <1>1, <1>2, <1>3, <1>4, <1>5, <1>6, <1>7 DEF List!ListIsRight

(* The callback lists of the behaviours that MCScripts checks: the loop calls the batch    *)
(* that it owes, in order and to the end, whatever its functions add, remove or disable;    *)
(* fires are begun in the order in which they were asked for; a list that fires once        *)
(* keeps its first value, and one with memory calls each addition exactly once.             *)
THEOREM ListCorrect == Spec => []ListIsRight
<1> DEFINE Inv == part = "list" => ListIInv
<1>1. Init => Inv
  BY ListInitInv DEF Init
<1>2. Inv /\ [Next]_everything => Inv'
  <2> SUFFICES ASSUME Inv, [Next]_everything
               PROVE  Inv'
    OBVIOUS
  <2>1. CASE UNCHANGED everything
    <3>1. UNCHANGED <<part, ofList>>
      BY <2>1 DEF everything
    <3>2. part = "list" => UNCHANGED List!vars
      BY <3>1 DEF ofList, List!vars, List!history
    <3>3. QED
      BY <3>1, <3>2, ListStutter
  <2>2. CASE part = "list" /\ part' = part /\ List!Next
    BY <2>2, ListNextInv
  <2>3. CASE part' = part /\ part \in {"follow", "event", "nestedevent", "effect", "convert",
                                       "script"}
    BY <2>3
  <2>4. QED
    BY <2>1, <2>2, <2>3
       DEF Next, OfList, OfFollow, OfEvent, OfEffect, OfConvert, OfScript
<1>3. Inv => ListIsRight
  BY ListIInvSound DEF ListIsRight
<1>4. QED
  BY <1>1, <1>2, <1>3, PTL DEF Spec
================================================================================
