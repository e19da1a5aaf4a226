------------------------------- MODULE DataCache -------------------------------
(***************************************************************************)
(* jQuery.data: elements carry an id only, and what is stored for them lies in   *)
(* a cache by this id: the page's data, those of jQuery itself, and the          *)
(* handlers of events.  Ids of elements that have been cleaned are used again.   *)
(*                                                                         *)
(* "click" is an event of the browser's.  "resize" is a special event: the       *)
(* set-up of the resize plugin stores the element's size as data, and its        *)
(* teardown removes it, both in the middle of jQuery's own work on the cache.    *)
(***************************************************************************)
EXTENDS Integers, Sequences, SequencesExt, FiniteSets, TLC

CONSTANTS Elements,
          Types,      \* of events
          OldIE       \* TRUE: cloneNode copies listeners and the id

DataCacheAssumption ==
  /\ IsFiniteSet(Elements) /\ "none" \notin Elements
  /\ Types \subseteq {"click", "resize"}
  /\ OldIE \in BOOLEAN

Special == {"resize"}
Values == 1..2
Private == {"queue", "parsedAttrs"}
Ids == 1..Cardinality(Elements)
Objects == 1..(Cardinality(Elements) + 1)

(* An object of the page's data: a value of its own, 0 for none, and the        *)
(* element whose size the resize plugin has stored. *)
NoData == [k |-> 0, size |-> "none"]

(* An entry of the cache.  data is the object of the page's data, 0 for none. *)
Empty == [events |-> {}, handle |-> "none", private |-> {}, data |-> 0]

VARIABLES
  heap,   \* expando, cache, objects, deletedIds, guid, and the types for which
          \* the browser or the plugin has an element
  here,   \* the elements there are
  attr,   \* the attribute data-k of an element
  read    \* history: what data("k") has returned, unless the page changed it

vars == <<heap, here, attr, read>>

Entry(s, e) == s.cache[s.expando[e]]
HasEntry(s, e) == s.expando[e] \in DOMAIN s.cache
PublicData(s, e) ==
  IF HasEntry(s, e) /\ Entry(s, e).data # 0 THEN s.objects[Entry(s, e).data] ELSE NoData
EventsOf(s, e) == IF HasEntry(s, e) THEN Entry(s, e).events ELSE {}

TypeOK ==
  /\ heap.expando \in [Elements -> Ids \cup {0}]
  /\ \A i \in DOMAIN heap.cache :
       heap.cache[i] \in [events : SUBSET Types, handle : Elements \cup {"none"},
                          private : SUBSET Private, data : Objects \cup {0}]
  /\ heap.objects \in [Objects -> [k : Values \cup {0}, size : Elements \cup {"none"}]]
  /\ heap.deletedIds \in Seq(Ids) /\ heap.guid \in 1..(Cardinality(Elements) + 1)
  /\ heap.hooked \in [Elements -> SUBSET Types]
  /\ here \subseteq Elements
  /\ attr \in [Elements -> Values \cup {0}] /\ read \in [Elements -> Values \cup {0}]

Init ==
  /\ heap = [expando |-> [e \in Elements |-> 0], cache |-> <<>>,
             objects |-> [o \in Objects |-> NoData], deletedIds |-> <<>>, guid |-> 1,
             hooked |-> [e \in Elements |-> {}]]
  /\ \E e \in Elements : here = {e}
  /\ attr = [e \in Elements |-> 0] /\ read = [e \in Elements |-> 0]

(***************************************************************************)
(* internalData: an entry, and an object for the page's data.                  *)
(***************************************************************************)

(* The id of a cleaned element is taken before a new one. *)
WithId(s, e) ==
  IF s.expando[e] # 0 THEN s
  ELSE IF s.deletedIds # <<>>
  THEN [s EXCEPT !.expando[e] = Last(s.deletedIds), !.deletedIds = Front(@)]
  ELSE [s EXCEPT !.expando[e] = s.guid, !.guid = @ + 1]

WithEntry(s, e) ==
  LET t == WithId(s, e)
  IN  IF HasEntry(t, e) THEN t
      ELSE [t EXCEPT !.cache = (t.expando[e] :> Empty) @@ @]

Unused(s) == CHOOSE o \in Objects : \A i \in DOMAIN s.cache : s.cache[i].data # o

WithData(s, e) ==
  LET t == WithEntry(s, e)
      o == Unused(t)
  IN  IF Entry(t, e).data # 0 THEN t
      ELSE [t EXCEPT !.cache[t.expando[e]].data = o, !.objects[o] = NoData]

SetPublic(s, e, key, value) ==
  LET t == WithData(s, e)
  IN  [t EXCEPT !.objects[Entry(t, e).data][key] = value]

SetPrivate(s, e, names) ==
  LET t == WithEntry(s, e)
  IN  [t EXCEPT !.cache[t.expando[e]].private = @ \cup names]

(***************************************************************************)
(* internalRemoveData, event.remove and cleanData, which call each other.       *)
(***************************************************************************)

(* isEmptyDataObject: an empty object of the page's data does not count. *)
IsEmptyEntry(s, e) ==
  /\ Entry(s, e).events = {} /\ Entry(s, e).private = {} /\ Entry(s, e).handle = "none"
  /\ Entry(s, e).data = 0 \/ s.objects[Entry(s, e).data] = NoData

(* The entry's object of the page's data is the garbage collector's. *)
Release(s, e) == [o \in Objects |-> IF o = Entry(s, e).data THEN NoData ELSE s.objects[o]]

(* cleanData takes the entry out of the cache and the id from the element. *)
Drop(s, e) ==
  LET id == s.expando[e]
  IN  [s EXCEPT !.cache = [i \in DOMAIN s.cache \ {id} |-> s.cache[i]],
                !.objects = Release(s, e),
                !.expando[e] = 0, !.deletedIds = Append(@, id)]

DropIfEmpty(s, e) == IF IsEmptyEntry(s, e) THEN Drop(s, e) ELSE s

(* _removeData of a name *)
RemovePrivate(s, e, name) ==
  IF ~HasEntry(s, e) THEN s
  ELSE DropIfEmpty([s EXCEPT !.cache[s.expando[e]].private = @ \ {name}], e)

WithoutObject(s, e) ==
  DropIfEmpty([s EXCEPT !.cache[s.expando[e]].data = 0, !.objects = Release(s, e)], e)

(* removeData of a name: the object goes with the last name in it. *)
RemovePublic(s, e, key) ==
  LET o == Entry(s, e).data
      t == IF o = 0 THEN s ELSE [s EXCEPT !.objects[o][key] = NoData[key]]
  IN  IF ~HasEntry(s, e) THEN s
      ELSE IF o # 0 /\ t.objects[o] # NoData THEN t
      ELSE WithoutObject(t, e)

(* removeData of everything *)
RemoveAllPublic(s, e) == IF HasEntry(s, e) THEN WithoutObject(s, e) ELSE s

(* jQuery.event.add; the plugin's set-up stores the size. *)
EventAdd(s, e, type) ==
  LET t == WithEntry(s, e)
      u == [t EXCEPT !.cache[t.expando[e]].handle = IF @ = "none" THEN e ELSE @,
                     !.cache[t.expando[e]].events = @ \cup {type}]
      v == IF type \in Special THEN SetPublic(u, e, "size", e) ELSE u
      \* the listener is called back for the element its handle belongs to
  IN  IF Entry(v, e).handle = e THEN [v EXCEPT !.hooked[e] = @ \cup {type}] ELSE v

(* jQuery.event.remove; the plugin's teardown removes the size.  The last type   *)
(* takes handle and events along, and perhaps the entry. *)
EventRemove(s, e, type) ==
  LET t == IF type \in Special THEN RemovePublic(s, e, "size") ELSE s
      u == [t EXCEPT !.hooked[e] = @ \ {type}, !.cache[t.expando[e]].events = @ \ {type}]
  IN  IF EventsOf(u, e) # {} THEN u
      ELSE DropIfEmpty([u EXCEPT !.cache[u.expando[e]].handle = "none"], e)

(* Variant: the entry is dropped a second time. *)
CleanTwice(s, e) ==
  LET id == s.expando[e]
      t == IF EventsOf(s, e) \cap Special # {} THEN EventRemove(s, e, "resize") ELSE s
      u == [t EXCEPT !.hooked[e] = @ \ (Types \ Special)]
  IN  IF ~HasEntry(s, e) THEN s
      ELSE [u EXCEPT !.cache = [i \in DOMAIN u.cache \ {id} |-> u.cache[i]],
                     !.expando[e] = 0, !.deletedIds = Append(@, id)]

(* cleanData: event.remove for the special types, which may have dropped the     *)
(* entry already, and a short cut for the others. *)
CleanElement(s, e) ==
  LET t == IF EventsOf(s, e) \cap Special # {} THEN EventRemove(s, e, "resize") ELSE s
      u == [t EXCEPT !.hooked[e] = @ \ (Types \ Special)]
  IN  IF ~HasEntry(s, e) THEN s
      ELSE IF HasEntry(u, e) THEN Drop(u, e) ELSE u

(***************************************************************************)
(* clone.                                                                  *)
(***************************************************************************)

(* The browser's cloneNode *)
CloneNode(s, src, dest) ==
  IF OldIE THEN [s EXCEPT !.expando[dest] = s.expando[src],
                          !.hooked[dest] = s.hooked[src] \ Special]
  ELSE s

(* fixCloneNodeIssues: the clone gives up what the browser has copied. *)
FixCloneNodeIssues(s, dest) ==
  IF ~OldIE THEN s
  ELSE [s EXCEPT !.hooked[dest] = @ \ EventsOf(s, dest), !.expando[dest] = 0]

(* jQuery._data(dest, oldData): the entry's fields, the object of the page's     *)
(* data among them, are those of the source. *)
CopyEntry(s, src, dest) ==
  LET t == WithEntry(s, dest)
  IN  [t EXCEPT !.cache[t.expando[dest]] = Entry(s, src)]

CopyHandlers(s, src, dest) ==
  LET types == EventsOf(s, src)
      t == [s EXCEPT !.cache[s.expando[dest]].events = {},
                     !.cache[s.expando[dest]].handle = "none"]
  IN  IF types = {} THEN s ELSE FoldSet(LAMBDA type, u : EventAdd(u, dest, type), t, types)

(* "make the cloned public data object a copy from the original" *)
CopyObject(s, dest) ==
  LET o == Unused(s)
  IN  IF Entry(s, dest).data = 0 THEN s
      ELSE [s EXCEPT !.cache[s.expando[dest]].data = o, !.objects[o] = PublicData(s, dest)]

CloneCopyEvent(s, src, dest) ==
  IF HasEntry(s, src) /\ ~IsEmptyEntry(s, src)
  THEN CopyObject(CopyHandlers(CopyEntry(s, src, dest), src, dest), dest)
  ELSE s

(***************************************************************************)
(* What the page calls.  It does not remove all data of an element the plugin   *)
(* watches.                                                *)
(***************************************************************************)

Data(e, value) ==
  /\ heap' = SetPublic(heap, e, "k", value)
  /\ read' = [read EXCEPT ![e] = 0]
  /\ UNCHANGED <<here, attr>>

(* dataAttr: the attribute is read once. *)
DataAttr(s, e) ==
  IF PublicData(s, e).k # 0 \/ attr[e] = 0 THEN s ELSE SetPublic(s, e, "k", attr[e])

(* data("k") *)
DataRead(e) ==
  /\ heap' = DataAttr(heap, e)
  /\ read' = [read EXCEPT ![e] = PublicData(heap', e).k]
  /\ UNCHANGED <<here, attr>>

(* data(): all attributes are read the first time. *)
DataReadAll(e) ==
  LET s == WithData(heap, e)
  IN  /\ heap' = IF "parsedAttrs" \in Entry(s, e).private THEN s
                 ELSE SetPrivate(DataAttr(s, e), e, {"parsedAttrs"})
      /\ read' = [read EXCEPT ![e] = PublicData(heap', e).k]
      /\ UNCHANGED <<here, attr>>

RemoveData(e) ==
  /\ \/ heap' = RemovePublic(heap, e, "k")
     \/ /\ "resize" \notin EventsOf(heap, e)
        /\ heap' = RemoveAllPublic(heap, e)
  /\ read' = [read EXCEPT ![e] = 0]
  /\ UNCHANGED <<here, attr>>

Queue(e) ==
  /\ heap' = SetPrivate(heap, e, {"queue"})
  /\ UNCHANGED <<here, attr, read>>

Dequeued(e) ==
  /\ heap' = RemovePrivate(heap, e, "queue")
  /\ UNCHANGED <<here, attr, read>>

On(e, type) ==
  /\ type \notin EventsOf(heap, e)
  /\ heap' = EventAdd(heap, e, type)
  /\ UNCHANGED <<here, attr, read>>

Off(e, type) ==
  /\ type \in EventsOf(heap, e)
  /\ heap' = EventRemove(heap, e, type)
  /\ UNCHANGED <<here, attr, read>>

(* remove() and empty(); the page may go on using the element. *)
CleanData(e) ==
  /\ heap' = CleanElement(heap, e)
  /\ read' = [read EXCEPT ![e] = 0]
  /\ UNCHANGED <<here, attr>>

(* The page keeps no reference to a cleaned element. *)
Forget(e) ==
  /\ heap.expando[e] = 0 /\ here # {e}
  /\ here' = here \ {e}
  /\ attr' = [attr EXCEPT ![e] = 0]
  /\ UNCHANGED <<heap, read>>

SetAttribute(e, value) ==
  /\ attr' = [attr EXCEPT ![e] = value]
  /\ UNCHANGED <<heap, here, read>>

Clone(src, dest, dataAndEvents) ==
  LET s == FixCloneNodeIssues(CloneNode(heap, src, dest), dest)
  IN  /\ here' = here \cup {dest}
      /\ heap' = IF dataAndEvents THEN CloneCopyEvent(s, src, dest) ELSE s
      /\ attr' = [attr EXCEPT ![dest] = attr[src]]
      /\ read' = [read EXCEPT ![dest] = IF dataAndEvents THEN read[src] ELSE 0]

Next ==
  \E e \in here :
    \/ \E v \in Values : Data(e, v) \/ SetAttribute(e, v)
    \/ DataRead(e) \/ DataReadAll(e) \/ RemoveData(e)
    \/ Queue(e) \/ Dequeued(e) \/ CleanData(e) \/ Forget(e)
    \/ \E type \in Types : On(e, type) \/ Off(e, type)
    \/ \E dest \in Elements \ here, deep \in BOOLEAN : Clone(e, dest, deep)

Spec == Init /\ [][Next]_vars

(***************************************************************************)
(* Correctness.                                                            *)
(***************************************************************************)

(* No two elements share an id, and none has one that is given to the next       *)
(* element, or given twice.                                                *)
IdsAreOwn ==
  /\ \A e, f \in Elements : e # f /\ heap.expando[e] # 0 => heap.expando[e] # heap.expando[f]
  /\ IsInjective(heap.deletedIds)
  /\ \A e \in Elements : heap.expando[e] \notin ToSet(heap.deletedIds)

(* Nothing is left in the cache of elements that have been cleaned. *)
EntriesHaveElements ==
  DOMAIN heap.cache = {heap.expando[e] : e \in here} \ {0}

(* The browser and the resize plugin have an element exactly for the types it    *)
(* has handlers for, after every way to bind, unbind, clean and clone.          *)
HooksMatch == \A e \in Elements : heap.hooked[e] = EventsOf(heap, e)

(* Handlers are called for the element they are bound to. *)
HandleIsOwn ==
  \A e \in here : EventsOf(heap, e) # {} => Entry(heap, e).handle = e

(* What is stored for a clone is not stored for its source, and vice versa. *)
DataIsOwn ==
  \A i, j \in DOMAIN heap.cache :
    i # j /\ heap.cache[i].data # 0 => heap.cache[i].data # heap.cache[j].data

(* "Make sure we set the data so it isn't changed later": what data("k") has     *)
(* returned it returns again, whatever becomes of the attribute, of handlers     *)
(* and of queues. *)
ReadsStay == \A e \in here : read[e] # 0 => PublicData(heap, e).k = read[e]

(* The cache and its elements agree: see the parts. *)
CacheIsSound ==
  /\ TypeOK /\ IdsAreOwn /\ EntriesHaveElements /\ HooksMatch /\ HandleIsOwn /\ DataIsOwn
  /\ ReadsStay

===============================================================================
