----------------------------- MODULE SourcesTracker ----------------------------
(***************************************************************************)
(* SourcesTrackerThread, SourcesTracker and SourcesState: a thread looks at the   *)
(* source files again and again and reports those that have changed.  A change   *)
(* is seen by the file's time stamp, which counts seconds, and for a second and    *)
(* a tenth also by its checksum.  The list of files is static and is read anew     *)
(* after a change and every CAPTURE_COUNTER rounds.                             *)
(*                                                                         *)
(* The service that makes SourceFiles is external; it may return the same object  *)
(* for a path every time, or a new one without a checksum.                      *)
(***************************************************************************)
EXTENDS Integers

CONSTANTS Files,
          Reuses,           \* are the SourceFile objects used again?
          CAPTURE_COUNTER,
          Second,           \* ticks in a second: 10, less in a run; a tick is a tenth
          MaxTime,          \* bound: ticks
          MaxChanges        \* bound: changes of files

TrackerAssumption ==
  /\ Reuses \in BOOLEAN /\ CAPTURE_COUNTER \in Nat \ {0} /\ Second \in Nat \ {0}
  /\ MaxTime \in Nat /\ MaxChanges \in Nat

Missing == 0      \* no file, and what lastModified returns for it
NoEntry == -1     \* the file is not in the state

VARIABLES
  now, content, lastModified,   \* the clock and the files
  filesMap,    \* the static list, where "known" is FALSE when it is null
  state,       \* the time stamps the tracker has
  newState,    \* those it is capturing
  checkSum,    \* what the SourceFile of a file knows, or Missing
  oldChecksum, \* the checksum that is being compared
  round,       \* where the thread is
  todo,        \* the files it has not come to
  current,     \* the files that are compared by checksum or to be added, at most one
  changed,     \* changedFiles
  counter,     \* counterForCapture
  changes,     \* bounded: changes so far
  steady,      \* history: the files that have not changed since the last round began
  seen,        \* history: the content of a file when it was last reported
  hidden       \* history: a change that left no trace

files == <<now, content, lastModified, changes, hidden>>
vars == <<files, filesMap, state, newState, checkSum, oldChecksum, round, todo, current,
          changed, counter, steady, seen>>

Contents == 0..(MaxChanges + 1)
Stamps == 0..(MaxTime + 1)

TypeOK ==
  /\ now \in 0..MaxTime /\ content \in [Files -> Contents]
  /\ lastModified \in [Files -> Stamps]
  /\ \A f \in Files : content[f] = Missing <=> lastModified[f] = Missing
  /\ filesMap.known \in BOOLEAN /\ filesMap.files \subseteq Files
  /\ state \in [Files -> Stamps \cup {NoEntry}]
  /\ newState \in [Files -> Stamps \cup {NoEntry}]
  /\ checkSum \in [Files -> Contents] /\ oldChecksum \in Contents
  /\ round \in {"sleep", "capture", "compare", "digest", "update", "report"}
  /\ todo \subseteq Files /\ changed \subseteq Files
  /\ current = {} \/ \E f \in Files : current = {f}
  /\ counter \in 0..CAPTURE_COUNTER /\ steady \subseteq Files
  /\ changes \in 0..MaxChanges /\ seen \in [Files -> Contents]
  /\ hidden \in [Files -> BOOLEAN]

(* The beginning of the second, one more than the tick since 0 is no time. *)
Stamp == now - (now % Second) + 1

Existing == {f \in Files : content[f] # Missing}

(* The tracker has been made: its state is captured from the list, which may      *)
(* be one that another tracker has left, of other directories.                 *)
Init ==
  /\ now = 0 /\ changes = 0
  /\ content \in [Files -> {Missing, 1}]
  /\ lastModified = [f \in Files |-> IF content[f] = Missing THEN Missing ELSE 1]
  /\ filesMap \in {[known |-> TRUE, files |-> Existing], [known |-> TRUE, files |-> {}]}
  /\ state = [f \in Files |-> IF f \in filesMap.files THEN 1 ELSE NoEntry]
  /\ newState = [f \in Files |-> NoEntry]
  /\ checkSum = [f \in Files |-> Missing] /\ oldChecksum = Missing
  /\ round = "sleep" /\ todo = {} /\ current = {} /\ changed = {}
  /\ counter = CAPTURE_COUNTER /\ steady = {}
  /\ seen = content /\ hidden = [f \in Files |-> FALSE]

------------------------------------------------------------------------------
(* Files are written, created and deleted, and time passes, at any point of a round: how *)
(* long listing, reading and the callback take is not bounded.                          *)

(* The time stamp that the next comparison of f starts from *)
KnownStamp(f) ==
  IF round \in {"compare", "digest", "update"} /\ f \notin todo THEN newState[f] ELSE state[f]

(* A change in the second whose time stamp the tracker has already, of a file that it is  *)
(* not about to report, can only be told by the checksum. *)
SameSecond(f, stamp) == stamp = KnownStamp(f) /\ f \notin changed \cup current

(* Then the checksum of the content before must be known. *)
Write(f) ==
  /\ changes < MaxChanges /\ changes' = changes + 1
  /\ content' = [content EXCEPT ![f] = changes + 2]
  /\ lastModified' = [lastModified EXCEPT ![f] = Stamp]
  /\ hidden' = [hidden EXCEPT ![f] =
                  SameSecond(f, Stamp) /\ (~Reuses \/ checkSum[f] = Missing)]
  /\ steady' = steady \ {f}
  /\ UNCHANGED <<now, filesMap, state, newState, checkSum, oldChecksum, round, todo,
                 current, changed, counter, seen>>

Delete(f) ==
  /\ content[f] # Missing
  /\ changes < MaxChanges /\ changes' = changes + 1
  /\ content' = [content EXCEPT ![f] = Missing]
  /\ lastModified' = [lastModified EXCEPT ![f] = Missing]
  /\ steady' = steady \ {f}
  /\ UNCHANGED <<now, hidden, filesMap, state, newState, checkSum, oldChecksum, round,
                 todo, current, changed, counter, seen>>

(* And the comparison must come before a second and a tenth have passed. *)
Tick ==
  /\ now < MaxTime /\ now' = now + 1
  /\ hidden' = [f \in Files |->
                  hidden[f] \/ (/\ now + 1 - lastModified[f] >= Second
                                /\ SameSecond(f, lastModified[f]) /\ seen[f] # content[f])]
  /\ UNCHANGED <<content, lastModified, changes, filesMap, state, newState, checkSum,
                 oldChecksum, round, todo, current, changed, counter, steady, seen>>

------------------------------------------------------------------------------
(* SourcesTracker.getChangedFiles: the list is dropped when the counter has run     *)
(* down; SourcesState.capture reads it anew if there is none. *)
List(reset) == IF reset \/ ~filesMap.known THEN Existing ELSE filesMap.files

BeginRound ==
  /\ round = "sleep" /\ round' = "capture"
  /\ filesMap' = [known |-> TRUE, files |-> List(counter = 0)]
  /\ counter' = (IF counter = 0 THEN CAPTURE_COUNTER ELSE counter) - 1
  /\ todo' = filesMap'.files
  /\ newState' = [f \in Files |-> NoEntry]
  /\ steady' = Files
  /\ UNCHANGED <<files, state, checkSum, oldChecksum, current, changed, seen>>

AddFile(f) ==
  /\ round = "capture" /\ f \in todo /\ todo' = todo \ {f}
  /\ newState' = [newState EXCEPT ![f] = lastModified[f]]
  /\ checkSum' = IF Reuses THEN checkSum ELSE [checkSum EXCEPT ![f] = Missing]
  /\ UNCHANGED <<files, filesMap, state, oldChecksum, round, current, changed, counter,
                 steady, seen>>

Captured ==
  /\ round = "capture" /\ todo = {}
  /\ round' = "compare"
  /\ todo' = {f \in Files : newState[f] # NoEntry}
  /\ UNCHANGED <<files, filesMap, state, newState, checkSum, oldChecksum, current,
                 changed, counter, steady, seen>>

(* Variant: the first second only. *)
IsRecentOnly(f) == now + 1 - newState[f] < Second - 1

(* Less than 1100 milliseconds: a second and this tick. *)
IsRecent(f) == now + 1 - newState[f] <= Second

(* Variant: a file the tracker did not know is not new. *)
CompareKnown(f) ==
  /\ round = "compare" /\ f \in todo /\ todo' = todo \ {f}
  /\ IF newState[f] # state[f] /\ state[f] # NoEntry
     THEN round' = "update" /\ current' = {f} /\ UNCHANGED <<checkSum, oldChecksum>>
     ELSE UNCHANGED <<round, current, checkSum, oldChecksum>>
  /\ UNCHANGED <<files, filesMap, state, newState, changed, counter, steady, seen>>

(* SourcesState.getChangedFiles: by the time stamp ... *)
Compare(f) ==
  /\ round = "compare" /\ f \in todo /\ todo' = todo \ {f}
  /\ IF newState[f] # state[f]
     THEN round' = "update" /\ current' = {f} /\ UNCHANGED <<checkSum, oldChecksum>>
     ELSE IF IsRecent(f)
     THEN LET sum == IF checkSum[f] = Missing THEN content[f] ELSE checkSum[f] IN
          /\ checkSum' = [checkSum EXCEPT ![f] = sum]
          /\ oldChecksum' = sum
          /\ IF sum = Missing THEN UNCHANGED <<round, current>>
             ELSE round' = "digest" /\ current' = {f}
     ELSE UNCHANGED <<round, current, checkSum, oldChecksum>>
  /\ UNCHANGED <<files, filesMap, state, newState, changed, counter, steady, seen>>

(* ... and by the checksum; what cannot be read is passed over. *)
Digest(f) ==
  /\ round = "digest" /\ current = {f}
  /\ IF content[f] \in {Missing, oldChecksum}
     THEN round' = "compare" /\ current' = {}
     ELSE round' = "update" /\ UNCHANGED current
  /\ oldChecksum' = Missing
  /\ UNCHANGED <<files, filesMap, state, newState, checkSum, todo, changed, counter,
                 steady, seen>>

AddToChanged(f) ==
  /\ round = "update" /\ current = {f}
  /\ round' = "compare" /\ current' = {}
  /\ checkSum' = IF content[f] = Missing THEN checkSum
                 ELSE [checkSum EXCEPT ![f] = content[f]]
  /\ changed' = changed \cup {f}
  /\ UNCHANGED <<files, filesMap, state, newState, oldChecksum, todo, counter, steady,
                 seen>>

Compared ==
  /\ round = "compare" /\ todo = {}
  /\ round' = "report"
  /\ filesMap' = IF changed # {} THEN [known |-> FALSE, files |-> {}] ELSE filesMap
  /\ state' = newState
  /\ newState' = [f \in Files |-> NoEntry]
  /\ UNCHANGED <<files, checkSum, oldChecksum, todo, current, changed, counter, steady,
                 seen>>

(* The callback reads the file. *)
Report(f) ==
  /\ round = "report" /\ f \in changed
  /\ changed' = changed \ {f}
  /\ seen' = [seen EXCEPT ![f] = content[f]]
  /\ UNCHANGED <<files, filesMap, state, newState, checkSum, oldChecksum, round, todo,
                 current, counter, steady>>

EndRound ==
  /\ round = "report" /\ changed = {}
  /\ round' = "sleep"
  /\ UNCHANGED <<files, filesMap, state, newState, checkSum, oldChecksum, todo, current,
                 changed, counter, steady, seen>>

Step ==
  \/ BeginRound \/ Captured \/ Compared \/ EndRound
  \/ \E f \in Files :
       AddFile(f) \/ Compare(f) \/ Digest(f) \/ AddToChanged(f) \/ Report(f)

Next == Step \/ Tick \/ \E f \in Files : Write(f) \/ Delete(f)

Spec == Init /\ [][Next]_vars

(* The thread goes on. *)
FairSpec == Spec /\ WF_vars(Step)

------------------------------------------------------------------------------
(* After a round in which a file was left alone, what it holds has been reported, unless     *)
(* the change was hidden: it came in the second whose time stamp the tracker had already,    *)
(* and the checksum was not known, or was not looked at before 1100 milliseconds were over.  *)
NoChangeMissed ==
  \A f \in Existing \cap steady :
    round = "sleep" /\ state[f] # NoEntry => seen[f] = content[f] \/ hidden[f]

(* Every file that is left alone is seen as it is in the end, also one that is      *)
(* created, and also when the list of files was another tracker's. *)
Seen(f) == content[f] = Missing \/ hidden[f] \/ seen[f] = content[f]
SeenInTheEnd == \A f \in Files : <>[]Seen(f)

(* The invariants together. *)
TrackerIsSound == TypeOK /\ NoChangeMissed

==============================================================================
