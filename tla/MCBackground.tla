---------------------------- MODULE MCBackground ------------------------------
(***************************************************************************)
(* Threads in the background, for TLC: RemoteService and, beside it, a          *)
(* ProcessHandler, the ResourcesServer and two SourcesTrackers.  They share no   *)
(* state, so each behaviour is one of a single component, which "part" names; the *)
(* variables of the others are Idle, except those of RemoteService, which keep     *)
(* their initial value.  The states are the sum of those of the components, not     *)
(* their product.                                                         *)
(***************************************************************************)
EXTENDS RemoteService, Integers

CONSTANTS
  Threads,                                 \* of the ProcessHandler
  Aliases, MaxInits, MaxAdds, MayFail,       \* of the ResourcesServer
  Files, CAPTURE_COUNTER, Second, MaxTime, MaxChanges  \* of the SourcesTracker

VARIABLES
  part,
  myState, count, myPendingTasks, call, place, tasks, announced, ran,
  init, server, ready, activeHandlers, handlersMap, served, adder, adding,
  mustReload, recent, asleep, awake, reloading, mustStop, disposed, inits, adds,
  died, raced,
  now, content, lastModified, filesMap, state, newState, checkSum, oldChecksum,
  round, todo, current, changed, counter, changes, steady, seen, hidden

Idle == "idle"

ofHandler == <<myState, count, myPendingTasks, call, place, tasks, announced, ran>>

ofServer == <<init, server, ready, activeHandlers, handlersMap, served, adder,
              adding, mustReload, recent, asleep, awake, reloading, mustStop,
              disposed, inits, adds, died, raced>>

ofTracker == <<now, content, lastModified, filesMap, state, newState, checkSum,
               oldChecksum, round, todo, current, changed, counter, changes,
               steady, seen, hidden>>

HandlerIdle ==
  /\ myState = Idle /\ count = Idle /\ myPendingTasks = Idle /\ call = Idle
  /\ place = Idle /\ tasks = Idle /\ announced = Idle /\ ran = Idle

ServerIdle ==
  /\ init = Idle /\ server = Idle /\ ready = Idle /\ activeHandlers = Idle
  /\ handlersMap = Idle /\ served = Idle /\ adder = Idle /\ adding = Idle
  /\ mustReload = Idle /\ recent = Idle /\ asleep = Idle /\ awake = Idle
  /\ reloading = Idle /\ mustStop = Idle /\ disposed = Idle /\ inits = Idle
  /\ adds = Idle /\ died = Idle /\ raced = Idle

TrackerIdle ==
  /\ now = Idle /\ content = Idle /\ lastModified = Idle /\ filesMap = Idle
  /\ state = Idle /\ newState = Idle /\ checkSum = Idle /\ oldChecksum = Idle
  /\ round = Idle /\ todo = Idle /\ current = Idle /\ changed = Idle
  /\ counter = Idle /\ changes = Idle /\ steady = Idle /\ seen = Idle
  /\ hidden = Idle

Handler == INSTANCE ProcessHandler WITH MayThrow <- FALSE, pc <- place, todo <- tasks

Server == INSTANCE ResourcesServer

(* The SourceFile objects are used again, or they are not. *)
Tracker(Reuses) == INSTANCE SourcesTracker

ASSUME Assumptions ==
  Server!ServerAssumption /\ \A b \in BOOLEAN : Tracker(b)!TrackerAssumption

Tracks(b) == part = IF b THEN "tracker" ELSE "forgetful"

BackgroundInit ==
  /\ Init
  /\ \/ part = "remote" /\ HandlerIdle /\ ServerIdle /\ TrackerIdle
     \/ part = "handler" /\ Handler!Init /\ ServerIdle /\ TrackerIdle
     \/ part = "server" /\ HandlerIdle /\ Server!Init /\ TrackerIdle
     \/ \E b \in BOOLEAN : Tracks(b) /\ HandlerIdle /\ ServerIdle /\ Tracker(b)!Init

(* Steps of a component. *)
OfRemote(A) ==
  part = "remote" /\ A /\ UNCHANGED <<part, ofHandler, ofServer, ofTracker>>
OfHandler(A) ==
  part = "handler" /\ A /\ UNCHANGED <<part, vars, ofServer, ofTracker>>
OfServer(A) == part = "server" /\ A /\ UNCHANGED <<part, vars, ofHandler, ofTracker>>
OfTracker(b, A) == Tracks(b) /\ A /\ UNCHANGED <<part, vars, ofHandler, ofServer>>

BackgroundNext ==
  \/ OfRemote(Next)
  \/ OfHandler(Handler!Next)
  \/ OfServer(Server!Next)
  \/ \E b \in BOOLEAN : OfTracker(b, Tracker(b)!Next)

everything == <<part, vars, ofHandler, ofServer, ofTracker>>

(* The threads go on. *)
BackgroundFairness ==
  /\ \A p \in Threads : WF_everything(OfHandler(Handler!Step(p)))
  /\ WF_everything(OfServer(Server!Adding)) /\ WF_everything(OfServer(Server!Initialising))
  /\ WF_everything(OfServer(Server!TimePasses)) /\ WF_everything(OfServer(Server!LoopTest))
  /\ WF_everything(OfServer(Server!NothingToDo \/ Server!DoReload))
  /\ WF_everything(OfServer(Server!Reloaded))
  /\ \A b \in BOOLEAN : WF_everything(OfTracker(b, Tracker(b)!Step))

BackgroundSpec ==
  /\ BackgroundInit /\ [][BackgroundNext]_everything
  /\ Fairness /\ BackgroundFairness

------------------------------------------------------------------------------
(* ProcessHandler!Owed and Held: after the start                                *)
(* every request is executed, and the end of the process releases the waiters.   *)
HandlerAnswers ==
  \A p \in Threads :
    []<>~(part = "handler" /\ (Handler!Owed(p) \/ Handler!Held(p)))

(* ResourcesServer!ServerIsSound: no request to reload is lost, an alias stands   *)
(* for one directory, a disposed server stays so. *)
ServerIsSound == part = "server" => Server!ServerIsSound

(* ResourcesServer!AliasIsServed: what was added is served in the end. *)
AliasIsServed ==
  \A h \in Server!Handlers : []<>~(part = "server" /\ Server!Unserved(h))

(* SourcesTracker!TrackerIsSound: a round reports what every file that is left    *)
(* alone holds, but for changes in a second the tracker had seen and looked at too late. *)
TrackerIsSound == \A b \in BOOLEAN : Tracks(b) => Tracker(b)!TrackerIsSound

(* SourcesTracker!SeenInTheEnd: a file that is left alone is seen as it is. *)
SeenInTheEnd ==
  \A b \in BOOLEAN, f \in Files : <>[](Tracks(b) => Tracker(b)!Seen(f))
==============================================================================
