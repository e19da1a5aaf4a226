----------------------------- MODULE ResourcesServer ---------------------------
(***************************************************************************)
(* CodeOrchestraResourcesHttpServer.java: the server of the projects' files.     *)
(* Loading a project starts a thread that initialises it, while the load itself  *)
(* goes on and adds aliases.  A handler that was added is served when the server  *)
(* has been started anew; a thread does that, some time after the last request.   *)
(*                                                                         *)
(* The load of a first project that fails is followed by another that            *)
(* initialises the server once more.  A handler is an alias and a number.        *)
(***************************************************************************)
EXTENDS Naturals

CONSTANTS Aliases,
          MaxInits,  \* bound: calls of initWithPort, one after the other
          MaxAdds,   \* bound: calls of addAlias
          MayFail    \* may the server fail to start?

ServerAssumption == MaxInits \in Nat /\ MaxAdds \in Nat /\ MayFail \in BOOLEAN

Handlers == [alias : Aliases, number : 1..MaxAdds]
NoHandler == [alias |-> "none", number |-> 0]

VARIABLES
  init,            \* where the initialising thread is
  server,          \* the state of the server
  ready,           \* is there a list activeHandlers?
  activeHandlers,
  handlersMap,     \* the handler of an alias
  served,          \* the handlers that have been started
  adder, adding,   \* where the thread that calls addAlias is, its new handler
  mustReload,
  recent,          \* was the last request made less than 1500 ms ago?
  asleep, awake,   \* threads that reload: before the loop's test, after it
  reloading,       \* the one that holds reloadMonitor has stopped the server
  mustStop,        \* mustStopReloadThread
  disposed,        \* dispose has returned
  inits, adds,     \* bounded
  died,            \* history: the server could not be started by some thread
  raced            \* history: dispose came in the middle of a start

threads == <<init, adder, adding, asleep, awake, reloading>>
vars == <<threads, server, ready, activeHandlers, handlersMap, served, mustReload,
          recent, mustStop, disposed, inits, adds, died, raced>>

TypeOK ==
  /\ init \in {"idle", "create", "list", "start", "thread"}
  /\ server \in {"none", "new", "running", "stopped"} /\ ready \in BOOLEAN
  /\ activeHandlers \subseteq Handlers /\ served \subseteq activeHandlers
  /\ handlersMap \in [Aliases -> Handlers \cup {NoHandler}]
  /\ adder \in {"idle", "begin", "add", "request"}
  /\ adding \in Handlers \cup {NoHandler}
  /\ asleep \in 0..MaxInits /\ awake \in 0..MaxInits
  /\ {mustReload, recent, reloading, mustStop, disposed, died, raced} \subseteq BOOLEAN
  /\ inits \in 0..MaxInits /\ adds \in 0..MaxAdds

Init ==
  /\ init = "idle" /\ server = "none" /\ ready = FALSE
  /\ activeHandlers = {} /\ served = {}
  /\ handlersMap = [a \in Aliases |-> NoHandler]
  /\ adder = "idle" /\ adding = NoHandler
  /\ mustReload = FALSE /\ recent = FALSE
  /\ asleep = 0 /\ awake = 0 /\ reloading = FALSE
  /\ mustStop = FALSE /\ disposed = FALSE
  /\ inits = 0 /\ adds = 0 /\ died = FALSE /\ raced = FALSE

------------------------------------------------------------------------------
(* initWithPort *)

Load ==
  /\ inits < MaxInits /\ init = "idle" /\ ~disposed
  /\ inits' = inits + 1 /\ init' = "create"
  /\ UNCHANGED <<server, ready, activeHandlers, handlersMap, served, adder, adding,
                 mustReload, recent, asleep, awake, reloading, mustStop, disposed, adds,
                 died, raced>>

CreateServer ==
  /\ init = "create" /\ init' = "list"
  /\ server' = "new" /\ served' = {}
  /\ UNCHANGED <<ready, activeHandlers, handlersMap, adder, adding, mustReload, recent,
                 asleep, awake, reloading, mustStop, disposed, inits, adds, died, raced>>

CreateList ==
  /\ init = "list" /\ init' = "start"
  /\ ready' = TRUE /\ activeHandlers' = {} /\ served' = {}
  /\ UNCHANGED <<server, handlersMap, adder, adding, mustReload, recent, asleep, awake,
                 reloading, mustStop, disposed, inits, adds, died, raced>>

(* Starting a server that runs does nothing. *)
ServerStarts ==
  /\ server' = "running"
  /\ served' = IF server = "running" THEN served ELSE activeHandlers

(* Variant: no thread is started. *)
StartServerOnly ==
  /\ init = "start" /\ init' = "idle" /\ ServerStarts
  /\ UNCHANGED <<ready, activeHandlers, handlersMap, adder, adding, mustReload, recent,
                 asleep, awake, reloading, mustStop, disposed, inits, adds, died, raced>>

StartServer ==
  /\ init = "start"
  /\ \/ init' = "thread" /\ ServerStarts /\ UNCHANGED died
     \/ MayFail /\ init' = "idle" /\ died' = TRUE /\ UNCHANGED <<server, served>>
  /\ UNCHANGED <<ready, activeHandlers, handlersMap, adder, adding, mustReload, recent,
                 asleep, awake, reloading, mustStop, disposed, inits, adds, raced>>

StartThread ==
  /\ init = "thread" /\ init' = "idle" /\ asleep' = asleep + 1
  /\ UNCHANGED <<server, ready, activeHandlers, handlersMap, served, adder, adding,
                 mustReload, recent, awake, reloading, mustStop, disposed, inits, adds,
                 died, raced>>

------------------------------------------------------------------------------
(* addAlias.  Without a list it throws, and the load with it. *)

AddAlias(a) ==
  /\ adds < MaxAdds /\ adder = "idle" /\ inits > 0
  /\ adds' = adds + 1
  /\ IF ready THEN adder' = "begin" /\ adding' = [alias |-> a, number |-> adds + 1]
     ELSE UNCHANGED <<adder, adding>>
  /\ UNCHANGED <<init, server, ready, activeHandlers, handlersMap, served, mustReload,
                 recent, asleep, awake, reloading, mustStop, disposed, inits, died, raced>>

RemoveHandler ==
  /\ adder = "begin" /\ adder' = "add"
  /\ activeHandlers' = activeHandlers \ {handlersMap[adding.alias]}
  /\ served' = served \ {handlersMap[adding.alias]}
  /\ UNCHANGED <<init, server, ready, handlersMap, adding, mustReload, recent, asleep,
                 awake, reloading, mustStop, disposed, inits, adds, died, raced>>

AddHandler ==
  /\ adder = "add" /\ adder' = "request"
  /\ activeHandlers' = activeHandlers \cup {adding}
  /\ handlersMap' = [handlersMap EXCEPT ![adding.alias] = adding]
  /\ UNCHANGED <<init, server, ready, served, adding, mustReload, recent, asleep, awake,
                 reloading, mustStop, disposed, inits, adds, died, raced>>

(* Variant: without the monitor. *)
ReloadServerUnlocked ==
  /\ adder = "request"
  /\ adder' = "idle" /\ adding' = NoHandler
  /\ mustReload' = TRUE /\ recent' = TRUE
  /\ UNCHANGED <<init, server, ready, activeHandlers, handlersMap, served, asleep,
                 awake, reloading, mustStop, disposed, inits, adds, died, raced>>

ReloadServer ==
  /\ adder = "request" /\ ~reloading
  /\ adder' = "idle" /\ adding' = NoHandler
  /\ mustReload' = TRUE /\ recent' = TRUE
  /\ UNCHANGED <<init, server, ready, activeHandlers, handlersMap, served, asleep,
                 awake, reloading, mustStop, disposed, inits, adds, died, raced>>

TimePasses ==
  /\ recent /\ recent' = FALSE
  /\ UNCHANGED <<threads, server, ready, activeHandlers, handlersMap, served, mustReload,
                 mustStop, disposed, inits, adds, died, raced>>

------------------------------------------------------------------------------
(* ServerReloadThread *)

LoopTest ==
  /\ asleep > 0 /\ asleep' = asleep - 1
  /\ awake' = IF mustStop THEN awake ELSE awake + 1
  /\ UNCHANGED <<init, server, ready, activeHandlers, handlersMap, served, adder, adding,
                 mustReload, recent, reloading, mustStop, disposed, inits, adds, died,
                 raced>>

NothingToDo ==
  /\ awake > 0 /\ ~reloading
  /\ ~mustReload \/ recent
  /\ awake' = awake - 1 /\ asleep' = asleep + 1
  /\ UNCHANGED <<init, server, ready, activeHandlers, handlersMap, served, adder, adding,
                 mustReload, recent, reloading, mustStop, disposed, inits, adds, died,
                 raced>>

DoReload ==
  /\ awake > 0 /\ ~reloading
  /\ mustReload /\ ~recent
  /\ reloading' = TRUE /\ server' = "stopped" /\ served' = {}
  /\ UNCHANGED <<init, ready, activeHandlers, handlersMap, adder, adding, mustReload,
                 recent, asleep, awake, mustStop, disposed, inits, adds, died, raced>>

Reloaded ==
  /\ reloading /\ reloading' = FALSE /\ mustReload' = FALSE
  /\ awake' = awake - 1
  /\ \/ asleep' = asleep + 1 /\ ServerStarts /\ UNCHANGED died
     \/ MayFail /\ died' = TRUE /\ UNCHANGED <<asleep, server, served>>
  /\ UNCHANGED <<init, ready, activeHandlers, handlersMap, adder, adding, recent,
                 mustStop, disposed, inits, adds, raced>>

------------------------------------------------------------------------------
(* dispose.  Without a server its exception is ignored. *)

StopThread ==
  /\ ~mustStop /\ mustStop' = TRUE
  /\ UNCHANGED <<threads, server, ready, activeHandlers, handlersMap, served, mustReload,
                 recent, disposed, inits, adds, died, raced>>

StopServer ==
  /\ mustStop /\ ~disposed /\ disposed' = TRUE
  /\ server' = IF server = "none" THEN server ELSE "stopped"
  /\ served' = {}
  /\ raced' = (init # "idle" \/ awake > 0)
  /\ UNCHANGED <<threads, ready, activeHandlers, handlersMap, mustReload, recent,
                 mustStop, inits, adds, died>>

Adding == RemoveHandler \/ AddHandler \/ ReloadServer
Initialising == CreateServer \/ CreateList \/ StartServer \/ StartThread
Reloading == LoopTest \/ NothingToDo \/ DoReload \/ Reloaded

Next ==
  \/ Load \/ Initialising \/ TimePasses \/ Reloading \/ StopThread \/ StopServer
  \/ Adding \/ \E a \in Aliases : AddAlias(a)

Spec == Init /\ [][Next]_vars

(* The threads of the JVM go on, and time passes. *)
FairSpec ==
  /\ Spec /\ WF_vars(Adding) /\ WF_vars(Initialising) /\ WF_vars(TimePasses)
  /\ WF_vars(LoopTest) /\ WF_vars(NothingToDo \/ DoReload) /\ WF_vars(Reloaded)

------------------------------------------------------------------------------
(* When no reload is asked for or under way, the server runs with all handlers    *)
(* of the list: a request that comes in the middle of a reload is not lost. *)
NoRequestLost ==
  (/\ server = "running" /\ init = "idle" /\ adder = "idle"
   /\ ~mustReload /\ ~reloading /\ ~disposed) => served = activeHandlers

(* An alias stands for one directory: the handler it had before is not served     *)
(* beside the new one, nor in place of it. *)
OneForAlias ==
  adder = "idle" => \A h \in activeHandlers : h = handlersMap[h.alias]

(* A server that was disposed of runs again only if a thread was in the middle of  *)
(* starting it. *)
StaysDisposed == disposed /\ ~raced => server # "running"

(* What was added is served in the end, unless it is replaced, the server is       *)
(* initialised anew or disposed of, or a thread could not start it and has died of   *)
(* the exception. *)
Unserved(h) == h \in activeHandlers /\ h \notin served /\ ~mustStop /\ ~died
AliasIsServed == \A h \in Handlers : []<>~Unserved(h)

(* The invariants together. *)
ServerIsSound == TypeOK /\ NoRequestLost /\ OneForAlias /\ StaysDisposed

==============================================================================
