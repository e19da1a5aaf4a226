---------------------------- MODULE ProjectManager ----------------------------
(***************************************************************************)
(* codeOrchestra.colt.core.ColtProjectManager with the listeners it serves,  *)
(* the ChangingMonitor, the task that saves a project and the               *)
(* RPCServicePublisher thread.                                              *)
(*                                                                         *)
(* load, create, unload and dispose are called on the JavaFX thread, save on  *)
(* the thread of a task; all but save(Project) hold the manager's lock.      *)
(* A project is known by its file; what it holds is the number of edits it   *)
(* has seen.                                                                *)
(***************************************************************************)
EXTENDS Naturals

CONSTANTS Projects,   \* the project files
          NoProject,  \* null
          Broken,     \* the contents of a file that was truncated
          MaxEdits    \* bound: a project is edited that often

ASSUME NoProjectAssumption == NoProject \notin Projects
ASSUME ContentsAssumption == MaxEdits \in Nat /\ Broken \notin Nat

Contents == 0..MaxEdits

VARIABLES
  fx,              \* what the JavaFX thread is at
  target,          \* the project it loads or creates
  currentProject,
  model,           \* the contents of the current project
  file,            \* the contents of each project file
  changed,         \* ChangingMonitor.changed
  handler,         \* has LiveCodingHandlerManager a current handler?
  opened,          \* what the first listener was told: the project that is open
  saveEnabled,     \* the Save item, which a later listener enables
  serverRequested, \* was the resources server initialised?
  task,            \* what the saving task is at
  snapshot,        \* what it is about to write
  publisher,       \* what the RPCServicePublisher thread is at
  mustStop,        \* RPCServicePublisher.mustStop
  created,         \* history: has create() made a project the current one?
  raced,           \* history: was there an edit in the middle of the last save?
  spoiled          \* history: did something else than the project's own save
                   \* reset changed, or a failed save truncate the file?

saveVars  == <<task, snapshot>>
listenerVars == <<opened, saveEnabled, publisher, mustStop>>
projectVars == <<currentProject, model, changed, created, raced, spoiled>>
vars == <<fx, target, projectVars, file, handler, listenerVars,
          serverRequested, saveVars>>

InManager == {"handler", "parse", "createHandler", "create", "save", "fire"}

(* The lock of the manager: held by load and create, and by save(). *)
FxHolds == fx \in InManager
TaskHolds == task \in {"serialize", "write", "reset"}

TypeOK ==
  /\ fx \in InManager \cup {"idle", "remote", "exited"}
  /\ target \in Projects
  /\ currentProject \in Projects \cup {NoProject}
  /\ model \in Contents
  /\ file \in [Projects -> Contents \cup {Broken}]
  /\ changed \in BOOLEAN
  /\ handler \in BOOLEAN
  /\ opened \in Projects \cup {NoProject}
  /\ saveEnabled \in BOOLEAN
  /\ serverRequested \in BOOLEAN
  /\ task \in {"idle", "asked", "serialize", "write", "reset"}
  /\ snapshot \in Contents
  /\ publisher \in {"new", "check", "sleep", "publish", "ended"}
  /\ mustStop \in BOOLEAN
  /\ created \in BOOLEAN /\ raced \in BOOLEAN /\ spoiled \in BOOLEAN

Init ==
  /\ fx = "idle"
  /\ target \in Projects
  /\ currentProject = NoProject
  /\ model = 0
  /\ file = [p \in Projects |-> 0]
  /\ changed = FALSE
  /\ handler = FALSE
  /\ opened = NoProject
  /\ saveEnabled = FALSE
  /\ serverRequested = FALSE
  /\ task = "idle"
  /\ snapshot = 0
  /\ publisher = "new"
  /\ mustStop = FALSE
  /\ created = FALSE /\ raced = FALSE /\ spoiled = FALSE

(* Variant: the publisher is not told. *)
UnloadQuietly ==
  /\ opened' = NoProject
  /\ saveEnabled' = FALSE
  /\ UNCHANGED <<publisher, mustStop>>

(* unload: every listener hears that the project is closed, the manager's    *)
(* own first.                                                               *)
Unload ==
  /\ opened' = NoProject
  /\ mustStop' = TRUE
  /\ saveEnabled' = FALSE
  /\ UNCHANGED publisher

UnloadIfCurrent ==
  IF currentProject # NoProject THEN Unload ELSE UNCHANGED listenerVars

(***************************************************************************)
(* load, on the JavaFX thread.  An exception ends it at the step where it     *)
(* is thrown: the project that was closed stays the current one.            *)
(***************************************************************************)

CanLoad(p) == fx \in {"idle", "remote"} /\ ~TaskHolds
              /\ (fx = "remote" => p = target)

(* The file's header cannot be read: nothing else happens. *)
LoadRefused(p) ==
  /\ CanLoad(p)
  /\ file[p] = Broken
  /\ fx' = "idle"
  /\ UNCHANGED <<target, projectVars, file, handler, listenerVars,
                 serverRequested, saveVars>>

(* Variant: the project that is open is not unloaded. *)
BeginLoadOverOpen(p) ==
  /\ CanLoad(p)
  /\ file[p] # Broken
  /\ serverRequested' = (currentProject = NoProject \/ serverRequested)
  /\ fx' = "handler"
  /\ target' = p
  /\ UNCHANGED <<projectVars, file, handler, listenerVars, saveVars>>

(* Variant: the server is initialised when a project is replaced. *)
BeginLoadSwapped(p) ==
  /\ CanLoad(p)
  /\ file[p] # Broken
  /\ UnloadIfCurrent
  /\ serverRequested' = (currentProject # NoProject \/ serverRequested)
  /\ fx' = "handler"
  /\ target' = p
  /\ UNCHANGED <<projectVars, file, handler, saveVars>>

(* The current project is unloaded; if there is none, a thread is started    *)
(* that initialises the resources server.                                   *)
BeginLoad(p) ==
  /\ CanLoad(p)
  /\ file[p] # Broken
  /\ UnloadIfCurrent
  /\ serverRequested' = (currentProject = NoProject \/ serverRequested)
  /\ fx' = "handler"
  /\ target' = p
  /\ UNCHANGED <<projectVars, file, handler, saveVars>>

(* LiveCodingHandlerManager.load: a handler that is there is used again; a    *)
(* new one may be unknown, or be set and then fail to give its pane.         *)
LoadHandler(from, next) ==
  /\ fx = from
  /\ \/ fx' = next /\ handler' = TRUE
     \/ fx' = "idle" /\ ~handler /\ handler' \in BOOLEAN
  /\ UNCHANGED <<target, projectVars, file, listenerVars, serverRequested,
                 saveVars>>

(* The handler parses the file, or imports a legacy one (importProject would   *)
(* unload and load the handler again, which changes nothing by now).         *)
Parse ==
  /\ fx = "parse"
  /\ currentProject' = target
  /\ model' = file[target]
  /\ changed' = FALSE
  /\ raced' = FALSE /\ spoiled' = FALSE
  /\ fx' = "fire"
  /\ UNCHANGED <<target, file, handler, created, listenerVars,
                 serverRequested, saveVars>>

ParseFails ==
  /\ fx = "parse"
  /\ fx' = "idle"
  /\ UNCHANGED <<target, projectVars, file, handler, listenerVars,
                 serverRequested, saveVars>>

(* fireProjectLoaded: the first listener starts the publisher.  A thread can  *)
(* be started once: on every later load start() throws, after mustStop was    *)
(* reset, and the other listeners are not told.                             *)
FireProjectLoaded ==
  /\ fx = "fire"
  /\ fx' = "idle"
  /\ opened' = currentProject
  /\ mustStop' = FALSE
  /\ IF publisher = "new"
     THEN publisher' = "check" /\ saveEnabled' = TRUE
     ELSE UNCHANGED <<publisher, saveEnabled>>
  /\ UNCHANGED <<target, projectVars, file, handler, serverRequested, saveVars>>

(***************************************************************************)
(* create.                                                                 *)
(***************************************************************************)

(* create with load set. *)
BeginCreate(p) ==
  /\ fx = "idle" /\ ~TaskHolds
  /\ UnloadIfCurrent
  /\ fx' = "createHandler"
  /\ target' = p
  /\ UNCHANGED <<projectVars, file, handler, serverRequested, saveVars>>

(* The handler makes a project that has never been saved. *)
CreateProject ==
  /\ fx = "create"
  /\ currentProject' = target
  /\ model' = 0
  /\ created' = TRUE
  /\ spoiled' = TRUE
  /\ fx' = "save"
  /\ UNCHANGED <<target, changed, raced, file, handler, listenerVars,
                 serverRequested, saveVars>>

CreateFails ==
  /\ fx = "create"
  /\ fx' = "idle"
  /\ UNCHANGED <<target, projectVars, file, handler, listenerVars,
                 serverRequested, saveVars>>

(* ... which is saved at once. *)
SaveCreated ==
  /\ fx = "save"
  /\ file' = [file EXCEPT ![target] = model]
  /\ changed' = FALSE
  /\ raced' = FALSE /\ spoiled' = FALSE
  /\ fx' = "fire"
  /\ UNCHANGED <<target, currentProject, model, created, handler, listenerVars,
                 serverRequested, saveVars>>

(* The file cannot be opened, or written: the project is current and nobody   *)
(* is told.                                                                 *)
SaveCreatedFails ==
  /\ fx = "save"
  /\ file' \in {file, [file EXCEPT ![target] = Broken]}
  /\ fx' = "idle"
  /\ UNCHANGED <<target, projectVars, handler, listenerVars, serverRequested,
                 saveVars>>

(* create without load, for another instance, and createProject of the remote *)
(* service, which does not take the lock and goes on to load the project: the  *)
(* new project is saved, and that resets the monitor of the current one.      *)
CreateOther(p, remote) ==
  /\ fx = "idle"
  /\ TaskHolds => remote
  /\ file' = [file EXCEPT ![p] = 0]
  /\ changed' = FALSE
  /\ spoiled' = TRUE
  /\ fx' = IF remote THEN "remote" ELSE "idle"
  /\ target' = p
  /\ UNCHANGED <<currentProject, model, created, raced, handler, listenerVars,
                 serverRequested, saveVars>>

(* The file cannot be written once it was truncated; the user may have chosen *)
(* that of the current project.                                             *)
CreateOtherFails(p) ==
  /\ fx = "idle"
  /\ file' = [file EXCEPT ![p] = Broken]
  /\ spoiled' = (spoiled \/ p = currentProject)
  /\ UNCHANGED <<fx, target, currentProject, model, changed, created, raced,
                 handler, listenerVars, serverRequested, saveVars>>

(***************************************************************************)
(* Editing, saving and closing.                                            *)
(***************************************************************************)

(* The user changes a property that the ChangingMonitor listens to. *)
Edit ==
  /\ fx = "idle"
  /\ currentProject # NoProject
  /\ model < MaxEdits
  /\ model' = model + 1
  /\ changed' = TRUE
  /\ raced' = (raced \/ task \in {"write", "reset"})
  /\ UNCHANGED <<fx, target, currentProject, created, spoiled, file, handler,
                 listenerVars, serverRequested, saveVars>>

(* The Save item schedules a task. *)
RequestSave ==
  /\ fx = "idle"
  /\ saveEnabled
  /\ task = "idle"
  /\ task' = "asked"
  /\ UNCHANGED <<fx, target, projectVars, file, handler, listenerVars,
                 serverRequested, snapshot>>

(* save() takes the lock; there may be no project any more. *)
BeginSave ==
  /\ task = "asked" /\ ~FxHolds
  /\ task' = IF currentProject = NoProject THEN "idle" ELSE "serialize"
  /\ UNCHANGED <<fx, target, projectVars, file, handler, listenerVars,
                 serverRequested, snapshot>>

(* toXmlString *)
Serialize ==
  /\ task = "serialize"
  /\ task' = "write"
  /\ snapshot' = model
  /\ UNCHANGED <<fx, target, projectVars, file, handler, listenerVars,
                 serverRequested>>

Write ==
  /\ task = "write"
  /\ task' = "reset"
  /\ file' = [file EXCEPT ![currentProject] = snapshot]
  /\ raced' = (snapshot # model)
  /\ spoiled' = FALSE
  /\ UNCHANGED <<fx, target, currentProject, model, changed, created, handler,
                 listenerVars, serverRequested, snapshot>>

(* The file cannot be opened, or not be written once it was truncated. *)
WriteFails ==
  /\ task = "write"
  /\ task' = "idle"
  /\ \/ UNCHANGED <<file, spoiled>>
     \/ file' = [file EXCEPT ![currentProject] = Broken] /\ spoiled' = TRUE
  /\ UNCHANGED <<fx, target, currentProject, model, changed, created, raced,
                 handler, listenerVars, serverRequested, snapshot>>

(* ChangingMonitor.reset *)
ResetMonitor ==
  /\ task = "reset"
  /\ task' = "idle"
  /\ changed' = FALSE
  /\ UNCHANGED <<fx, target, currentProject, model, created, raced, spoiled,
                 file, handler, listenerVars, serverRequested, snapshot>>

(* The window is closed, after a SaveDialog if there are changes: the project *)
(* is unloaded by the window and again by the application, which disposes of  *)
(* the manager and of the handler.                                          *)
CloseApplication ==
  /\ fx = "idle" /\ ~TaskHolds
  /\ Unload
  /\ currentProject' = NoProject
  /\ handler' = FALSE
  /\ fx' = "exited"
  /\ UNCHANGED <<target, model, changed, created, raced, spoiled, file,
                 serverRequested, saveVars>>

(* The Save button of the SaveDialog: it saves, or fails to, like the task. *)
SaveInDialog ==
  /\ fx = "idle" /\ ~TaskHolds
  /\ changed /\ currentProject # NoProject
  /\ \/ /\ file' = [file EXCEPT ![currentProject] = model]
        /\ changed' = FALSE
        /\ raced' = FALSE /\ spoiled' = FALSE
     \/ /\ file' = [file EXCEPT ![currentProject] = Broken]
        /\ spoiled' = TRUE
        /\ UNCHANGED <<changed, raced>>
  /\ UNCHANGED <<fx, target, currentProject, model, created, handler,
                 listenerVars, serverRequested, saveVars>>

(***************************************************************************)
(* The publisher thread, which writes rpc.info every second.                *)
(***************************************************************************)

PublisherCheck ==
  /\ publisher = "check"
  /\ publisher' = IF mustStop THEN "ended" ELSE "sleep"
  /\ UNCHANGED <<fx, target, projectVars, file, handler, opened, saveEnabled,
                 mustStop, serverRequested, saveVars>>

(* After its sleep it asks for the project: without a handler, or without a   *)
(* project, it ends; else it asks again for the directory to write to.       *)
PublisherAsks ==
  /\ publisher \in {"sleep", "publish"}
  /\ ~FxHolds /\ ~TaskHolds
  /\ publisher' = IF ~handler \/ currentProject = NoProject THEN "ended"
                  ELSE IF publisher = "sleep" THEN "publish" ELSE "check"
  /\ UNCHANGED <<fx, target, projectVars, file, handler, opened, saveEnabled,
                 mustStop, serverRequested, saveVars>>

Next ==
  \/ \E p \in Projects : \/ LoadRefused(p) \/ BeginLoad(p) \/ BeginCreate(p)
                         \/ \E remote \in BOOLEAN : CreateOther(p, remote)
                         \/ CreateOtherFails(p)
  \/ LoadHandler("handler", "parse") \/ LoadHandler("createHandler", "create")
  \/ Parse \/ ParseFails \/ FireProjectLoaded
  \/ CreateProject \/ CreateFails \/ SaveCreated \/ SaveCreatedFails
  \/ Edit \/ RequestSave \/ SaveInDialog \/ CloseApplication
  \/ BeginSave \/ Serialize \/ Write \/ WriteFails \/ ResetMonitor
  \/ PublisherCheck \/ PublisherAsks

(* The thread of the publisher and those that hold the lock go on; the        *)
(* publisher gets the lock in the end though others take it between.         *)
Fairness ==
  /\ WF_vars(PublisherCheck)
  /\ SF_vars(PublisherAsks)
  /\ WF_vars(LoadHandler("handler", "parse"))
  /\ WF_vars(LoadHandler("createHandler", "create"))
  /\ WF_vars(Parse \/ ParseFails) /\ WF_vars(FireProjectLoaded)
  /\ WF_vars(CreateProject \/ CreateFails)
  /\ WF_vars(SaveCreated \/ SaveCreatedFails)
  /\ WF_vars(Serialize) /\ WF_vars(Write \/ WriteFails) /\ WF_vars(ResetMonitor)

Spec == Init /\ [][Next]_vars /\ Fairness

(***************************************************************************)
(* Correctness.                                                            *)
(***************************************************************************)

(* Whatever fails in load and create, a listener is told of a project only    *)
(* after it was told that the previous one was closed.                       *)
S == INSTANCE ProjectSession WITH open <- opened
KeepsSession == S!Session

(* What ProjectStage relies on when it closes without asking: while          *)
(* ChangingMonitor says that nothing is changed, the file holds the current   *)
(* project, unless an edit raced a save, a failed save truncated the file, or *)
(* the creation of another project reset the monitor.                        *)
UnsavedIsMarked ==
  currentProject # NoProject /\ ~changed =>
    file[currentProject] = model \/ raced \/ spoiled

(* A project is never open without a resources server having been asked for,  *)
(* unless create, which does not ask for one, made a project the current one. *)
ServedUnlessCreated == opened # NoProject => serverRequested \/ created

(* The Save item is enabled only while a project is open, and saves that one: *)
(* this though listeners are left out when the publisher cannot be started.  *)
SaveFollowsOpen == saveEnabled => opened # NoProject /\ opened = currentProject

(* When no project is open any more, closed or failed to load, the publisher  *)
(* thread ends.                                                             *)
PublisherStops ==
  <>[](opened = NoProject) => <>[](publisher \in {"new", "ended"})

(* What every state of the manager satisfies. *)
ProjectIsSound == TypeOK /\ UnsavedIsMarked /\ ServedUnlessCreated /\ SaveFollowsOpen

===============================================================================
