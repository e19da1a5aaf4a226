------------------------- MODULE ProjectManagerProofs -------------------------
(***************************************************************************)
(* Proofs about ProjectManager for any projects and any number of edits.    *)
(***************************************************************************)
EXTENDS ProjectManager, TLAPS

(* The inductive invariant.  A task that saves has a project to save, and     *)
(* load and create keep out of its way.                                     *)
SaveInv == TaskHolds => currentProject # NoProject /\ ~FxHolds

(* Nothing is open while a project is loaded or created. *)
OpenInv ==
  /\ opened # NoProject => opened = currentProject
  /\ FxHolds => opened = NoProject
  /\ saveEnabled => opened # NoProject

(* What load and create have found out so far stays true to their end. *)
LoadInv ==
  /\ fx \in {"handler", "parse"} =>
       file[target] # Broken /\ (serverRequested \/ created)
  /\ fx = "save" => currentProject = target /\ spoiled
  /\ fx = "fire" => currentProject # NoProject

ServedInv == currentProject # NoProject => serverRequested \/ created

(* UnsavedIsMarked as it will be after the monitor was reset. *)
ResetInv ==
  task = "reset" => file[currentProject] = model \/ raced \/ spoiled

IInv == /\ TypeOK
        /\ SaveInv
        /\ OpenInv
        /\ LoadInv
        /\ ServedInv
        /\ UnsavedIsMarked
        /\ ResetInv

LEMMA InitInv == Init => IInv
  <1> SUFFICES ASSUME Init PROVE IInv
    OBVIOUS
  <1>1. TypeOK
    <2>1. 0 \in Contents
      BY ContentsAssumption DEF Contents
    <2> QED
      BY <2>1 DEF Init, TypeOK
  <1>2. SaveInv /\ OpenInv /\ LoadInv
    BY DEF Init, SaveInv, OpenInv, LoadInv, TaskHolds, FxHolds, InManager
  <1>3. ServedInv /\ UnsavedIsMarked /\ ResetInv
    BY DEF Init, ServedInv, UnsavedIsMarked, ResetInv
  <1> QED
    BY <1>1, <1>2, <1>3 DEF IInv

(* A load that is refused changes nothing but what the thread is at. *)
LEMMA LoadRefusedKeeps ==
  ASSUME IInv, NEW p \in Projects, LoadRefused(p)
  PROVE  IInv'
  <1> USE DEF IInv, LoadRefused, CanLoad, projectVars, listenerVars, saveVars,
              FxHolds, TaskHolds, InManager
  <1>1. TypeOK'
    <2>1. /\ fx' \in InManager \cup {"idle", "remote", "exited"}
          /\ target' \in Projects
          /\ currentProject' \in Projects \cup {NoProject}
          /\ opened' \in Projects \cup {NoProject}
      BY DEF TypeOK
    <2>2. /\ model' \in Contents /\ snapshot' \in Contents
          /\ file' \in [Projects -> Contents \cup {Broken}]
      BY ContentsAssumption DEF TypeOK, Contents, SaveInv, LoadInv
    <2>3. /\ changed' \in BOOLEAN /\ handler' \in BOOLEAN
          /\ saveEnabled' \in BOOLEAN /\ serverRequested' \in BOOLEAN
          /\ mustStop' \in BOOLEAN /\ created' \in BOOLEAN
          /\ raced' \in BOOLEAN /\ spoiled' \in BOOLEAN
      BY DEF TypeOK
    <2>4. /\ task' \in {"idle", "asked", "serialize", "write", "reset"}
          /\ publisher' \in {"new", "check", "sleep", "publish", "ended"}
      BY DEF TypeOK
    <2> QED
      BY <2>1, <2>2, <2>3, <2>4 DEF TypeOK
  <1>2. SaveInv' /\ OpenInv'
    BY DEF TypeOK, SaveInv, OpenInv, LoadInv
  <1>3. LoadInv' /\ ServedInv'
    BY NoProjectAssumption DEF TypeOK, SaveInv, LoadInv, ServedInv
  <1>4. UnsavedIsMarked' /\ ResetInv'
    BY DEF TypeOK, SaveInv, LoadInv, UnsavedIsMarked, ResetInv
  <1> QED
    BY <1>1, <1>2, <1>3, <1>4

(* A load begins with nothing open and a file that can be read. *)
LEMMA BeginLoadKeeps ==
  ASSUME IInv, NEW p \in Projects, BeginLoad(p)
  PROVE  IInv'
  <1> USE DEF IInv, BeginLoad, CanLoad, UnloadIfCurrent, Unload, projectVars, listenerVars, saveVars,
              FxHolds, TaskHolds, InManager
  <1>1. TypeOK'
    <2>1. /\ fx' \in InManager \cup {"idle", "remote", "exited"}
          /\ target' \in Projects
          /\ currentProject' \in Projects \cup {NoProject}
          /\ opened' \in Projects \cup {NoProject}
      BY DEF TypeOK
    <2>2. /\ model' \in Contents /\ snapshot' \in Contents
          /\ file' \in [Projects -> Contents \cup {Broken}]
      BY ContentsAssumption DEF TypeOK, Contents, SaveInv, LoadInv
    <2>3. /\ changed' \in BOOLEAN /\ handler' \in BOOLEAN
          /\ saveEnabled' \in BOOLEAN /\ serverRequested' \in BOOLEAN
          /\ mustStop' \in BOOLEAN /\ created' \in BOOLEAN
          /\ raced' \in BOOLEAN /\ spoiled' \in BOOLEAN
      BY DEF TypeOK
    <2>4. /\ task' \in {"idle", "asked", "serialize", "write", "reset"}
          /\ publisher' \in {"new", "check", "sleep", "publish", "ended"}
      BY DEF TypeOK
    <2> QED
      BY <2>1, <2>2, <2>3, <2>4 DEF TypeOK
  <1>2. SaveInv' /\ OpenInv'
    BY DEF TypeOK, SaveInv, OpenInv, LoadInv
  <1>3. LoadInv' /\ ServedInv'
    BY NoProjectAssumption DEF TypeOK, SaveInv, LoadInv, ServedInv
  <1>4. UnsavedIsMarked' /\ ResetInv'
    BY DEF TypeOK, SaveInv, LoadInv, UnsavedIsMarked, ResetInv
  <1> QED
    BY <1>1, <1>2, <1>3, <1>4

(* So does a creation. *)
LEMMA BeginCreateKeeps ==
  ASSUME IInv, NEW p \in Projects, BeginCreate(p)
  PROVE  IInv'
  <1> USE DEF IInv, BeginCreate, UnloadIfCurrent, Unload, projectVars, listenerVars, saveVars,
              FxHolds, TaskHolds, InManager
  <1>1. TypeOK'
    <2>1. /\ fx' \in InManager \cup {"idle", "remote", "exited"}
          /\ target' \in Projects
          /\ currentProject' \in Projects \cup {NoProject}
          /\ opened' \in Projects \cup {NoProject}
      BY DEF TypeOK
    <2>2. /\ model' \in Contents /\ snapshot' \in Contents
          /\ file' \in [Projects -> Contents \cup {Broken}]
      BY ContentsAssumption DEF TypeOK, Contents, SaveInv, LoadInv
    <2>3. /\ changed' \in BOOLEAN /\ handler' \in BOOLEAN
          /\ saveEnabled' \in BOOLEAN /\ serverRequested' \in BOOLEAN
          /\ mustStop' \in BOOLEAN /\ created' \in BOOLEAN
          /\ raced' \in BOOLEAN /\ spoiled' \in BOOLEAN
      BY DEF TypeOK
    <2>4. /\ task' \in {"idle", "asked", "serialize", "write", "reset"}
          /\ publisher' \in {"new", "check", "sleep", "publish", "ended"}
      BY DEF TypeOK
    <2> QED
      BY <2>1, <2>2, <2>3, <2>4 DEF TypeOK
  <1>2. SaveInv' /\ OpenInv'
    BY DEF TypeOK, SaveInv, OpenInv, LoadInv
  <1>3. LoadInv' /\ ServedInv'
    BY NoProjectAssumption DEF TypeOK, SaveInv, LoadInv, ServedInv
  <1>4. UnsavedIsMarked' /\ ResetInv'
    BY DEF TypeOK, SaveInv, LoadInv, UnsavedIsMarked, ResetInv
  <1> QED
    BY <1>1, <1>2, <1>3, <1>4

(* Loading the handler on behalf of load. *)
LEMMA LoadHandlerKeeps ==
  ASSUME IInv, LoadHandler("handler", "parse")
  PROVE  IInv'
  <1> USE DEF IInv, LoadHandler, projectVars, listenerVars, saveVars,
              FxHolds, TaskHolds, InManager
  <1>1. TypeOK'
    <2>1. /\ fx' \in InManager \cup {"idle", "remote", "exited"}
          /\ target' \in Projects
          /\ currentProject' \in Projects \cup {NoProject}
          /\ opened' \in Projects \cup {NoProject}
      BY DEF TypeOK
    <2>2. /\ model' \in Contents /\ snapshot' \in Contents
          /\ file' \in [Projects -> Contents \cup {Broken}]
      BY ContentsAssumption DEF TypeOK, Contents, SaveInv, LoadInv
    <2>3. /\ changed' \in BOOLEAN /\ handler' \in BOOLEAN
          /\ saveEnabled' \in BOOLEAN /\ serverRequested' \in BOOLEAN
          /\ mustStop' \in BOOLEAN /\ created' \in BOOLEAN
          /\ raced' \in BOOLEAN /\ spoiled' \in BOOLEAN
      BY DEF TypeOK
    <2>4. /\ task' \in {"idle", "asked", "serialize", "write", "reset"}
          /\ publisher' \in {"new", "check", "sleep", "publish", "ended"}
      BY DEF TypeOK
    <2> QED
      BY <2>1, <2>2, <2>3, <2>4 DEF TypeOK
  <1>2. SaveInv' /\ OpenInv'
    BY DEF TypeOK, SaveInv, OpenInv, LoadInv
  <1>3. LoadInv' /\ ServedInv'
    BY NoProjectAssumption DEF TypeOK, SaveInv, LoadInv, ServedInv
  <1>4. UnsavedIsMarked' /\ ResetInv'
    BY DEF TypeOK, SaveInv, LoadInv, UnsavedIsMarked, ResetInv
  <1> QED
    BY <1>1, <1>2, <1>3, <1>4

(* Loading the handler on behalf of create. *)
LEMMA CreateHandlerKeeps ==
  ASSUME IInv, LoadHandler("createHandler", "create")
  PROVE  IInv'
  <1> USE DEF IInv, LoadHandler, projectVars, listenerVars, saveVars,
              FxHolds, TaskHolds, InManager
  <1>1. TypeOK'
    <2>1. /\ fx' \in InManager \cup {"idle", "remote", "exited"}
          /\ target' \in Projects
          /\ currentProject' \in Projects \cup {NoProject}
          /\ opened' \in Projects \cup {NoProject}
      BY DEF TypeOK
    <2>2. /\ model' \in Contents /\ snapshot' \in Contents
          /\ file' \in [Projects -> Contents \cup {Broken}]
      BY ContentsAssumption DEF TypeOK, Contents, SaveInv, LoadInv
    <2>3. /\ changed' \in BOOLEAN /\ handler' \in BOOLEAN
          /\ saveEnabled' \in BOOLEAN /\ serverRequested' \in BOOLEAN
          /\ mustStop' \in BOOLEAN /\ created' \in BOOLEAN
          /\ raced' \in BOOLEAN /\ spoiled' \in BOOLEAN
      BY DEF TypeOK
    <2>4. /\ task' \in {"idle", "asked", "serialize", "write", "reset"}
          /\ publisher' \in {"new", "check", "sleep", "publish", "ended"}
      BY DEF TypeOK
    <2> QED
      BY <2>1, <2>2, <2>3, <2>4 DEF TypeOK
  <1>2. SaveInv' /\ OpenInv'
    BY DEF TypeOK, SaveInv, OpenInv, LoadInv
  <1>3. LoadInv' /\ ServedInv'
    BY NoProjectAssumption DEF TypeOK, SaveInv, LoadInv, ServedInv
  <1>4. UnsavedIsMarked' /\ ResetInv'
    BY DEF TypeOK, SaveInv, LoadInv, UnsavedIsMarked, ResetInv
  <1> QED
    BY <1>1, <1>2, <1>3, <1>4

(* The project that was parsed is what its file holds. *)
LEMMA ParseKeeps ==
  ASSUME IInv, Parse
  PROVE  IInv'
  <1> USE DEF IInv, Parse, projectVars, listenerVars, saveVars,
              FxHolds, TaskHolds, InManager
  <1>1. TypeOK'
    <2>1. /\ fx' \in InManager \cup {"idle", "remote", "exited"}
          /\ target' \in Projects
          /\ currentProject' \in Projects \cup {NoProject}
          /\ opened' \in Projects \cup {NoProject}
      BY DEF TypeOK
    <2>2. /\ model' \in Contents /\ snapshot' \in Contents
          /\ file' \in [Projects -> Contents \cup {Broken}]
      BY ContentsAssumption DEF TypeOK, Contents, SaveInv, LoadInv
    <2>3. /\ changed' \in BOOLEAN /\ handler' \in BOOLEAN
          /\ saveEnabled' \in BOOLEAN /\ serverRequested' \in BOOLEAN
          /\ mustStop' \in BOOLEAN /\ created' \in BOOLEAN
          /\ raced' \in BOOLEAN /\ spoiled' \in BOOLEAN
      BY DEF TypeOK
    <2>4. /\ task' \in {"idle", "asked", "serialize", "write", "reset"}
          /\ publisher' \in {"new", "check", "sleep", "publish", "ended"}
      BY DEF TypeOK
    <2> QED
      BY <2>1, <2>2, <2>3, <2>4 DEF TypeOK
  <1>2. SaveInv' /\ OpenInv'
    BY DEF TypeOK, SaveInv, OpenInv, LoadInv
  <1>3. LoadInv' /\ ServedInv'
    BY NoProjectAssumption DEF TypeOK, SaveInv, LoadInv, ServedInv
  <1>4. UnsavedIsMarked' /\ ResetInv'
    BY DEF TypeOK, SaveInv, LoadInv, UnsavedIsMarked, ResetInv
  <1> QED
    BY <1>1, <1>2, <1>3, <1>4

(* The file cannot be parsed. *)
LEMMA ParseFailsKeeps ==
  ASSUME IInv, ParseFails
  PROVE  IInv'
  <1> USE DEF IInv, ParseFails, projectVars, listenerVars, saveVars,
              FxHolds, TaskHolds, InManager
  <1>1. TypeOK'
    <2>1. /\ fx' \in InManager \cup {"idle", "remote", "exited"}
          /\ target' \in Projects
          /\ currentProject' \in Projects \cup {NoProject}
          /\ opened' \in Projects \cup {NoProject}
      BY DEF TypeOK
    <2>2. /\ model' \in Contents /\ snapshot' \in Contents
          /\ file' \in [Projects -> Contents \cup {Broken}]
      BY ContentsAssumption DEF TypeOK, Contents, SaveInv, LoadInv
    <2>3. /\ changed' \in BOOLEAN /\ handler' \in BOOLEAN
          /\ saveEnabled' \in BOOLEAN /\ serverRequested' \in BOOLEAN
          /\ mustStop' \in BOOLEAN /\ created' \in BOOLEAN
          /\ raced' \in BOOLEAN /\ spoiled' \in BOOLEAN
      BY DEF TypeOK
    <2>4. /\ task' \in {"idle", "asked", "serialize", "write", "reset"}
          /\ publisher' \in {"new", "check", "sleep", "publish", "ended"}
      BY DEF TypeOK
    <2> QED
      BY <2>1, <2>2, <2>3, <2>4 DEF TypeOK
  <1>2. SaveInv' /\ OpenInv'
    BY DEF TypeOK, SaveInv, OpenInv, LoadInv
  <1>3. LoadInv' /\ ServedInv'
    BY NoProjectAssumption DEF TypeOK, SaveInv, LoadInv, ServedInv
  <1>4. UnsavedIsMarked' /\ ResetInv'
    BY DEF TypeOK, SaveInv, LoadInv, UnsavedIsMarked, ResetInv
  <1> QED
    BY <1>1, <1>2, <1>3, <1>4

(* The listeners are told of the current project. *)
LEMMA FireKeeps ==
  ASSUME IInv, FireProjectLoaded
  PROVE  IInv'
  <1> USE DEF IInv, FireProjectLoaded, projectVars, listenerVars, saveVars,
              FxHolds, TaskHolds, InManager
  <1>1. TypeOK'
    <2>1. /\ fx' \in InManager \cup {"idle", "remote", "exited"}
          /\ target' \in Projects
          /\ currentProject' \in Projects \cup {NoProject}
          /\ opened' \in Projects \cup {NoProject}
      BY DEF TypeOK
    <2>2. /\ model' \in Contents /\ snapshot' \in Contents
          /\ file' \in [Projects -> Contents \cup {Broken}]
      BY ContentsAssumption DEF TypeOK, Contents, SaveInv, LoadInv
    <2>3. /\ changed' \in BOOLEAN /\ handler' \in BOOLEAN
          /\ saveEnabled' \in BOOLEAN /\ serverRequested' \in BOOLEAN
          /\ mustStop' \in BOOLEAN /\ created' \in BOOLEAN
          /\ raced' \in BOOLEAN /\ spoiled' \in BOOLEAN
      BY DEF TypeOK
    <2>4. /\ task' \in {"idle", "asked", "serialize", "write", "reset"}
          /\ publisher' \in {"new", "check", "sleep", "publish", "ended"}
      BY DEF TypeOK
    <2> QED
      BY <2>1, <2>2, <2>3, <2>4 DEF TypeOK
  <1>2. SaveInv' /\ OpenInv'
    BY DEF TypeOK, SaveInv, OpenInv, LoadInv
  <1>3. LoadInv' /\ ServedInv'
    BY NoProjectAssumption DEF TypeOK, SaveInv, LoadInv, ServedInv
  <1>4. UnsavedIsMarked' /\ ResetInv'
    BY DEF TypeOK, SaveInv, LoadInv, UnsavedIsMarked, ResetInv
  <1> QED
    BY <1>1, <1>2, <1>3, <1>4

(* The handler creates a project. *)
LEMMA CreateKeeps ==
  ASSUME IInv, CreateProject
  PROVE  IInv'
  <1> USE DEF IInv, CreateProject, projectVars, listenerVars, saveVars,
              FxHolds, TaskHolds, InManager
  <1>1. TypeOK'
    <2>1. /\ fx' \in InManager \cup {"idle", "remote", "exited"}
          /\ target' \in Projects
          /\ currentProject' \in Projects \cup {NoProject}
          /\ opened' \in Projects \cup {NoProject}
      BY DEF TypeOK
    <2>2. /\ model' \in Contents /\ snapshot' \in Contents
          /\ file' \in [Projects -> Contents \cup {Broken}]
      BY ContentsAssumption DEF TypeOK, Contents, SaveInv, LoadInv
    <2>3. /\ changed' \in BOOLEAN /\ handler' \in BOOLEAN
          /\ saveEnabled' \in BOOLEAN /\ serverRequested' \in BOOLEAN
          /\ mustStop' \in BOOLEAN /\ created' \in BOOLEAN
          /\ raced' \in BOOLEAN /\ spoiled' \in BOOLEAN
      BY DEF TypeOK
    <2>4. /\ task' \in {"idle", "asked", "serialize", "write", "reset"}
          /\ publisher' \in {"new", "check", "sleep", "publish", "ended"}
      BY DEF TypeOK
    <2> QED
      BY <2>1, <2>2, <2>3, <2>4 DEF TypeOK
  <1>2. SaveInv' /\ OpenInv'
    BY DEF TypeOK, SaveInv, OpenInv, LoadInv
  <1>3. LoadInv' /\ ServedInv'
    BY NoProjectAssumption DEF TypeOK, SaveInv, LoadInv, ServedInv
  <1>4. UnsavedIsMarked' /\ ResetInv'
    BY DEF TypeOK, SaveInv, LoadInv, UnsavedIsMarked, ResetInv
  <1> QED
    BY <1>1, <1>2, <1>3, <1>4

(* The handler cannot create the project. *)
LEMMA CreateFailsKeeps ==
  ASSUME IInv, CreateFails
  PROVE  IInv'
  <1> USE DEF IInv, CreateFails, projectVars, listenerVars, saveVars,
              FxHolds, TaskHolds, InManager
  <1>1. TypeOK'
    <2>1. /\ fx' \in InManager \cup {"idle", "remote", "exited"}
          /\ target' \in Projects
          /\ currentProject' \in Projects \cup {NoProject}
          /\ opened' \in Projects \cup {NoProject}
      BY DEF TypeOK
    <2>2. /\ model' \in Contents /\ snapshot' \in Contents
          /\ file' \in [Projects -> Contents \cup {Broken}]
      BY ContentsAssumption DEF TypeOK, Contents, SaveInv, LoadInv
    <2>3. /\ changed' \in BOOLEAN /\ handler' \in BOOLEAN
          /\ saveEnabled' \in BOOLEAN /\ serverRequested' \in BOOLEAN
          /\ mustStop' \in BOOLEAN /\ created' \in BOOLEAN
          /\ raced' \in BOOLEAN /\ spoiled' \in BOOLEAN
      BY DEF TypeOK
    <2>4. /\ task' \in {"idle", "asked", "serialize", "write", "reset"}
          /\ publisher' \in {"new", "check", "sleep", "publish", "ended"}
      BY DEF TypeOK
    <2> QED
      BY <2>1, <2>2, <2>3, <2>4 DEF TypeOK
  <1>2. SaveInv' /\ OpenInv'
    BY DEF TypeOK, SaveInv, OpenInv, LoadInv
  <1>3. LoadInv' /\ ServedInv'
    BY NoProjectAssumption DEF TypeOK, SaveInv, LoadInv, ServedInv
  <1>4. UnsavedIsMarked' /\ ResetInv'
    BY DEF TypeOK, SaveInv, LoadInv, UnsavedIsMarked, ResetInv
  <1> QED
    BY <1>1, <1>2, <1>3, <1>4

(* The created project is saved. *)
LEMMA SaveCreatedKeeps ==
  ASSUME IInv, SaveCreated
  PROVE  IInv'
  <1> USE DEF IInv, SaveCreated, projectVars, listenerVars, saveVars,
              FxHolds, TaskHolds, InManager
  <1>1. TypeOK'
    <2>1. /\ fx' \in InManager \cup {"idle", "remote", "exited"}
          /\ target' \in Projects
          /\ currentProject' \in Projects \cup {NoProject}
          /\ opened' \in Projects \cup {NoProject}
      BY DEF TypeOK
    <2>2. /\ model' \in Contents /\ snapshot' \in Contents
          /\ file' \in [Projects -> Contents \cup {Broken}]
      BY ContentsAssumption DEF TypeOK, Contents, SaveInv, LoadInv
    <2>3. /\ changed' \in BOOLEAN /\ handler' \in BOOLEAN
          /\ saveEnabled' \in BOOLEAN /\ serverRequested' \in BOOLEAN
          /\ mustStop' \in BOOLEAN /\ created' \in BOOLEAN
          /\ raced' \in BOOLEAN /\ spoiled' \in BOOLEAN
      BY DEF TypeOK
    <2>4. /\ task' \in {"idle", "asked", "serialize", "write", "reset"}
          /\ publisher' \in {"new", "check", "sleep", "publish", "ended"}
      BY DEF TypeOK
    <2> QED
      BY <2>1, <2>2, <2>3, <2>4 DEF TypeOK
  <1>2. SaveInv' /\ OpenInv'
    BY DEF TypeOK, SaveInv, OpenInv, LoadInv
  <1>3. LoadInv' /\ ServedInv'
    BY NoProjectAssumption DEF TypeOK, SaveInv, LoadInv, ServedInv
  <1>4. UnsavedIsMarked' /\ ResetInv'
    BY DEF TypeOK, SaveInv, LoadInv, UnsavedIsMarked, ResetInv
  <1> QED
    BY <1>1, <1>2, <1>3, <1>4

(* The created project cannot be saved. *)
LEMMA SaveCreatedFailsKeeps ==
  ASSUME IInv, SaveCreatedFails
  PROVE  IInv'
  <1> USE DEF IInv, SaveCreatedFails, projectVars, listenerVars, saveVars,
              FxHolds, TaskHolds, InManager
  <1>1. TypeOK'
    <2>1. /\ fx' \in InManager \cup {"idle", "remote", "exited"}
          /\ target' \in Projects
          /\ currentProject' \in Projects \cup {NoProject}
          /\ opened' \in Projects \cup {NoProject}
      BY DEF TypeOK
    <2>2. /\ model' \in Contents /\ snapshot' \in Contents
          /\ file' \in [Projects -> Contents \cup {Broken}]
      BY ContentsAssumption DEF TypeOK, Contents, SaveInv, LoadInv
    <2>3. /\ changed' \in BOOLEAN /\ handler' \in BOOLEAN
          /\ saveEnabled' \in BOOLEAN /\ serverRequested' \in BOOLEAN
          /\ mustStop' \in BOOLEAN /\ created' \in BOOLEAN
          /\ raced' \in BOOLEAN /\ spoiled' \in BOOLEAN
      BY DEF TypeOK
    <2>4. /\ task' \in {"idle", "asked", "serialize", "write", "reset"}
          /\ publisher' \in {"new", "check", "sleep", "publish", "ended"}
      BY DEF TypeOK
    <2> QED
      BY <2>1, <2>2, <2>3, <2>4 DEF TypeOK
  <1>2. SaveInv' /\ OpenInv'
    BY DEF TypeOK, SaveInv, OpenInv, LoadInv
  <1>3. LoadInv' /\ ServedInv'
    BY NoProjectAssumption DEF TypeOK, SaveInv, LoadInv, ServedInv
  <1>4. UnsavedIsMarked' /\ ResetInv'
    BY DEF TypeOK, SaveInv, LoadInv, UnsavedIsMarked, ResetInv
  <1> QED
    BY <1>1, <1>2, <1>3, <1>4

(* Creating another project. *)
LEMMA CreateOtherKeeps ==
  ASSUME IInv, NEW p \in Projects, NEW r \in BOOLEAN, CreateOther(p, r)
  PROVE  IInv'
  <1> USE DEF IInv, CreateOther, projectVars, listenerVars, saveVars,
              FxHolds, TaskHolds, InManager
  <1>1. TypeOK'
    <2>1. /\ fx' \in InManager \cup {"idle", "remote", "exited"}
          /\ target' \in Projects
          /\ currentProject' \in Projects \cup {NoProject}
          /\ opened' \in Projects \cup {NoProject}
      BY DEF TypeOK
    <2>2. /\ model' \in Contents /\ snapshot' \in Contents
          /\ file' \in [Projects -> Contents \cup {Broken}]
      BY ContentsAssumption DEF TypeOK, Contents, SaveInv, LoadInv
    <2>3. /\ changed' \in BOOLEAN /\ handler' \in BOOLEAN
          /\ saveEnabled' \in BOOLEAN /\ serverRequested' \in BOOLEAN
          /\ mustStop' \in BOOLEAN /\ created' \in BOOLEAN
          /\ raced' \in BOOLEAN /\ spoiled' \in BOOLEAN
      BY DEF TypeOK
    <2>4. /\ task' \in {"idle", "asked", "serialize", "write", "reset"}
          /\ publisher' \in {"new", "check", "sleep", "publish", "ended"}
      BY DEF TypeOK
    <2> QED
      BY <2>1, <2>2, <2>3, <2>4 DEF TypeOK
  <1>2. SaveInv' /\ OpenInv'
    BY DEF TypeOK, SaveInv, OpenInv, LoadInv
  <1>3. LoadInv' /\ ServedInv'
    BY NoProjectAssumption DEF TypeOK, SaveInv, LoadInv, ServedInv
  <1>4. UnsavedIsMarked' /\ ResetInv'
    BY DEF TypeOK, SaveInv, LoadInv, UnsavedIsMarked, ResetInv
  <1> QED
    BY <1>1, <1>2, <1>3, <1>4

(* Another project cannot be created. *)
LEMMA CreateOtherFailsKeeps ==
  ASSUME IInv, NEW p \in Projects, CreateOtherFails(p)
  PROVE  IInv'
  <1> USE DEF IInv, CreateOtherFails, projectVars, listenerVars, saveVars,
              FxHolds, TaskHolds, InManager
  <1>1. TypeOK'
    <2>1. /\ fx' \in InManager \cup {"idle", "remote", "exited"}
          /\ target' \in Projects
          /\ currentProject' \in Projects \cup {NoProject}
          /\ opened' \in Projects \cup {NoProject}
      BY DEF TypeOK
    <2>2. /\ model' \in Contents /\ snapshot' \in Contents
          /\ file' \in [Projects -> Contents \cup {Broken}]
      BY ContentsAssumption DEF TypeOK, Contents, SaveInv, LoadInv
    <2>3. /\ changed' \in BOOLEAN /\ handler' \in BOOLEAN
          /\ saveEnabled' \in BOOLEAN /\ serverRequested' \in BOOLEAN
          /\ mustStop' \in BOOLEAN /\ created' \in BOOLEAN
          /\ raced' \in BOOLEAN /\ spoiled' \in BOOLEAN
      BY DEF TypeOK
    <2>4. /\ task' \in {"idle", "asked", "serialize", "write", "reset"}
          /\ publisher' \in {"new", "check", "sleep", "publish", "ended"}
      BY DEF TypeOK
    <2> QED
      BY <2>1, <2>2, <2>3, <2>4 DEF TypeOK
  <1>2. SaveInv' /\ OpenInv'
    BY DEF TypeOK, SaveInv, OpenInv, LoadInv
  <1>3. LoadInv' /\ ServedInv'
    BY NoProjectAssumption DEF TypeOK, SaveInv, LoadInv, ServedInv
  <1>4. UnsavedIsMarked' /\ ResetInv'
    BY DEF TypeOK, SaveInv, LoadInv, UnsavedIsMarked, ResetInv
  <1> QED
    BY <1>1, <1>2, <1>3, <1>4

(* An edit is marked, and remembered if it races a save. *)
LEMMA EditKeeps ==
  ASSUME IInv, Edit
  PROVE  IInv'
  <1> USE DEF IInv, Edit, projectVars, listenerVars, saveVars,
              FxHolds, TaskHolds, InManager
  <1>1. TypeOK'
    <2>1. /\ fx' \in InManager \cup {"idle", "remote", "exited"}
          /\ target' \in Projects
          /\ currentProject' \in Projects \cup {NoProject}
          /\ opened' \in Projects \cup {NoProject}
      BY DEF TypeOK
    <2>2. /\ model' \in Contents /\ snapshot' \in Contents
          /\ file' \in [Projects -> Contents \cup {Broken}]
      BY ContentsAssumption DEF TypeOK, Contents, SaveInv, LoadInv
    <2>3. /\ changed' \in BOOLEAN /\ handler' \in BOOLEAN
          /\ saveEnabled' \in BOOLEAN /\ serverRequested' \in BOOLEAN
          /\ mustStop' \in BOOLEAN /\ created' \in BOOLEAN
          /\ raced' \in BOOLEAN /\ spoiled' \in BOOLEAN
      BY DEF TypeOK
    <2>4. /\ task' \in {"idle", "asked", "serialize", "write", "reset"}
          /\ publisher' \in {"new", "check", "sleep", "publish", "ended"}
      BY DEF TypeOK
    <2> QED
      BY <2>1, <2>2, <2>3, <2>4 DEF TypeOK
  <1>2. SaveInv' /\ OpenInv'
    BY DEF TypeOK, SaveInv, OpenInv, LoadInv
  <1>3. LoadInv' /\ ServedInv'
    BY NoProjectAssumption DEF TypeOK, SaveInv, LoadInv, ServedInv
  <1>4. UnsavedIsMarked' /\ ResetInv'
    BY DEF TypeOK, SaveInv, LoadInv, UnsavedIsMarked, ResetInv
  <1> QED
    BY <1>1, <1>2, <1>3, <1>4

(* A save is requested. *)
LEMMA RequestSaveKeeps ==
  ASSUME IInv, RequestSave
  PROVE  IInv'
  <1> USE DEF IInv, RequestSave, projectVars, listenerVars, saveVars,
              FxHolds, TaskHolds, InManager
  <1>1. TypeOK'
    <2>1. /\ fx' \in InManager \cup {"idle", "remote", "exited"}
          /\ target' \in Projects
          /\ currentProject' \in Projects \cup {NoProject}
          /\ opened' \in Projects \cup {NoProject}
      BY DEF TypeOK
    <2>2. /\ model' \in Contents /\ snapshot' \in Contents
          /\ file' \in [Projects -> Contents \cup {Broken}]
      BY ContentsAssumption DEF TypeOK, Contents, SaveInv, LoadInv
    <2>3. /\ changed' \in BOOLEAN /\ handler' \in BOOLEAN
          /\ saveEnabled' \in BOOLEAN /\ serverRequested' \in BOOLEAN
          /\ mustStop' \in BOOLEAN /\ created' \in BOOLEAN
          /\ raced' \in BOOLEAN /\ spoiled' \in BOOLEAN
      BY DEF TypeOK
    <2>4. /\ task' \in {"idle", "asked", "serialize", "write", "reset"}
          /\ publisher' \in {"new", "check", "sleep", "publish", "ended"}
      BY DEF TypeOK
    <2> QED
      BY <2>1, <2>2, <2>3, <2>4 DEF TypeOK
  <1>2. SaveInv' /\ OpenInv'
    BY DEF TypeOK, SaveInv, OpenInv, LoadInv
  <1>3. LoadInv' /\ ServedInv'
    BY NoProjectAssumption DEF TypeOK, SaveInv, LoadInv, ServedInv
  <1>4. UnsavedIsMarked' /\ ResetInv'
    BY DEF TypeOK, SaveInv, LoadInv, UnsavedIsMarked, ResetInv
  <1> QED
    BY <1>1, <1>2, <1>3, <1>4

(* The dialog saves the project. *)
LEMMA SaveInDialogKeeps ==
  ASSUME IInv, SaveInDialog
  PROVE  IInv'
  <1> USE DEF IInv, SaveInDialog, projectVars, listenerVars, saveVars,
              FxHolds, TaskHolds, InManager
  <1>1. TypeOK'
    <2>1. /\ fx' \in InManager \cup {"idle", "remote", "exited"}
          /\ target' \in Projects
          /\ currentProject' \in Projects \cup {NoProject}
          /\ opened' \in Projects \cup {NoProject}
      BY DEF TypeOK
    <2>2. /\ model' \in Contents /\ snapshot' \in Contents
          /\ file' \in [Projects -> Contents \cup {Broken}]
      BY ContentsAssumption DEF TypeOK, Contents, SaveInv, LoadInv
    <2>3. /\ changed' \in BOOLEAN /\ handler' \in BOOLEAN
          /\ saveEnabled' \in BOOLEAN /\ serverRequested' \in BOOLEAN
          /\ mustStop' \in BOOLEAN /\ created' \in BOOLEAN
          /\ raced' \in BOOLEAN /\ spoiled' \in BOOLEAN
      BY DEF TypeOK
    <2>4. /\ task' \in {"idle", "asked", "serialize", "write", "reset"}
          /\ publisher' \in {"new", "check", "sleep", "publish", "ended"}
      BY DEF TypeOK
    <2> QED
      BY <2>1, <2>2, <2>3, <2>4 DEF TypeOK
  <1>2. SaveInv' /\ OpenInv'
    BY DEF TypeOK, SaveInv, OpenInv, LoadInv
  <1>3. LoadInv' /\ ServedInv'
    BY NoProjectAssumption DEF TypeOK, SaveInv, LoadInv, ServedInv
  <1>4. UnsavedIsMarked' /\ ResetInv'
    BY DEF TypeOK, SaveInv, LoadInv, UnsavedIsMarked, ResetInv
  <1> QED
    BY <1>1, <1>2, <1>3, <1>4

(* The application is closed. *)
LEMMA CloseKeeps ==
  ASSUME IInv, CloseApplication
  PROVE  IInv'
  <1> USE DEF IInv, CloseApplication, Unload, projectVars, listenerVars, saveVars,
              FxHolds, TaskHolds, InManager
  <1>1. TypeOK'
    <2>1. /\ fx' \in InManager \cup {"idle", "remote", "exited"}
          /\ target' \in Projects
          /\ currentProject' \in Projects \cup {NoProject}
          /\ opened' \in Projects \cup {NoProject}
      BY DEF TypeOK
    <2>2. /\ model' \in Contents /\ snapshot' \in Contents
          /\ file' \in [Projects -> Contents \cup {Broken}]
      BY ContentsAssumption DEF TypeOK, Contents, SaveInv, LoadInv
    <2>3. /\ changed' \in BOOLEAN /\ handler' \in BOOLEAN
          /\ saveEnabled' \in BOOLEAN /\ serverRequested' \in BOOLEAN
          /\ mustStop' \in BOOLEAN /\ created' \in BOOLEAN
          /\ raced' \in BOOLEAN /\ spoiled' \in BOOLEAN
      BY DEF TypeOK
    <2>4. /\ task' \in {"idle", "asked", "serialize", "write", "reset"}
          /\ publisher' \in {"new", "check", "sleep", "publish", "ended"}
      BY DEF TypeOK
    <2> QED
      BY <2>1, <2>2, <2>3, <2>4 DEF TypeOK
  <1>2. SaveInv' /\ OpenInv'
    BY DEF TypeOK, SaveInv, OpenInv, LoadInv
  <1>3. LoadInv' /\ ServedInv'
    BY NoProjectAssumption DEF TypeOK, SaveInv, LoadInv, ServedInv
  <1>4. UnsavedIsMarked' /\ ResetInv'
    BY DEF TypeOK, SaveInv, LoadInv, UnsavedIsMarked, ResetInv
  <1> QED
    BY <1>1, <1>2, <1>3, <1>4

(* The task takes the lock. *)
LEMMA BeginSaveKeeps ==
  ASSUME IInv, BeginSave
  PROVE  IInv'
  <1> USE DEF IInv, BeginSave, projectVars, listenerVars, saveVars,
              FxHolds, TaskHolds, InManager
  <1>1. TypeOK'
    <2>1. /\ fx' \in InManager \cup {"idle", "remote", "exited"}
          /\ target' \in Projects
          /\ currentProject' \in Projects \cup {NoProject}
          /\ opened' \in Projects \cup {NoProject}
      BY DEF TypeOK
    <2>2. /\ model' \in Contents /\ snapshot' \in Contents
          /\ file' \in [Projects -> Contents \cup {Broken}]
      BY ContentsAssumption DEF TypeOK, Contents, SaveInv, LoadInv
    <2>3. /\ changed' \in BOOLEAN /\ handler' \in BOOLEAN
          /\ saveEnabled' \in BOOLEAN /\ serverRequested' \in BOOLEAN
          /\ mustStop' \in BOOLEAN /\ created' \in BOOLEAN
          /\ raced' \in BOOLEAN /\ spoiled' \in BOOLEAN
      BY DEF TypeOK
    <2>4. /\ task' \in {"idle", "asked", "serialize", "write", "reset"}
          /\ publisher' \in {"new", "check", "sleep", "publish", "ended"}
      BY DEF TypeOK
    <2> QED
      BY <2>1, <2>2, <2>3, <2>4 DEF TypeOK
  <1>2. SaveInv' /\ OpenInv'
    BY DEF TypeOK, SaveInv, OpenInv, LoadInv
  <1>3. LoadInv' /\ ServedInv'
    BY NoProjectAssumption DEF TypeOK, SaveInv, LoadInv, ServedInv
  <1>4. UnsavedIsMarked' /\ ResetInv'
    BY DEF TypeOK, SaveInv, LoadInv, UnsavedIsMarked, ResetInv
  <1> QED
    BY <1>1, <1>2, <1>3, <1>4

(* The project is serialised. *)
LEMMA SerializeKeeps ==
  ASSUME IInv, Serialize
  PROVE  IInv'
  <1> USE DEF IInv, Serialize, projectVars, listenerVars, saveVars,
              FxHolds, TaskHolds, InManager
  <1>1. TypeOK'
    <2>1. /\ fx' \in InManager \cup {"idle", "remote", "exited"}
          /\ target' \in Projects
          /\ currentProject' \in Projects \cup {NoProject}
          /\ opened' \in Projects \cup {NoProject}
      BY DEF TypeOK
    <2>2. /\ model' \in Contents /\ snapshot' \in Contents
          /\ file' \in [Projects -> Contents \cup {Broken}]
      BY ContentsAssumption DEF TypeOK, Contents, SaveInv, LoadInv
    <2>3. /\ changed' \in BOOLEAN /\ handler' \in BOOLEAN
          /\ saveEnabled' \in BOOLEAN /\ serverRequested' \in BOOLEAN
          /\ mustStop' \in BOOLEAN /\ created' \in BOOLEAN
          /\ raced' \in BOOLEAN /\ spoiled' \in BOOLEAN
      BY DEF TypeOK
    <2>4. /\ task' \in {"idle", "asked", "serialize", "write", "reset"}
          /\ publisher' \in {"new", "check", "sleep", "publish", "ended"}
      BY DEF TypeOK
    <2> QED
      BY <2>1, <2>2, <2>3, <2>4 DEF TypeOK
  <1>2. SaveInv' /\ OpenInv'
    BY DEF TypeOK, SaveInv, OpenInv, LoadInv
  <1>3. LoadInv' /\ ServedInv'
    BY NoProjectAssumption DEF TypeOK, SaveInv, LoadInv, ServedInv
  <1>4. UnsavedIsMarked' /\ ResetInv'
    BY DEF TypeOK, SaveInv, LoadInv, UnsavedIsMarked, ResetInv
  <1> QED
    BY <1>1, <1>2, <1>3, <1>4

(* The file is written. *)
LEMMA WriteKeeps ==
  ASSUME IInv, Write
  PROVE  IInv'
  <1> USE DEF IInv, Write, projectVars, listenerVars, saveVars,
              FxHolds, TaskHolds, InManager
  <1>1. TypeOK'
    <2>1. /\ fx' \in InManager \cup {"idle", "remote", "exited"}
          /\ target' \in Projects
          /\ currentProject' \in Projects \cup {NoProject}
          /\ opened' \in Projects \cup {NoProject}
      BY DEF TypeOK
    <2>2. /\ model' \in Contents /\ snapshot' \in Contents
          /\ file' \in [Projects -> Contents \cup {Broken}]
      BY ContentsAssumption DEF TypeOK, Contents, SaveInv, LoadInv
    <2>3. /\ changed' \in BOOLEAN /\ handler' \in BOOLEAN
          /\ saveEnabled' \in BOOLEAN /\ serverRequested' \in BOOLEAN
          /\ mustStop' \in BOOLEAN /\ created' \in BOOLEAN
          /\ raced' \in BOOLEAN /\ spoiled' \in BOOLEAN
      BY DEF TypeOK
    <2>4. /\ task' \in {"idle", "asked", "serialize", "write", "reset"}
          /\ publisher' \in {"new", "check", "sleep", "publish", "ended"}
      BY DEF TypeOK
    <2> QED
      BY <2>1, <2>2, <2>3, <2>4 DEF TypeOK
  <1>2. SaveInv' /\ OpenInv'
    BY DEF TypeOK, SaveInv, OpenInv, LoadInv
  <1>3. LoadInv' /\ ServedInv'
    BY NoProjectAssumption DEF TypeOK, SaveInv, LoadInv, ServedInv
  <1>4. UnsavedIsMarked' /\ ResetInv'
    BY DEF TypeOK, SaveInv, LoadInv, UnsavedIsMarked, ResetInv
  <1> QED
    BY <1>1, <1>2, <1>3, <1>4

(* The file cannot be written. *)
LEMMA WriteFailsKeeps ==
  ASSUME IInv, WriteFails
  PROVE  IInv'
  <1> USE DEF IInv, WriteFails, projectVars, listenerVars, saveVars,
              FxHolds, TaskHolds, InManager
  <1>1. TypeOK'
    <2>1. /\ fx' \in InManager \cup {"idle", "remote", "exited"}
          /\ target' \in Projects
          /\ currentProject' \in Projects \cup {NoProject}
          /\ opened' \in Projects \cup {NoProject}
      BY DEF TypeOK
    <2>2. /\ model' \in Contents /\ snapshot' \in Contents
          /\ file' \in [Projects -> Contents \cup {Broken}]
      BY ContentsAssumption DEF TypeOK, Contents, SaveInv, LoadInv
    <2>3. /\ changed' \in BOOLEAN /\ handler' \in BOOLEAN
          /\ saveEnabled' \in BOOLEAN /\ serverRequested' \in BOOLEAN
          /\ mustStop' \in BOOLEAN /\ created' \in BOOLEAN
          /\ raced' \in BOOLEAN /\ spoiled' \in BOOLEAN
      BY DEF TypeOK
    <2>4. /\ task' \in {"idle", "asked", "serialize", "write", "reset"}
          /\ publisher' \in {"new", "check", "sleep", "publish", "ended"}
      BY DEF TypeOK
    <2> QED
      BY <2>1, <2>2, <2>3, <2>4 DEF TypeOK
  <1>2. SaveInv' /\ OpenInv'
    BY DEF TypeOK, SaveInv, OpenInv, LoadInv
  <1>3. LoadInv' /\ ServedInv'
    BY NoProjectAssumption DEF TypeOK, SaveInv, LoadInv, ServedInv
  <1>4. UnsavedIsMarked' /\ ResetInv'
    BY DEF TypeOK, SaveInv, LoadInv, UnsavedIsMarked, ResetInv
  <1> QED
    BY <1>1, <1>2, <1>3, <1>4

(* The monitor is reset. *)
LEMMA ResetKeeps ==
  ASSUME IInv, ResetMonitor
  PROVE  IInv'
  <1> USE DEF IInv, ResetMonitor, projectVars, listenerVars, saveVars,
              FxHolds, TaskHolds, InManager
  <1>1. TypeOK'
    <2>1. /\ fx' \in InManager \cup {"idle", "remote", "exited"}
          /\ target' \in Projects
          /\ currentProject' \in Projects \cup {NoProject}
          /\ opened' \in Projects \cup {NoProject}
      BY DEF TypeOK
    <2>2. /\ model' \in Contents /\ snapshot' \in Contents
          /\ file' \in [Projects -> Contents \cup {Broken}]
      BY ContentsAssumption DEF TypeOK, Contents, SaveInv, LoadInv
    <2>3. /\ changed' \in BOOLEAN /\ handler' \in BOOLEAN
          /\ saveEnabled' \in BOOLEAN /\ serverRequested' \in BOOLEAN
          /\ mustStop' \in BOOLEAN /\ created' \in BOOLEAN
          /\ raced' \in BOOLEAN /\ spoiled' \in BOOLEAN
      BY DEF TypeOK
    <2>4. /\ task' \in {"idle", "asked", "serialize", "write", "reset"}
          /\ publisher' \in {"new", "check", "sleep", "publish", "ended"}
      BY DEF TypeOK
    <2> QED
      BY <2>1, <2>2, <2>3, <2>4 DEF TypeOK
  <1>2. SaveInv' /\ OpenInv'
    BY DEF TypeOK, SaveInv, OpenInv, LoadInv
  <1>3. LoadInv' /\ ServedInv'
    BY NoProjectAssumption DEF TypeOK, SaveInv, LoadInv, ServedInv
  <1>4. UnsavedIsMarked' /\ ResetInv'
    BY DEF TypeOK, SaveInv, LoadInv, UnsavedIsMarked, ResetInv
  <1> QED
    BY <1>1, <1>2, <1>3, <1>4

(* The publisher looks at mustStop. *)
LEMMA CheckKeeps ==
  ASSUME IInv, PublisherCheck
  PROVE  IInv'
  <1> USE DEF IInv, PublisherCheck, projectVars, listenerVars, saveVars,
              FxHolds, TaskHolds, InManager
  <1>1. TypeOK'
    <2>1. /\ fx' \in InManager \cup {"idle", "remote", "exited"}
          /\ target' \in Projects
          /\ currentProject' \in Projects \cup {NoProject}
          /\ opened' \in Projects \cup {NoProject}
      BY DEF TypeOK
    <2>2. /\ model' \in Contents /\ snapshot' \in Contents
          /\ file' \in [Projects -> Contents \cup {Broken}]
      BY ContentsAssumption DEF TypeOK, Contents, SaveInv, LoadInv
    <2>3. /\ changed' \in BOOLEAN /\ handler' \in BOOLEAN
          /\ saveEnabled' \in BOOLEAN /\ serverRequested' \in BOOLEAN
          /\ mustStop' \in BOOLEAN /\ created' \in BOOLEAN
          /\ raced' \in BOOLEAN /\ spoiled' \in BOOLEAN
      BY DEF TypeOK
    <2>4. /\ task' \in {"idle", "asked", "serialize", "write", "reset"}
          /\ publisher' \in {"new", "check", "sleep", "publish", "ended"}
      BY DEF TypeOK
    <2> QED
      BY <2>1, <2>2, <2>3, <2>4 DEF TypeOK
  <1>2. SaveInv' /\ OpenInv'
    BY DEF TypeOK, SaveInv, OpenInv, LoadInv
  <1>3. LoadInv' /\ ServedInv'
    BY NoProjectAssumption DEF TypeOK, SaveInv, LoadInv, ServedInv
  <1>4. UnsavedIsMarked' /\ ResetInv'
    BY DEF TypeOK, SaveInv, LoadInv, UnsavedIsMarked, ResetInv
  <1> QED
    BY <1>1, <1>2, <1>3, <1>4

(* The publisher asks for the project. *)
LEMMA AsksKeeps ==
  ASSUME IInv, PublisherAsks
  PROVE  IInv'
  <1> USE DEF IInv, PublisherAsks, projectVars, listenerVars, saveVars,
              FxHolds, TaskHolds, InManager
  <1>1. TypeOK'
    <2>1. /\ fx' \in InManager \cup {"idle", "remote", "exited"}
          /\ target' \in Projects
          /\ currentProject' \in Projects \cup {NoProject}
          /\ opened' \in Projects \cup {NoProject}
      BY DEF TypeOK
    <2>2. /\ model' \in Contents /\ snapshot' \in Contents
          /\ file' \in [Projects -> Contents \cup {Broken}]
      BY ContentsAssumption DEF TypeOK, Contents, SaveInv, LoadInv
    <2>3. /\ changed' \in BOOLEAN /\ handler' \in BOOLEAN
          /\ saveEnabled' \in BOOLEAN /\ serverRequested' \in BOOLEAN
          /\ mustStop' \in BOOLEAN /\ created' \in BOOLEAN
          /\ raced' \in BOOLEAN /\ spoiled' \in BOOLEAN
      BY DEF TypeOK
    <2>4. /\ task' \in {"idle", "asked", "serialize", "write", "reset"}
          /\ publisher' \in {"new", "check", "sleep", "publish", "ended"}
      BY DEF TypeOK
    <2> QED
      BY <2>1, <2>2, <2>3, <2>4 DEF TypeOK
  <1>2. SaveInv' /\ OpenInv'
    BY DEF TypeOK, SaveInv, OpenInv, LoadInv
  <1>3. LoadInv' /\ ServedInv'
    BY NoProjectAssumption DEF TypeOK, SaveInv, LoadInv, ServedInv
  <1>4. UnsavedIsMarked' /\ ResetInv'
    BY DEF TypeOK, SaveInv, LoadInv, UnsavedIsMarked, ResetInv
  <1> QED
    BY <1>1, <1>2, <1>3, <1>4

LEMMA StutterKeeps ==
  ASSUME IInv, UNCHANGED vars
  PROVE  IInv'
  BY DEF IInv, vars, projectVars, listenerVars, saveVars, TypeOK, Contents,
         InManager, FxHolds, TaskHolds, SaveInv, OpenInv, LoadInv, ServedInv,
         UnsavedIsMarked, ResetInv

LEMMA NextKeeps == IInv /\ [Next]_vars => IInv'
  BY LoadRefusedKeeps, BeginLoadKeeps, BeginCreateKeeps, LoadHandlerKeeps, CreateHandlerKeeps,
     ParseKeeps, ParseFailsKeeps, FireKeeps, CreateKeeps, CreateFailsKeeps,
     SaveCreatedKeeps, SaveCreatedFailsKeeps, CreateOtherKeeps, CreateOtherFailsKeeps, EditKeeps,
     RequestSaveKeeps, SaveInDialogKeeps, CloseKeeps, BeginSaveKeeps, SerializeKeeps,
     WriteKeeps, WriteFailsKeeps, ResetKeeps, CheckKeeps, AsksKeeps,
     StutterKeeps DEF Next

(* IInv holds in every state. *)
THEOREM Invariant == Spec => []IInv
  BY InitInv, NextKeeps, PTL DEF Spec

(* The state of the project manager has its type: a project that is parsed    *)
(* was never read from a file whose header could not be read.               *)
THEOREM ManagerTypeCorrect == Spec => []TypeOK
  BY Invariant, PTL DEF IInv

(* Whenever ProjectStage may close without asking, the file holds the project *)
(* but for the three ways that are named.                                   *)
THEOREM ChangesAreMarked == Spec => []UnsavedIsMarked
  BY Invariant, PTL DEF IInv

(* load has asked for the resources server whenever a project is open that    *)
(* was not made by create.                                                  *)
THEOREM ServerComesFirst == Spec => []ServedUnlessCreated
  <1>1. IInv => ServedUnlessCreated
    BY DEF IInv, OpenInv, ServedInv, ServedUnlessCreated
  <1> QED
    BY <1>1, Invariant, PTL

(* The Save item is enabled for the current project only. *)
THEOREM SaveItemIsRight == Spec => []SaveFollowsOpen
  <1>1. IInv => SaveFollowsOpen
    BY DEF IInv, OpenInv, SaveFollowsOpen
  <1> QED
    BY <1>1, Invariant, PTL

(* Any set of projects, whatever fails: the four together. *)
THEOREM ManagerCorrect == Spec => []ProjectIsSound
  BY ManagerTypeCorrect, ChangesAreMarked, ServerComesFirst, SaveItemIsRight, PTL
  DEF ProjectIsSound

(* Every step opens a project after the last was closed, closes it, or leaves *)
(* the first listener alone.                                                *)
LEMMA StepKeepsSession == IInv /\ [Next]_vars => [S!SNext]_opened
  <1> SUFFICES ASSUME IInv, [Next]_vars PROVE [S!SNext]_opened
    OBVIOUS
  <1> USE DEF projectVars, listenerVars, saveVars
  <1>1. CASE FireProjectLoaded
    <2>1. opened = NoProject /\ opened' \in Projects
      BY <1>1 DEF FireProjectLoaded, IInv, TypeOK, OpenInv, LoadInv, FxHolds, InManager
    <2> QED
      BY <2>1 DEF S!SNext, S!Open
  <1>2. ASSUME NEW p \in Projects, BeginLoad(p) \/ BeginCreate(p)
        PROVE  [S!SNext]_opened
    BY <1>2 DEF BeginLoad, BeginCreate, UnloadIfCurrent, Unload, S!SNext, S!Close
  <1>3. CASE CloseApplication
    BY <1>3 DEF CloseApplication, Unload, S!SNext, S!Close
  <1>4. CASE UNCHANGED opened
    BY <1>4
  <1>5. UNCHANGED opened \/ FireProjectLoaded \/ CloseApplication
        \/ \E p \in Projects : BeginLoad(p) \/ BeginCreate(p)
    BY DEF Next, vars, LoadRefused, LoadHandler, Parse, ParseFails, CreateProject,
           CreateFails, SaveCreated, SaveCreatedFails, CreateOther,
           CreateOtherFails, Edit, RequestSave, SaveInDialog, BeginSave,
           Serialize, Write, WriteFails, ResetMonitor, PublisherCheck, PublisherAsks
  <1> QED
    BY <1>1, <1>2, <1>3, <1>4, <1>5

(* The manager implements ProjectSession: a project is announced only when no *)
(* other is open.                                                           *)
THEOREM Refinement == Spec => KeepsSession
  <1>1. Init => S!SInit
    BY DEF Init, S!SInit
  <1> QED
    BY <1>1, StepKeepsSession, Invariant, PTL DEF Spec, KeepsSession, S!Session

===============================================================================
