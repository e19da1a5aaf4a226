---------------------------- MODULE ProjectSession ----------------------------
(***************************************************************************)
(* What ColtProjectManager promises to a ProjectListener: a project is       *)
(* loaded only when no other is open; "unloaded" may come more than once.    *)
(***************************************************************************)
CONSTANTS Projects, NoProject

VARIABLE open  \* the project that was loaded and not unloaded since

SInit == open = NoProject

(* onProjectLoaded *)
Open(p) == open = NoProject /\ open' = p

(* onProjectUnloaded *)
Close == open' = NoProject

SNext == (\E p \in Projects : Open(p)) \/ Close

Session == SInit /\ [][SNext]_open
===============================================================================
