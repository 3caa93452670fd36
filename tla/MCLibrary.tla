----------------------------- MODULE MCLibrary -------------------------------
(***************************************************************************)
(* Small instances, for TLC, of the containers and texts of the library    *)
(* under what uses them: the shared pointers and the vector of the         *)
(* scheduler (TaskMemory), the request of the web server (WebRequest), the *)
(* parser of JSON (Json) and the lines of a terminal (Terminal).  They     *)
(* have nothing in common but the library: the use is chosen at the start  *)
(* and the others stay as they are.                                        *)
(***************************************************************************)
EXTENDS TaskMemory, WebRequest, Json, MCTerminal

CONSTANTS a, b, c, d, e

VARIABLE use

(* The scheduler has three tasks that do anything and may be terminated,   *)
(* c without executable, or four shells, a, b, d and e.                    *)
MCTasks == {a, b, c, d, e}
MCLoaded == {a, b, d, e}
MCReturns == [t \in MCTasks |-> ReturnKinds]
MCTimerIds == [t \in MCTasks |-> {t}]

MCWords == <<"1", "80", "HTTP", "Host", "home", "k", "key", "l", "password", "ssid", "x">>

(* Paths of a handler, below one, and of two.  A parameter may be one that *)
(* no one asks for, belong between two that are there, be said twice, have *)
(* no value, an empty one or one with an "=" in it.                        *)
Api == <<"/", "rest", "/", "v1", "/">>
MCPaths == {<<"/">>, <<"/", "x">>, <<"/", "favicon.ico">>, Api, Append(Api, "setSSID")}
MCParams ==
    {<<<<"ssid">>, <<"home">>>>, <<<<"ssid">>, <<"x">>>>, <<<<"password">>, <<"key">>>>,
     <<<<"password">>, <<>>>>, <<<<"k">>, <<"x">>>>, <<<<"ssid">>>>,
     <<<<"ssid">>, <<"x">>, <<"x">>>>}
MCHeaders ==
    {<<<<"Host">>, <<" ", "home">>>>, <<<<"Host">>, <<"x", " ", " ">>>>, <<<<"Host">>, <<" ">>>>,
     <<<<"Host">>, <<"home">>, <<"80">>>>, <<<<"key">>, <<" ", "x", " ", "home">>>>}
MCJunk == <<"junk">>

libraryVars == <<use, vars, memVars, webVars, jsonVars, termVars>>

(* "typing" is a terminal whose user has only the kept keys.               *)
LibraryInit ==
    /\ use \in {"tasks", "requests", "texts", "terminal", "typing"}
    /\ MemInit
    /\ use # "tasks" => program = "any"
    /\ WebInit
    /\ JsonInit
    /\ TermInit

LibraryNext ==
    \/ /\ use = "tasks"
       /\ MemNext
       /\ program = "any" => started' \subseteq {a, b, c}
       /\ UNCHANGED <<use, webVars, jsonVars, termVars>>
    \/ /\ use = "requests"
       /\ WebNext
       /\ UNCHANGED <<use, vars, memVars, jsonVars, termVars>>
    \/ /\ use = "texts"
       /\ JsonNext
       /\ UNCHANGED <<use, vars, memVars, webVars, termVars>>
    \/ /\ use \in {"terminal", "typing"}
       /\ TermNext
       /\ use = "typing" => received' \in KeptKeys \cup {<<>>}
       /\ UNCHANGED <<use, vars, memVars, webVars, jsonVars>>

LibrarySpec == LibraryInit /\ [][LibraryNext]_libraryVars

(* Terminal edits a line as LineEditor does, for a user who has only the   *)
(* kept keys, through every connection of the slot (Telnet.h, Telnet.cpp). *)
KeptEditor == INSTANCE LineEditor WITH
    text <- IF use = "typing" THEN line ELSE <<>>,
    cursor <- IF use = "typing" THEN position ELSE 0,
    key <- IF use = "typing" THEN KeyOf(received) ELSE <<>>,
    told <- IF use = "typing" THEN heard ELSE Nothing

EditsKeptKeys == KeptEditor!Spec
=============================================================================
