--------------------------- MODULE MCTaskManager ---------------------------
(***************************************************************************)
(* Small instances of TaskManager for TLC.  A deployment is chosen at the  *)
(* start: the autostart task alone, one after another and without a        *)
(* server, or as many tasks as the list is given room for.                 *)
(***************************************************************************)
EXTENDS TaskManager, TLC

CONSTANTS a, b, c

VARIABLE limit

MCTasks == {a, b, c}

MCOwned == {b, c}

NoneOwned == {}

AllLoaded == MCTasks

(* The script of c could not be opened, or has an unknown suffix.          *)
SomeLoaded == {a, b}

(* Scripts that do everything the interface lets them do.                  *)
AnyReturn == [t \in MCTasks |-> ReturnKinds]

(* Programs that compute, yield and finish, and never wait.                *)
YieldOrEnd == [t \in MCTasks |-> {"Yield", "End"}]

(* Programs that wait for a delay and go on.                               *)
DelayOnly == [t \in MCTasks |-> {"Delay"}]

(* The ESP: a Timer has its own FreeRTOS timer.                            *)
EspIds == [t \in MCTasks |-> {t}]

(* The Mac: the events of all timers share the ids.                        *)
MacIds == [t \in MCTasks |-> {1, 2}]

MCInit == Init /\ limit \in {1, MaxListed}

MCNext ==
    /\ Next
    /\ UNCHANGED limit
    /\ Len(list') <= limit
    /\ limit = 1 => ~\E t \in Tasks : Terminate(t)

MCSpec == MCInit /\ [][MCNext]_<<vars, limit>> /\ Fairness

(* One task at a time, TaskManager keeps the promise of Scheduler: the     *)
(* task that ends is the one that leaves, and it is not executed again     *)
(* (run, runOneIteration).                                                 *)
AloneInScheduler == INSTANCE Scheduler WITH
    live <- IF limit = 1 THEN Listed ELSE {},
    ended <- IF limit = 1 THEN {t \in started : state[t] = "Terminated"} ELSE {},
    running <- IF limit = 1 /\ pc \in {"executing", "starting"} THEN current ELSE NoTask

KeepsPromiseAlone == AloneInScheduler!Spec
=============================================================================
