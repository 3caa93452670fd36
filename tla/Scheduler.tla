----------------------------- MODULE Scheduler -----------------------------
(***************************************************************************)
(* What TaskManager promises the code that hands it tasks: a task is       *)
(* executed, one at a time and any number of times, from the moment it is  *)
(* submitted until its execution ends it; no other task is disturbed and   *)
(* an ended task is never executed again.                                  *)
(***************************************************************************)
EXTENDS Naturals

CONSTANTS Tasks, NoTask

VARIABLES
    live,      \* the tasks to be scheduled
    ended,     \* the tasks whose execution ended them
    running    \* the task that is executing

vars == <<live, ended, running>>

Init ==
    /\ live = {}
    /\ ended = {}
    /\ running = NoTask

Submit(t) ==
    /\ running = NoTask
    /\ t \notin live \cup ended
    /\ live' = live \cup {t}
    /\ UNCHANGED <<ended, running>>

Execute(t) ==
    /\ running = NoTask
    /\ t \in live
    /\ running' = t
    /\ UNCHANGED <<live, ended>>

Suspend ==
    /\ running # NoTask
    /\ running' = NoTask
    /\ UNCHANGED <<live, ended>>

End ==
    /\ running # NoTask
    /\ live' = live \ {running}
    /\ ended' = ended \cup {running}
    /\ running' = NoTask

Next ==
    \/ \E t \in Tasks : Submit(t) \/ Execute(t)
    \/ Suspend
    \/ End

Spec == Init /\ [][Next]_vars
=============================================================================
