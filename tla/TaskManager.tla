---------------------------- MODULE TaskManager ----------------------------
(***************************************************************************)
(* The cooperative scheduler of TaskManager.cpp, with the parts of Task    *)
(* and Executable it drives.                                               *)
(*                                                                         *)
(* Two threads touch this state.  The main loop calls run, terminate and   *)
(* runOneIteration; an iteration is split where foreign code runs: the     *)
(* choice of the task (Dispatch), whatever its executable does (StartDelay)*)
(* and the handling of what execute() returned (Return).  The timer thread *)
(* completes a delay (DelayFires) between any two of these steps.          *)
(***************************************************************************)
EXTENDS Naturals, FiniteSets, Sequences, SequencesExt

CONSTANTS
    Tasks,       \* the Task objects the program ever creates
    NoTask,      \* the null SharedPtr<Task>
    Loaded,      \* the tasks whose load() left them an executable
    Owned,       \* the tasks a TCPServer connection holds and may terminate
    Returns,     \* Returns[t]: the kinds of value t's execute() may return
    TimerIds,    \* TimerIds[t]: the ids the timer service may give t's delay
    NoId,        \* the null _data of a Timer
    MaxListed    \* how many tasks the deployment keeps in _list at a time

(* What execute() may return, as runOneIteration tells the values apart:   *)
(* "End" is Finished, Terminated or an error, "Other" a return count or a  *)
(* function start.                                                         *)
ReturnKinds == {"Yield", "End", "WaitForEvent", "Delay", "Other"}

ASSUME TasksAssumption ==
    /\ NoTask \notin Tasks
    /\ Loaded \subseteq Tasks
    /\ Owned \subseteq Tasks
    /\ Returns \in [Tasks -> SUBSET ReturnKinds]
    /\ \A t \in Tasks : NoId \notin TimerIds[t]
    /\ MaxListed \in Nat \ {0}

VARIABLES
    list,           \* _list
    current,        \* _currentTask
    state,          \* Task::_state of every task
    delayComplete,  \* Executable::_delayComplete of every task's executable
    armed,          \* the tasks whose delay the timer service has queued
    timerId,        \* Timer::_data of every task's _delayTimer
    started,        \* the tasks that were handed to run()
    pc              \* where the main loop is

vars == <<list, current, state, delayComplete, armed, timerId, started, pc>>

States == {"Ready", "WaitingForEvent", "Delaying", "Terminated"}

(* "starting" is inside startDelay(), between its two statements.  In      *)
(* "crashed" the search for a task has followed a null _executable.        *)
Places == {"idle", "executing", "starting", "crashed"}

Listed == ToSet(list)

TypeOK ==
    /\ list \in Seq(Tasks)
    /\ current \in Tasks \cup {NoTask}
    /\ state \in [Tasks -> States]
    /\ delayComplete \in [Tasks -> BOOLEAN]
    /\ armed \in SUBSET Tasks
    /\ timerId \in [Tasks -> (UNION {TimerIds[t] : t \in Tasks}) \cup {NoId}]
    /\ \A t \in Tasks : timerId[t] \in TimerIds[t] \cup {NoId}
    /\ \A t \in armed : timerId[t] # NoId
    /\ started \in SUBSET Tasks
    /\ pc \in Places
    /\ pc \in {"executing", "starting"} => current \in Tasks

Init ==
    /\ list = <<>>
    /\ current = NoTask
    /\ state = [t \in Tasks |-> "Ready"]
    /\ delayComplete = [t \in Tasks |-> TRUE]
    /\ armed = {}
    /\ timerId = [t \in Tasks |-> NoId]
    /\ started = {}
    /\ pc = "idle"

-----------------------------------------------------------------------------
(* A removal that finds nothing to remove. *)
RemoveTaskMissing(t) == list

(* Vector::remove looks the element up with std::find.  SharedPtr has no   *)
(* operator==, so two of them are compared as the booleans they convert to *)
(* and the first task of the list is the one that matches.                 *)
RemoveTask(t) == IF list = <<>> THEN list ELSE RemoveAt(list, 1)

(* run(): every caller hands over a task it has just created.              *)
Run(t) ==
    /\ pc = "idle"
    /\ t \notin started
    /\ Len(list) < MaxListed
    /\ list' = Append(list, t)
    /\ state' = [state EXCEPT ![t] = "Ready"]
    /\ started' = started \cup {t}
    /\ UNCHANGED <<current, delayComplete, armed, timerId, pc>>

Terminate(t) ==
    /\ pc = "idle"
    /\ t \in started \cap Owned
    /\ list' = RemoveTask(t)
    /\ state' = [state EXCEPT ![t] = "Terminated"]
    /\ UNCHANGED <<current, delayComplete, armed, timerId, started, pc>>

(* Task::readyToRun, and the case in which it follows a null _executable.  *)
Runnable(t) == state[t] = "Ready" \/ (t \in Loaded /\ delayComplete[t])

Faults(t) == state[t] # "Ready" /\ t \notin Loaded

(* The element std::find_if stops at.                                      *)
StopsAt(i) ==
    /\ Runnable(list[i]) \/ Faults(list[i])
    /\ \A j \in 1..(i - 1) : ~Runnable(list[j]) /\ ~Faults(list[j])

(* The task is appended without being erased. *)
RotatedWithoutErase(i) ==
    IF state[list[i]] = "Ready" THEN Append(list, list[i]) ELSE list

(* No task is moved. *)
RotatedNever(i) == list

(* A Ready task goes to the back of the list before it executes.  Any      *)
(* other task is executed where it is.                                     *)
Rotated(i) ==
    IF state[list[i]] = "Ready" THEN Append(RemoveAt(list, i), list[i]) ELSE list

Dispatch ==
    /\ pc = "idle"
    /\ \E i \in DOMAIN list :
        /\ StopsAt(i)
        /\ Runnable(list[i])
        /\ current' = list[i]
        /\ list' = Rotated(i)
    /\ pc' = "executing"
    /\ UNCHANGED <<state, delayComplete, armed, timerId, started>>

Crash ==
    /\ pc = "idle"
    /\ \E i \in DOMAIN list : StopsAt(i) /\ Faults(list[i])
    /\ pc' = "crashed"
    /\ UNCHANGED <<list, current, state, delayComplete, armed, timerId, started>>

(* Timer::start() for the delay of t.  The Mac's first stops the event     *)
(* that has the id in _data: an event that has expired leaves its id there *)
(* and to whoever starts a timer next.  The new event gets an id that no   *)
(* event has.  (Other timers of the program may hold ids as well; the id 0 *)
(* that stop() takes for none, and what a stop does to a timer that is no  *)
(* delay, are in MacTimer.)                                                *)
StartTimer(t) ==
    LET running == {u \in armed : timerId[u] # timerId[t]}
    IN  /\ \E id \in TimerIds[t] \ {timerId[u] : u \in running} :
              timerId' = [timerId EXCEPT ![t] = id]
        /\ armed' = running \cup {t}

(* The timer is started before the flag is cleared. *)
StartDelaySwapped ==
    \/ /\ pc = "executing"
       /\ current \in Loaded
       /\ "Delay" \in Returns[current]
       /\ pc' = "starting"
       /\ StartTimer(current)
       /\ UNCHANGED <<list, current, state, delayComplete, started>>
    \/ /\ pc = "starting"
       /\ pc' = "executing"
       /\ delayComplete' = [delayComplete EXCEPT ![current] = FALSE]
       /\ UNCHANGED <<list, current, state, armed, timerId, started>>

(* Executable::startDelay, called by the executable that is running.  The  *)
(* timer thread can run between its two statements.                        *)
StartDelay ==
    \/ /\ pc = "executing"
       /\ current \in Loaded
       /\ "Delay" \in Returns[current]
       /\ pc' = "starting"
       /\ delayComplete' = [delayComplete EXCEPT ![current] = FALSE]
       /\ UNCHANGED <<list, current, state, armed, timerId, started>>
    \/ /\ pc = "starting"
       /\ pc' = "executing"
       /\ StartTimer(current)
       /\ UNCHANGED <<list, current, state, delayComplete, started>>

(* The callback of _delayTimer, on the timer thread; _data keeps the id.   *)
DelayFires(t) ==
    /\ t \in armed
    /\ armed' = armed \ {t}
    /\ delayComplete' = [delayComplete EXCEPT ![t] = TRUE]
    /\ UNCHANGED <<list, current, state, timerId, started, pc>>

(* Task::execute answers Finished for a task without executable.           *)
MayReturn(t, kind) ==
    IF t \in Loaded THEN kind \in Returns[t] ELSE kind = "End"

ReturnEnd ==
    /\ pc = "executing"
    /\ MayReturn(current, "End")
    /\ state' = [state EXCEPT ![current] = "Terminated"]
    /\ list' = RemoveTask(current)
    \* reset() forgets the pointer only if it held the last reference.
    /\ current' \in {current, NoTask}
    /\ pc' = "idle"
    /\ UNCHANGED <<delayComplete, armed, timerId, started>>

NextState(kind) ==
    CASE kind = "Yield"        -> "Ready"
      [] kind = "WaitForEvent" -> "WaitingForEvent"
      [] kind = "Delay"        -> "Delaying"
      [] kind = "Other"        -> state[current]

ReturnOn ==
    /\ pc = "executing"
    /\ \E kind \in ReturnKinds \ {"End"} :
        /\ MayReturn(current, kind)
        /\ state' = [state EXCEPT ![current] = NextState(kind)]
    /\ pc' = "idle"
    /\ UNCHANGED <<list, current, delayComplete, armed, timerId, started>>

Return == ReturnEnd \/ ReturnOn

Next ==
    \/ \E t \in Tasks : Run(t) \/ Terminate(t) \/ DelayFires(t)
    \/ Dispatch
    \/ Crash
    \/ StartDelay
    \/ Return

Spec == Init /\ [][Next]_vars

(* m8rmain calls runOneIteration for ever, an executable returns from      *)
(* execute() (strongly fair: it calls startDelay finitely often before it  *)
(* returns), and a timer that was started fires.                           *)
Fairness ==
    /\ WF_vars(Dispatch \/ Crash)
    /\ WF_vars(pc = "starting" /\ StartDelay)
    /\ SF_vars(Return)
    /\ \A t \in Tasks : WF_vars(DelayFires(t))

FairSpec == Spec /\ Fairness
-----------------------------------------------------------------------------
(* The list never holds a task twice, whatever is rotated, removed or      *)
(* terminated: TaskManager::run, runOneIteration and terminate.            *)
NoDuplicates == IsInjective(list)

(* What the ESP build gives: each Timer has a FreeRTOS timer of its own.   *)
OwnTimers == \A t, u \in Tasks : t # u => TimerIds[t] \cap TimerIds[u] = {}

(* A delay is never lost ("delay in -ms", CallReturnValue.h).  An          *)
(* executable that is not ready has its timer running, or is still inside  *)
(* startDelay, wherever the timer thread runs relative to startDelay and   *)
(* to setState(Delaying).  It is so where each Timer has an id of its own, *)
(* and fails where the ids are used again, as on the Mac.                  *)
DelayNeverLost ==
    \A t \in Tasks :
        ~delayComplete[t] => t \in armed \/ (pc = "starting" /\ current = t)

Zombies == {t \in Listed : state[t] = "Terminated"}

Lost == {t \in started \ Listed : state[t] # "Terminated"}

(* What removing the head costs: as long as a Terminated task is still     *)
(* scheduled, at least as many live tasks have been dropped from the list. *)
(* (Vector::remove, as runOneIteration and terminate use it.)              *)
ZombiesReplaceLostTasks == Cardinality(Zombies) <= Cardinality(Lost)

Live == {t \in started : state[t] # "Terminated"}

(* The list is exactly the tasks that were run and have not ended.  It is  *)
(* so while the application runs one task at a time: the head is then the  *)
(* task that ends (runOneIteration) and nothing is evicted.                *)
ListIsLiveTasks == Listed = Live

(* One task at a time, TaskManager keeps the promise of Scheduler.          *)
Promise == INSTANCE Scheduler WITH
    live <- Listed,
    ended <- {t \in started : state[t] = "Terminated"},
    running <- IF pc \in {"executing", "starting"} THEN current ELSE NoTask

KeepsPromise == Promise!Spec

(* The search for a task to run never follows a null _executable: a task   *)
(* whose load() failed is executed at most once (Task::readyToRun).        *)
NeverFaults == pc # "crashed"

(* "Move the task to the end of the list to let other ready tasks run"     *)
(* (runOneIteration): a Ready task of the list is executed, or leaves it.  *)
(* Only a task that is not Ready can postpone it: such a task is executed  *)
(* where it is and stays ahead, and a null executable stops them all.      *)
ReadyTaskRuns ==
    \A t \in Tasks :
        t \in Listed /\ state[t] = "Ready" ~>
            \/ pc = "executing" /\ (current = t \/ state[current] # "Ready")
            \/ t \notin Listed
            \/ pc = "crashed"

(* A task that has ended is not executed again (runOneIteration sets       *)
(* Terminated, removes the task and calls finish()).                       *)
EndedTaskStaysEnded ==
    [][\A t \in started : state[t] = "Terminated" => state'[t] = "Terminated"
       /\ ~(pc = "idle" /\ pc' = "executing" /\ current' = t)]_vars
=============================================================================
