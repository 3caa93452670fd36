------------------------------ MODULE MacTimer ------------------------------
(***************************************************************************)
(* m8r::Timer as the Mac build implements it (MacSystemInterface.cpp) over *)
(* the timer queue of CppTime, and its users: the heartbeat, whose         *)
(* callback starts its own timer again on the worker thread, and timers    *)
(* such as the time slice that the main thread starts and stops.           *)
(*                                                                         *)
(* A Timer keeps the id of its event in _data, which neither thread locks: *)
(* start() and stop() are sequences of steps that the threads interleave.  *)
(* _data == nullptr stands for no event, and so does the id 0.             *)
(***************************************************************************)
EXTENDS CppTime

CONSTANTS
    Heartbeat,    \* the timer whose callback starts it again
    Expiring,     \* the timers that are left to expire
    OncePeriods   \* whether the repeat of a Once timer may count as a period

ASSUME MacTimerAssumption ==
    /\ Heartbeat \in Expiring
    /\ Expiring \subseteq Owners
    /\ OncePeriods \subseteq BOOLEAN

Threads == {"main", "worker"}
Null == 0

VARIABLES
    data,      \* _data of each Timer
    todo,      \* the steps each thread has left in its call of Timer
    timer,     \* the Timer of that call
    local      \* the id it has read or got, the local variable of start and stop

macVars == <<data, todo, timer, local>>
allVars == <<timeVars, macVars>>

MacTypeOK ==
    /\ TimeTypeOK
    /\ data \in [Owners -> Ids]
    /\ todo \in [Threads -> Seq({"read", "remove", "clear", "add", "store"})]
    /\ timer \in [Threads -> Owners]
    /\ local \in [Threads -> Ids]

-----------------------------------------------------------------------------
(* stop() forgets to clear _data. *)
StopKeepsData == <<"read", "remove">>

StopSteps == <<"read", "remove", "clear">>

(* start() that stops what it has just started. *)
StartThenStop == <<"add", "store">> \o StopSteps

StartSteps == StopSteps \o <<"add", "store">>

Idle(p) == todo[p] = <<>>

Call(p, t, steps) ==
    /\ todo' = [todo EXCEPT ![p] = steps]
    /\ timer' = [timer EXCEPT ![p] = t]
    /\ UNCHANGED <<data, local>>

(* What Application's constructor has setHeartrate do: it is called once,  *)
(* and for a status heartbeat once more.  running() tells _data from       *)
(* nullptr, so it denies the first event, of id 0, and there is no stop()  *)
(* between the two.                                                        *)
SetHeartrateCalls == {StartSteps, StartSteps \o StartSteps}

(* The constructor sets the heart rate before anything else happens.       *)
MacInit ==
    /\ TimeInit
    /\ data = [t \in Owners |-> Null]
    /\ \E steps \in SetHeartrateCalls :
          todo = [p \in Threads |-> IF p = "main" THEN steps ELSE <<>>]
    /\ timer = [p \in Threads |-> Heartbeat]
    /\ local = [p \in Threads |-> 0]

(* The main thread starts and stops its timers, whatever they are for.     *)
MainStart(t) == t # Heartbeat /\ Idle("main") /\ Call("main", t, StartSteps) /\ UNCHANGED timeVars

MainStop(t) == t # Heartbeat /\ Idle("main") /\ Call("main", t, StopSteps) /\ UNCHANGED timeVars

(* The first step of stop(): nothing to do unless there is an id.          *)
Read(p) ==
    /\ ~Idle(p) /\ Head(todo[p]) = "read"
    /\ IF data[timer[p]] = Null
       THEN /\ todo' = [todo EXCEPT ![p] = SubSeq(@, Len(StopSteps) + 1, Len(@))]
            /\ UNCHANGED local
       ELSE /\ local' = [local EXCEPT ![p] = data[timer[p]]]
            /\ todo' = [todo EXCEPT ![p] = Tail(@)]
    /\ UNCHANGED <<timeVars, data, timer>>

DoNext(p, step) ==
    /\ ~Idle(p) /\ Head(todo[p]) = step
    /\ todo' = [todo EXCEPT ![p] = Tail(@)]
    /\ UNCHANGED timer

Remove_(p) == DoNext(p, "remove") /\ RemoveEvent(local[p]) /\ UNCHANGED <<data, local>>

Clear(p) ==
    /\ DoNext(p, "clear")
    /\ data' = [data EXCEPT ![timer[p]] = Null]
    /\ UNCHANGED <<timeVars, local>>

Add_(p) ==
    /\ DoNext(p, "add")
    /\ \E periodic \in OncePeriods : AddEvent(timer[p], periodic)
    /\ local' = [local EXCEPT ![p] = NextId]
    /\ UNCHANGED data

Store(p) ==
    /\ DoNext(p, "store")
    /\ data' = [data EXCEPT ![timer[p]] = local[p]]
    /\ UNCHANGED <<timeVars, local>>

(* An event expires and the worker enters its callback.  An event with the *)
(* id Null cannot be stopped, so it expires whatever its timer.  The first *)
(* second is not over before the constructor has set the heart rate.       *)
Fire(id) ==
    /\ ~Idle("main") => timer["main"] # Heartbeat
    /\ events[id].owner \in Expiring \/ id = Null
    /\ FireBegin(id)
    /\ IF events[id].owner = Heartbeat
       THEN Call("worker", Heartbeat, StartSteps)
       ELSE UNCHANGED macVars

Return == Idle("worker") /\ FireEnd /\ UNCHANGED macVars

Step(p) == Read(p) \/ Remove_(p) \/ Clear(p) \/ Add_(p) \/ Store(p)

MacNext ==
    \/ \E t \in Owners : MainStart(t) \/ MainStop(t)
    \/ \E p \in Threads : Step(p)
    \/ \E id \in Ids : Fire(id)
    \/ Return

MacSpec == MacInit /\ [][MacNext]_allVars

(* Both threads run, and an event that is queued again and again reaches   *)
(* its time.  The main thread need not call anything.                      *)
FairMacSpec ==
    /\ MacSpec
    /\ \A p \in Threads : WF_allVars(Step(p))
    /\ \A id \in Ids : SF_allVars(Fire(id))
    /\ WF_allVars(Return)

-----------------------------------------------------------------------------
(* An event leaves the queue because it expires or because its own timer   *)
(* is stopped: remove() with the id of one Timer never hits another's.     *)
RemovedByItsTimer ==
    [][\A id \in Ids :
          due[id] > 0 /\ due'[id] = 0 =>
              \/ firing' = id
              \/ \E p \in Threads : Remove_(p) /\ timer[p] = events[id].owner]_allVars

(* The heartbeat never stops, whatever is started, stopped or set: each    *)
(* callback arms the next.                                                 *)
HeartbeatGoesOn == []<>(firing # NoId /\ events[firing].owner = Heartbeat)
=============================================================================
