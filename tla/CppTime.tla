------------------------------ MODULE CppTime ------------------------------
(***************************************************************************)
(* CppTime::Timer of mac/cpptime.h, the timer queue under the Mac build's  *)
(* timers: one mutex, one worker thread, events addressed by their index   *)
(* in a vector and a stack of the indices that can be used again.          *)
(*                                                                         *)
(* add() and remove() hold the mutex from end to end and are one action    *)
(* each.  The worker gives it up while a handler runs, so an expiry is two *)
(* actions, FireBegin and FireEnd.  Time is left out: any queued event may *)
(* be the next to expire.                                                  *)
(***************************************************************************)
EXTENDS Integers, Sequences, SequencesExt

CONSTANTS
    Owners,    \* whose handler an event holds
    NoOwner,   \* the empty handler of an event that was never added
    MaxIds     \* bound on the number of events

ASSUME CppTimeAssumption ==
    /\ MaxIds \in Nat \ {0}
    /\ NoOwner \notin Owners

Ids == 0..(MaxIds - 1)
NoId == -1

VARIABLES
    events,    \* the Event at each index of events
    size,      \* events.size()
    due,       \* how many elements of time_events refer to an id
    freeIds,   \* free_ids, its top last
    firing     \* the id whose handler the worker is running

timeVars == <<events, size, due, freeIds, firing>>

(* fired is not in the code: it says whether the handler has been invoked  *)
(* since the event was added.                                              *)
Event == [owner : Owners \cup {NoOwner}, periodic : BOOLEAN,
          valid : BOOLEAN, fired : BOOLEAN]

NoEvent == [owner |-> NoOwner, periodic |-> FALSE, valid |-> FALSE, fired |-> FALSE]

TimeTypeOK ==
    /\ events \in [Ids -> Event]
    /\ size \in 0..MaxIds
    /\ due \in [Ids -> Nat]
    /\ freeIds \in Seq(Ids)
    /\ firing \in Ids \cup {NoId}

TimeInit ==
    /\ events = [i \in Ids |-> NoEvent]
    /\ size = 0
    /\ due = [i \in Ids |-> 0]
    /\ freeIds = <<>>
    /\ firing = NoId

-----------------------------------------------------------------------------
(* The id that add() will use: a free one if there is one.                 *)
NextId == IF freeIds = <<>> THEN size ELSE freeIds[Len(freeIds)]

AddEvent(owner, periodic) ==
    /\ NextId \in Ids
    /\ events' = [events EXCEPT ![NextId] =
          [owner |-> owner, periodic |-> periodic, valid |-> TRUE, fired |-> FALSE]]
    /\ due' = [due EXCEPT ![NextId] = @ + 1]
    /\ IF freeIds = <<>>
       THEN size' = size + 1 /\ UNCHANGED freeIds
       ELSE freeIds' = RemoveAt(freeIds, Len(freeIds)) /\ UNCHANGED size
    /\ UNCHANGED firing

(* An id that is removed is given back whether or not it was queued. *)
RemoveAlwaysFrees(id) ==
    /\ id < size
    /\ events' = [events EXCEPT ![id].valid = FALSE]
    /\ due' = [due EXCEPT ![id] = 0]
    /\ freeIds' = Append(freeIds, id)
    /\ UNCHANGED <<size, firing>>

(* remove() of an id that add() has returned.  Only a queued event gives   *)
(* its id back here; that of a running handler is given back by FireEnd.   *)
RemoveEvent(id) ==
    /\ id < size
    /\ events' = [events EXCEPT ![id].valid = FALSE]
    /\ IF due[id] > 0
       THEN /\ due' = [due EXCEPT ![id] = @ - 1]
            /\ freeIds' = Append(freeIds, id)
       ELSE UNCHANGED <<due, freeIds>>
    /\ UNCHANGED <<size, firing>>

FireBegin(id) ==
    /\ firing = NoId
    /\ due[id] > 0
    /\ due' = [due EXCEPT ![id] = @ - 1]
    /\ events' = [events EXCEPT ![id].fired = TRUE]
    /\ firing' = id
    /\ UNCHANGED <<size, freeIds>>

(* Every event whose handler has run is queued again. *)
FireEndAlwaysRenews ==
    /\ firing # NoId
    /\ firing' = NoId
    /\ due' = [due EXCEPT ![firing] = @ + 1]
    /\ UNCHANGED <<events, freeIds, size>>

FireEnd ==
    /\ firing # NoId
    /\ firing' = NoId
    /\ IF events[firing].valid /\ events[firing].periodic
       THEN /\ due' = [due EXCEPT ![firing] = @ + 1]
            /\ UNCHANGED <<events, freeIds>>
       ELSE /\ events' = [events EXCEPT ![firing].valid = FALSE]
            /\ freeIds' = Append(freeIds, firing)
            /\ UNCHANGED due
    /\ UNCHANGED size

TimeNext ==
    \/ \E owner \in Owners, periodic \in BOOLEAN : AddEvent(owner, periodic)
    \/ \E id \in Ids : RemoveEvent(id) \/ FireBegin(id)
    \/ FireEnd

TimeSpec == TimeInit /\ [][TimeNext]_timeVars

-----------------------------------------------------------------------------
Known(id) == id < size

(* Every id handed out is in exactly one place: queued once, free once, or *)
(* held by the worker.  It is so however add, remove and the expiry of an  *)
(* event interleave, and even for a remove() of an id that is stale.       *)
IdsConserved ==
    /\ IsInjective(freeIds)
    /\ \A id \in ToSet(freeIds) : Known(id)
    /\ firing # NoId => Known(firing) /\ firing \notin ToSet(freeIds)
    /\ \A id \in Ids :
          due[id] = IF Known(id) /\ id # firing /\ id \notin ToSet(freeIds)
                    THEN 1 ELSE 0

(* A queued event is valid, one whose id is free is not, so a handler that *)
(* was removed is never invoked (remove and run).                          *)
OnlyValidEventsAreQueued ==
    \A id \in Ids : /\ due[id] > 0 => events[id].valid
                    /\ id \in ToSet(freeIds) => ~events[id].valid

(* "In case a timeout is one-shot, the callback is invoked once": after it *)
(* the event is not queued again (run).                                    *)
OneShotFiresOnce ==
    \A id \in Ids :
        events[id].fired /\ ~events[id].periodic => due[id] = 0
=============================================================================
