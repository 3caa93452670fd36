---------------------------- MODULE TaskMemory -----------------------------
(***************************************************************************)
(* The memory under TaskManager: the reference counts of SharedPtr.h and   *)
(* the slots of the Vector<SharedPtr<Task>> of Containers.h, driven by the *)
(* scheduler's own steps.                                                  *)
(*                                                                         *)
(* SharedPtr and Vector do not balance each other: reset() keeps the       *)
(* pointer unless the count reaches zero, the move assignment with which   *)
(* Vector empties a slot releases nothing, and the memmove that closes the *)
(* gap leaves a second copy of the last element behind _size, which the    *)
(* next push_back releases.                                                *)
(***************************************************************************)
EXTENDS TaskManager

CONSTANT CountLimit    \* 2^16: Shared::_count is a uint16_t

ASSUME CountAssumption == CountLimit \in Nat \ {0, 1}

VARIABLES
    slots,     \* the _capacity elements of _list, those past _size included
    size,      \* _list._size
    handle,    \* the tasks their owner's SharedPtr points to
    told,      \* the tasks whose connection has reported its end
    heap,      \* the reference counts, the deleted tasks, the first fault
    program    \* which tasks there are: any, or shells

memVars == <<slots, size, handle, told, heap, program>>

(* Faults: "assert" is the assertion in reset(), "dangling" the use of a   *)
(* deleted task, "overrun" an access past the capacity of the vector.      *)
MemInit ==
    /\ Init
    /\ slots = <<>>
    /\ size = 0
    /\ handle = {}
    /\ told = {}
    /\ heap = [count |-> [t \in Tasks |-> 0], deleted |-> {}, fault |-> "none"]
    /\ program \in {"any", "shells"}

-----------------------------------------------------------------------------
Fault(h, kind) == [h EXCEPT !.fault = IF @ = "none" THEN kind ELSE @]

Touch(h, p) == IF p \in h.deleted THEN Fault(h, "dangling") ELSE h

(* reset() deletes whether or not the count has reached zero. *)
ReleaseAlways(h, p) ==
    IF p = NoTask THEN h
    ELSE IF h.count[p] = 0 THEN Fault(h, "assert")
    ELSE [h EXCEPT !.count[p] = @ - 1, !.deleted = @ \cup {p}]

(* reset() of a pointer to p: the count goes down and the task is deleted  *)
(* when it reaches zero.                                                   *)
Release(h, p) ==
    IF p = NoTask THEN h
    ELSE IF h.count[p] = 0 THEN Fault(h, "assert")
    ELSE [h EXCEPT !.count[p] = @ - 1,
                   !.deleted = IF h.count[p] = 1 THEN @ \cup {p} ELSE @]

(* What reset() leaves in the pointer.                                     *)
AfterReset(h, p) == IF p # NoTask /\ h.count[p] = 1 THEN NoTask ELSE p

(* The assignment forgets to count. *)
RetainUncounted(h, p) == Touch(h, p)

(* count(p)++ wraps silently.                                              *)
Retain(h, p) ==
    Touch([h EXCEPT !.count[p] = (@ + 1) % CountLimit], p)

(* Copy assignment of the pointer new over the pointer old.                *)
Assign(h, old, new) == Retain(Release(h, old), new)

(* Vector::ensureCapacity.  The copies and the releases of the slots it    *)
(* replaces cancel out, because it only grows a vector that is full.       *)
Grown == IF size < Len(slots) THEN slots
         ELSE slots \o [j \in 1..(IF slots = <<>> THEN 1 ELSE Len(slots)) |-> NoTask]

(* Vector::push_back on slots s of which n are in use.                     *)
PushBack(s, n, t) == [s EXCEPT ![n + 1] = t]

(* One element too few is moved down. *)
EraseShort(s, n, i) ==
    LET emptied == [s EXCEPT ![i] = NoTask]
    IN  [j \in DOMAIN s |->
            IF i < n /\ j \in i..(n - 2) THEN emptied[j + 1] ELSE emptied[j]]

(* Vector::erase of one element of n.  The slot is emptied by a move,      *)
(* which releases nothing; then n - 1 elements are moved down, wherever    *)
(* the gap is.                                                             *)
Erase(s, n, i) ==
    LET emptied == [s EXCEPT ![i] = NoTask]
    IN  [j \in DOMAIN s |->
            IF i < n /\ j \in i..(i + n - 2) /\ j < Len(s)
            THEN emptied[j + 1] ELSE emptied[j]]

Overruns(s, n, i) == i < n /\ i + n - 1 > Len(s)

(* The lambda of find_if takes its task by value.                          *)
CopyAndDrop(h, p) == Release(Retain(h, p), p)

Searched(i) ==
    LET after[k \in 0..i] == IF k = 0 THEN heap ELSE CopyAndDrop(after[k - 1], slots[k])
    IN  after[i]

-----------------------------------------------------------------------------
(* After a fault nothing is known of the program. *)
Sound == heap.fault = "none"

(* The owner creates the task with one reference, its handle.              *)
MemRun(t) ==
    /\ Sound
    /\ Run(t)
    /\ LET born == [heap EXCEPT !.count[t] = 1]
       IN  heap' = Assign(born, Grown[size + 1], t)
    /\ slots' = PushBack(Grown, size, t)
    /\ size' = size + 1
    /\ handle' = handle \cup {t}
    /\ UNCHANGED told

(* Vector::remove, where heap is as h: the head goes.                      *)
RemoveHead(h) ==
    IF size = 0 THEN UNCHANGED <<slots, size>> /\ heap' = h
    ELSE /\ slots' = Erase(slots, size, 1)
         /\ size' = size - 1
         /\ heap' = h

(* TCPServer on Disconnected, for as long as its pointer is not null, and  *)
(* the reset of the pointer.                                               *)
MemTerminate(t) ==
    /\ Sound
    /\ Terminate(t)
    /\ t \in handle \ told
    /\ told' = told \cup {t}
    /\ RemoveHead(Release(Touch(heap, t), t))
    /\ handle' = IF AfterReset(heap, t) = NoTask THEN handle \ {t} ELSE handle

MemDispatch ==
    /\ Sound
    /\ Dispatch
    /\ \E i \in 1..size :
        /\ StopsAt(i)
        /\ LET found   == slots[i]
               chosen  == Assign(Searched(i), current, found)
               gap     == IF Overruns(slots, size, i) THEN Fault(chosen, "overrun") ELSE chosen
               shifted == Erase(slots, size, i)
           IN  IF state[found] = "Ready"
               THEN /\ slots' = PushBack(shifted, size - 1, found)
                    /\ heap' = Assign(gap, shifted[size], found)
               ELSE /\ heap' = chosen
                    /\ UNCHANGED slots
    /\ UNCHANGED <<size, handle, told>>

(* The head is removed, the finish callback resets the owner's pointer and *)
(* _currentTask is reset.                                                  *)
MemReturnEnd ==
    /\ Sound
    /\ ReturnEnd
    /\ UNCHANGED told
    /\ LET owner == IF current \in handle THEN Release(heap, current) ELSE heap
       IN  /\ RemoveHead(Release(owner, current))
           /\ current' = AfterReset(owner, current)
           /\ handle' = IF AfterReset(heap, current) = NoTask
                        THEN handle \ {current} ELSE handle

(* The steps that move no pointer. *)
MemOther ==
    /\ Sound
    /\ \/ \E t \in Tasks : DelayFires(t)
       \/ Crash
       \/ StartDelay
       \/ ReturnOn
    /\ UNCHANGED memVars

(* Shells have an executable, whose execute() waits for an event, and two  *)
(* of them are listed at a time.                                           *)
AsShells ==
    /\ started' \subseteq Loaded
    /\ pc = "executing" => pc' = "idle" /\ state'[current] = "WaitingForEvent"
    /\ Len(list') <= 2

MemNext ==
    /\ \/ \E t \in Tasks : MemRun(t) \/ MemTerminate(t)
       \/ MemDispatch
       \/ MemReturnEnd
       \/ MemOther
    /\ program = "shells" => AsShells
    /\ UNCHANGED program

MemSpec == MemInit /\ [][MemNext]_<<vars, memVars>>

-----------------------------------------------------------------------------
(* The slots in use are the list TaskManager works with, whatever the      *)
(* erasures have left behind them, and no erasure of three tasks leaves    *)
(* the capacity (Vector::erase, Vector::push_back).                        *)
ListIsSlots ==
    /\ heap.fault # "overrun"
    /\ Sound => list = SubSeq(slots, 1, size)

(* assert(count(_ptr) > 0) in SharedPtr::reset never fails for shells that *)
(* come and go, two at a time: whatever is released is still counted,      *)
(* though the vector releases copies that it has moved away.               *)
ShellsNeverAssert == program = "shells" => heap.fault # "assert"

(* "Communications to and from that connection go to that task"            *)
(* (TCPServer.h): the shell of a connection that is still open is not      *)
(* deleted by the handles that vector and pointers miscount.               *)
OpenConnectionHasShell ==
    program = "shells" => \A t \in handle \ told : t \notin heap.deleted
=============================================================================
