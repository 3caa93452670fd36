------------------------------ MODULE ByteFile ------------------------------
(***************************************************************************)
(* What an open file of littlefs promises: a sequence of bytes that is     *)
(* written, cut and filled at a position, of which a loss of power leaves  *)
(* what was stored by the last sync.                                       *)
(***************************************************************************)
EXTENDS Integers, Sequences

VARIABLES
    stored,     \* what the directory entry holds
    content,    \* what the one who has it open would read
    pos,        \* the position
    task        \* the call under way, or how the last one ended

vars == <<stored, content, pos, task>>

Shut     == [op |-> "Shut"]         \* the file is not open
Returned == [op |-> "Returned"]     \* without an error
Failed   == [op |-> "Failed"]
Got(val) == [op |-> "Returned", val |-> val]

Idle == task.op \in {"Returned", "Failed"}

Running == ~Idle /\ task # Shut

Longer(m, n) == IF m > n THEN m ELSE n

Overwritten(bytes, at, val, n) ==
    [i \in 1..Longer(Len(bytes), at + n) |->
        IF i > at /\ i <= at + n THEN val
        ELSE IF i <= Len(bytes) THEN bytes[i] ELSE 0]

Resized(bytes, n) == [i \in 1..n |-> IF i <= Len(bytes) THEN bytes[i] ELSE 0]

(* A call: what it is to make of the file, where it is to leave the        *)
(* position, and what the file was.                                        *)
Call(op, bytes, goal, to) == [op |-> op, old |-> bytes, new |-> goal, to |-> to]

Write(bytes, at, val, n) == Call("Write", bytes, Overwritten(bytes, at, val, n), at + n)

Truncate(bytes, at, n) == Call("Truncate", bytes, Resized(bytes, n), at)

Seek(bytes, to) == Call("Seek", bytes, bytes, to)

Read(bytes, at) == Call("Read", bytes, bytes, IF at < Len(bytes) THEN at + 1 ELSE at)

Sync(bytes, at) == Call("Sync", bytes, bytes, at)

Close(bytes) == Call("Close", bytes, bytes, 0)

Init == task = Shut

Open ==
    /\ task = Shut
    /\ content' \in {stored, <<>>}
    /\ pos' = 0
    /\ task' = Returned
    /\ UNCHANGED stored

Start ==
    /\ Idle
    /\ Running'
    /\ task'.old = content
    /\ UNCHANGED <<stored, content>>

(* On the way there every byte is the old one or the new one.              *)
Between ==
    /\ Len(content') <= Longer(Len(task.old), Len(task.new))
    /\ Len(content') >= Len(task.old) \/ Len(content') >= Len(task.new)
    /\ \A i \in DOMAIN content' :
        \/ i \in DOMAIN task.old /\ content'[i] = task.old[i]
        \/ i \in DOMAIN task.new /\ content'[i] = task.new[i]

IsSync == task.op \in {"Sync", "Close"}

Progress ==
    /\ Running
    /\ Between
    /\ IF IsSync THEN stored' \in {stored, content} ELSE stored' = stored
    /\ UNCHANGED task

(* A sync or close that returns without an error has stored the file.      *)
Return ==
    /\ Running
    /\ stored' = IF IsSync THEN content ELSE stored
    /\ IF task.op = "Close" THEN task' = Shut
       ELSE /\ content' = task.new
            /\ pos' = task.to
            /\ task' \in IF task.op = "Read" /\ task.to > pos
                         THEN {Got(content[task.to])} ELSE {Returned}

Fail ==
    /\ Running
    /\ Between
    /\ task' = IF task.op = "Close" THEN Shut ELSE Failed
    /\ UNCHANGED stored

LosePower == task' = Shut /\ UNCHANGED stored

Next == Open \/ Start \/ Progress \/ Return \/ Fail \/ LosePower

Spec == Init /\ [][Next]_vars
=============================================================================
