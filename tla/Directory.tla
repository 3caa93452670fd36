----------------------------- MODULE Directory ------------------------------
(***************************************************************************)
(* What a metadata pair promises: a directory that a loss of power finds   *)
(* as it was before an operation or as it is after it, and an operation    *)
(* that has returned without an error is not undone.                       *)
(***************************************************************************)
EXTENDS Naturals

CONSTANTS Names, Structs

VARIABLES
    entries,    \* what a mount would find now: [name -> struct], partial
    task        \* the operation under way, or how the last one ended

vars == <<entries, task>>

Returned == [op |-> "Returned"]     \* without an error
Failed   == [op |-> "Failed"]       \* with one, or cut off
Idle == {Returned, Failed}

Put(n, s)    == [op |-> "Put", name |-> n, struct |-> s]
Remove(n)    == [op |-> "Remove", name |-> n]
Rename(a, b) == [op |-> "Rename", name |-> a, new |-> b]

Without(f, n) == [m \in DOMAIN f \ {n} |-> f[m]]

With(f, n, s) == [m \in DOMAIN f \cup {n} |-> IF m = n THEN s ELSE f[m]]

Effect(f, t) ==
    CASE t.op = "Put"    -> With(f, t.name, t.struct)
      [] t.op = "Remove" -> Without(f, t.name)
      [] t.op = "Rename" -> IF t.name = t.new THEN f
                            ELSE With(Without(f, t.name), t.new, f[t.name])

Init ==
    /\ entries \in UNION {[D -> Structs] : D \in SUBSET Names}
    /\ task = Returned

Start ==
    /\ task \in Idle
    /\ task' \in {Put(n, s) : n \in Names, s \in Structs}
              \cup {Remove(n) : n \in DOMAIN entries}
              \cup {Rename(a, b) : a \in DOMAIN entries, b \in Names}
    /\ UNCHANGED entries

Finish ==
    /\ task \notin Idle
    /\ entries' = Effect(entries, task)
    /\ task' = Returned

(* An error, or a loss of power before the operation took effect.          *)
GiveUp ==
    /\ task \notin Idle
    /\ task' = Failed
    /\ UNCHANGED entries

Next == Start \/ Finish \/ GiveUp

Spec == Init /\ [][Next]_vars
=============================================================================
