-------------------------------- MODULE Tree --------------------------------
(***************************************************************************)
(* What the directories of littlefs promise together: files and            *)
(* directories that a loss of power finds as they were before an operation *)
(* or as they are after it, whole subtrees that are renamed included.      *)
(***************************************************************************)
EXTENDS Sequences, SequencesExt

CONSTANTS Paths, Kinds      \* sequences of names, and what is found there

VARIABLES
    tree,       \* what a mount would find now: [path -> kind], partial
    task        \* the operation under way, or how the last one ended

vars == <<tree, task>>

Dir == "Dir"        \* the kind of a directory

Returned == [op |-> "Returned"]     \* without an error
Failed   == [op |-> "Failed"]       \* with one, or cut off
Idle == {Returned, Failed}

Put(p, k)    == [op |-> "Put", path |-> p, kind |-> k]
Delete(p)    == [op |-> "Delete", path |-> p]
Rename(p, q) == [op |-> "Rename", path |-> p, new |-> q]

Under(f, p) == {x \in DOMAIN f : IsPrefix(p, x)}

(* The path q stands for p, and what is below for what was below p.        *)
Rebased(x, p, q) == q \o SubSeq(x, Len(p) + 1, Len(x))

Effect(f, t) ==
    CASE t.op = "Put"    -> [x \in DOMAIN f \cup {t.path} |->
                                IF x = t.path THEN t.kind ELSE f[x]]
      [] t.op = "Delete" -> [x \in DOMAIN f \ {t.path} |-> f[x]]
      [] t.op = "Rename" ->
            LET moved == Under(f, t.path)
                kept  == DOMAIN f \ (moved \cup {t.new})
            IN  [x \in kept \cup {Rebased(y, t.path, t.new) : y \in moved} |->
                    IF x \in kept THEN f[x] ELSE f[Rebased(x, t.new, t.path)]]

IsDir(p) == p = <<>> \/ (p \in DOMAIN tree /\ tree[p] = Dir)

Childless(p) == Under(tree, p) = {p}

MayRename(p, q) ==
    /\ IsDir(Front(q))
    /\ ~IsPrefix(p, q)
    /\ q \in DOMAIN tree => (tree[q] = Dir) = (tree[p] = Dir) /\ Childless(q)

Init ==
    /\ DOMAIN tree \subseteq Paths
    /\ \A x \in DOMAIN tree : tree[x] \in Kinds
    /\ task = Returned

Start ==
    /\ task \in Idle
    /\ task' \in
        {Put(p, k) : p \in {x \in Paths : IsDir(Front(x)) /\ x \notin DOMAIN tree}, k \in Kinds}
        \cup {Delete(p) : p \in {x \in DOMAIN tree : Childless(x)}}
        \cup {Rename(x[1], x[2]) :
                x \in {x \in (DOMAIN tree) \X Paths : MayRename(x[1], x[2])}}
    /\ UNCHANGED tree

Finish ==
    /\ task \notin Idle
    /\ tree' = Effect(tree, task)
    /\ task' = Returned

(* An error, or a loss of power before the operation took effect.          *)
GiveUp ==
    /\ task \notin Idle
    /\ task' = Failed
    /\ UNCHANGED tree

Next == Start \/ Finish \/ GiveUp

Spec == Init /\ [][Next]_vars
=============================================================================
