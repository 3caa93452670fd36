------------------------------- MODULE DirLog -------------------------------
(***************************************************************************)
(* The log of a metadata pair of littlefs: what a sequence of tags means,  *)
(* and the ways in which lfs.c reads it.  A block holds the tags in the    *)
(* order they were committed; CREATE and DELETE move the ids of the        *)
(* entries behind them, NAME and STRUCT set the parts of an entry.         *)
(*                                                                         *)
(* A tag is a record [t |-> type, id |-> id, val |-> what it carries].     *)
(* Names are numbers in the order of their strings.  USERATTR tags, which  *)
(* MLittleFS never writes, and the bits that chain the tags are left out;  *)
(* tails and global state, which have no id, are in LfsTree.               *)
(***************************************************************************)
EXTENDS Integers, Sequences, SequencesExt

Tag(t, id, val) == [t |-> t, id |-> id, val |-> val]

(* The folds of a log from its front and from its end, as functions: those *)
(* of SequencesExt enumerate the subsets of its indices.  (The singleton   *)
(* makes TLC evaluate what was accumulated once.)                          *)
Forward(op(_, _), base, log) ==
    LET acc[i \in 0..Len(log)] ==
            IF i = 0 THEN base
            ELSE CHOOSE r \in {op(a, log[i]) : a \in {acc[i - 1]}} : TRUE
    IN  acc[Len(log)]

Backward(op(_, _), base, log) == Forward(op, base, Reverse(log))

None == 0           \* LFS_ERR_NOENT: there is no such tag; no name is 0
NoId == 1023        \* 0x3ff, the id of what has no entry

(***************************************************************************)
(* What a log stands for, without any of lfs.c's shortcuts: the entries in *)
(* their order after the tags have been applied one by one.                *)
(***************************************************************************)
Blank == [name |-> None, struct |-> None]

Apply(ents, tag) ==
    CASE tag.t = "CREATE" -> InsertAt(ents, tag.id + 1, Blank)
      [] tag.t = "DELETE" -> RemoveAt(ents, tag.id + 1)
      [] tag.t = "NAME"   ->
            IF tag.id < Len(ents)
            THEN [ents EXCEPT ![tag.id + 1].name = tag.val]
            ELSE ents \o [i \in 1..tag.id - Len(ents) |-> Blank]
                      \o <<[Blank EXCEPT !.name = tag.val]>>
      [] tag.t = "STRUCT" -> [ents EXCEPT ![tag.id + 1].struct = tag.val]

Replay(log) == Forward(Apply, <<>>, log)

(***************************************************************************)
(* What lfs.c makes of it.                                                 *)
(***************************************************************************)
Splice(tag) == CASE tag.t = "CREATE" -> 1
                 [] tag.t = "DELETE" -> -1
                 [] OTHER            -> 0

IsSplice(tag) == tag.t \in {"CREATE", "DELETE"}

(* The entries counted while a block is fetched.                           *)
CountStep(n, tag) ==
    IF tag.t = "NAME" /\ tag.id >= n THEN tag.id + 1 ELSE n + Splice(tag)

Count(log) == Forward(CountStep, 0, log)

GetTagUnshifted(log, type, id) ==
    LET found == SelectSeq(log, LAMBDA tag : tag.t = type /\ tag.id = id)
    IN  IF found = <<>> THEN None ELSE Last(found).val

(* The tag of a type and id, searched from the end of the log: the id is   *)
(* taken back through the splices on the way.                              *)
GetStep(type, acc, tag) ==
    IF acc.done THEN acc
    ELSE IF IsSplice(tag) /\ tag.id <= acc.id
         THEN [acc EXCEPT !.done = (tag.t = "CREATE" /\ tag.id = acc.id),
                          !.id = @ - Splice(tag)]
    ELSE IF tag.t = type /\ tag.id = acc.id
         THEN [acc EXCEPT !.done = TRUE, !.val = tag.val]
    ELSE acc

GetFrom(log, type, start) ==
    LET Step(acc, tag) == GetStep(type, acc, tag) IN Backward(Step, start, log)

GetTag(log, type, id) ==
    GetFrom(log, type, [done |-> FALSE, id |-> id, val |-> None]).val

(* What becomes of a tag when those behind it are looked through:          *)
(* superseded, or kept with the id it has in the end.                      *)
Filter(acc, later) ==
    IF \/ acc.redundant
       \/ later.t = acc.tag.t /\ later.id = acc.tag.id
       \/ later.t = "DELETE" /\ later.id = acc.tag.id
    THEN [acc EXCEPT !.redundant = TRUE]
    ELSE IF IsSplice(later) /\ later.id <= acc.tag.id
    THEN [acc EXCEPT !.tag.id = @ + Splice(later)]
    ELSE acc

(* The tags a compaction writes: names and structs that are not            *)
(* superseded, in the order of the log, and no splice.                     *)
Fate(log, i) ==
    Forward(Filter, [redundant |-> FALSE, tag |-> log[i]], SubSeq(log, i + 1, Len(log)))

IsKept(log, i) == ~IsSplice(log[i]) /\ ~Fate(log, i).redundant

Compacted(log) ==
    FlattenSeq([i \in 1..Len(log) |->
                   IF IsKept(log, i) THEN <<Fate(log, i).tag>> ELSE <<>>])

(* LFS_FROM_MOVE: the structs of an entry, as tags of another id.          *)
MovedTags(log, from, to) ==
    LET kept == Compacted(log)
    IN  FlattenSeq([i \in 1..Len(kept) |->
                       IF kept[i].t = "STRUCT" /\ kept[i].id = from
                       THEN <<[kept[i] EXCEPT !.id = to]>> ELSE <<>>])

(* The search for a name while the block is fetched: the entry that has    *)
(* it, or the place where it would go to keep the names in order.          *)
FindStep(name, best, tag) ==
    IF IsSplice(tag) THEN
        IF tag.t = "DELETE" /\ tag.id = best.id
        THEN [best EXCEPT !.valid = FALSE]
        ELSE IF best.id # NoId /\ tag.id <= best.id
        THEN [best EXCEPT !.id = @ + Splice(tag)]
        ELSE best
    ELSE IF tag.t = "NAME" /\ tag.val = name
    THEN [id |-> tag.id, valid |-> TRUE]
    ELSE IF tag.t = "NAME" /\ tag.val > name /\ tag.id <= best.id
    THEN [id |-> tag.id, valid |-> FALSE]
    ELSE best

BestMatch(log, name) ==
    LET Step(best, tag) == FindStep(name, best, tag)
    IN  Forward(Step, [id |-> NoId, valid |-> FALSE], log)

FindName(log, name) ==
    [BestMatch(log, name) EXCEPT !.id = IF @ < Count(log) THEN @ ELSE Count(log)]

(***************************************************************************)
(* The attributes the operations commit, built from the log as fetched.    *)
(***************************************************************************)
CreateAttrs(log, name, val) ==
    LET id == FindName(log, name).id
    IN  <<Tag("CREATE", id, None), Tag("NAME", id, name), Tag("STRUCT", id, val)>>

RemoveAttrs(log, name) == <<Tag("DELETE", FindName(log, name).id, None)>>

(* In one directory the entry that was moved is deleted by the commit that *)
(* writes the new one; its id is the one it has behind that.               *)
RenameAttrs(log, old, new) ==
    LET from == FindName(log, old).id
        to   == FindName(log, new)
        gone == IF ~to.valid /\ to.id <= from THEN from + 1 ELSE from
    IN  (IF to.valid THEN <<Tag("DELETE", to.id, None)>> ELSE <<>>)
        \o <<Tag("CREATE", to.id, None), Tag("NAME", to.id, new)>>
        \o MovedTags(log, from, to.id)
        \o <<Tag("DELETE", gone, None)>>
=============================================================================
