------------------------------- MODULE LfsTree -------------------------------
(***************************************************************************)
(* The directories of littlefs, commit by commit: every metadata pair is   *)
(* named by the entry of the directory above it and by the tail of the     *)
(* pair before it, and what an operation has to change in two pairs is     *)
(* announced in the global state, which is the exclusive or of what the    *)
(* pairs on the list hold.  Power may be lost between any two commits;     *)
(* MetadataPair has what happens within one.                               *)
(*                                                                         *)
(* A pointer <<p, v>> is the two blocks of a pair: a relocation replaces   *)
(* one of them, so that two pointers share a block when their v differ by  *)
(* one, and the one that is left holds what it held.                       *)
(*                                                                         *)
(* Simplifications: the pair of the superblock is the root and does not    *)
(* move; one commit does not both split and move a pair, and a new one is  *)
(* not moved by its first commit; files are not open during an operation   *)
(* (MetadataPair has that); what is asked for is legal where lfs.c does    *)
(* not check it: nothing is renamed to itself or below itself.             *)
(***************************************************************************)
EXTENDS Integers, Sequences, SequencesExt, FiniteSets, FiniteSetsExt, TLC

CONSTANTS
    Pairs,      \* 1, the root's, and those that are free
    Names,      \* numbers, in the order of the strings they stand for
    Depth,      \* of the paths
    Cap,        \* ids in a pair: with more it is split
    MaxOps,     \* bound: operations
    MaxMoves,   \* bound: relocations
    Careful     \* whether the cases that lfs.c gets wrong are left out

VARIABLES
    disk,   \* [Pairs -> [ver, now, old]]: the blocks of each pair
    ram,    \* lfs_t: gpending and gdelta, or Down
    todo,   \* the commits that are left of the operation
    view,   \* ghost: the tree that a mount would find now
    task,   \* ghost: what the caller asked for, or how it ended
    ops,    \* operations so far
    moves   \* relocations so far

vars == <<disk, ram, todo, view, task, ops, moves>>

Root == <<1, 0>>
Null == <<0, 0>>
Data == <<0, 1>>    \* the struct of a file
Orphans == <<Null, 0>>  \* announces that there may be some; a move is <<pair, name>>
File == "File"
Dir  == "Dir"
Down == [up |-> FALSE]

Paths == UNION {[1..n -> Names] : n \in 1..Depth}

(* The exclusive or of two states, as sets of what is announced.           *)
Xor(a, b) == (a \ b) \cup (b \ a)

SamePair(p, q) == p[1] = q[1] /\ p[2] - q[2] \in -1..1

At(dk, p) == IF p[2] = dk[p[1]].ver THEN dk[p[1]].now ELSE dk[p[1]].old

Here(p) == <<p, disk[p].ver>>

Blank == [ents |-> <<>>, tail |-> Null, split |-> FALSE, delta |-> {}]

-----------------------------------------------------------------------------
(* The pairs from one on, for as long as there is another to follow.  (The *)
(* singleton makes TLC evaluate what was accumulated once.)                *)
Follow(first, Successor(_)) ==
    LET More(list) == LET p == Successor(Last(list))
                      IN  IF p = Null \/ Contains(list, p) THEN list ELSE Append(list, p)
        l[n \in 0..Cardinality(Pairs)] ==
            IF n = 0 THEN <<first>> ELSE CHOOSE r \in {More(list) : list \in {l[n - 1]}} : TRUE
    IN  l[Cardinality(Pairs)]

(* The list of all pairs, as their tails link them, and the pairs of one   *)
(* directory from its head.                                                *)
ListOf(dk) == Follow(Root, LAMBDA p : At(dk, p).tail)

Chain(dk, head) == Follow(head, LAMBDA p : IF At(dk, p).split THEN At(dk, p).tail ELSE Null)

Listed(dk) == ToSet(ListOf(dk))

(* What lfs_mount() makes of the deltas it meets on the list: the          *)
(* exclusive or of all.                                                    *)
StateOnDisk(dk) ==
    LET deltas == {<<p, At(dk, p).delta>> : p \in Listed(dk)}
    IN  {x \in UNION {d[2] : d \in deltas} : Cardinality({d \in deltas : x \in d[2]}) % 2 = 1}

MovesOf(state) == state \ {Orphans}

(* The entries that a directory shows: not the one that has been moved.    *)
Shown(dk, head, state) ==
    UNION {LET m == At(dk, p)
               gone == {x[2] : x \in {x \in MovesOf(state) : SamePair(x[1], p)}}
           IN  {<<n, m.ents[n]>> : n \in DOMAIN m.ents \ gone} : p \in ToSet(Chain(dk, head))}

IsPointer(struct) == struct # Data

(* The paths there are, each with its entry.                               *)
Entries(dk) ==
    LET state == StateOnDisk(dk)
        below(head, path) == {<<Append(path, e[1]), e[2]>> : e \in Shown(dk, head, state)}
        level[n \in 1..Depth + 1] ==
            IF n = 1 THEN below(Root, <<>>)
            ELSE UNION {below(e[2], e[1]) : e \in {e \in level[n - 1] : IsPointer(e[2])}}
    IN  UNION {level[n] : n \in 1..Depth + 1}

View(dk) ==
    LET entries == Entries(dk)
    IN  [x \in {e[1] : e \in entries} |->
            IF \E e \in entries : e[1] = x /\ e[2] = Data THEN File ELSE Dir]

T == INSTANCE Tree WITH Kinds <- {File, Dir}, tree <- view

-----------------------------------------------------------------------------
(* lfs_dir_find(): the head that a path's directory has, the pair that     *)
(* holds a name or the one where it would go, and what it is there.        *)
HeadOf(path) ==
    IF path = <<>> THEN Root
    ELSE (CHOOSE e \in Entries(disk) : e[1] = path)[2]

Find(path) ==
    LET chain == Chain(disk, HeadOf(Front(path)))
        reaches(p) == \E n \in DOMAIN At(disk, p).ents : n >= Last(path)
        first == SelectInSeq(chain, reaches)
    IN  IF first = 0 THEN Last(chain) ELSE chain[first]

Struct(path) == At(disk, Find(path)).ents[Last(path)]

Exists(path) == path \in DOMAIN view

IsDir(path) == path = <<>> \/ (Exists(path) /\ view[path] = Dir)

IsEmpty(path) ==
    LET m == At(disk, Struct(path)) IN m.ents = <<>> /\ ~m.split

(* lfs_fs_pred(), lfs_fs_parent(): the first ones on the list, if any.     *)
Pred(p) ==
    SelectSeq(ListOf(disk), LAMBDA q : At(disk, q).tail # Null /\ SamePair(At(disk, q).tail, p))

NamesOf(q, p) ==
    LET ents == At(disk, q).ents
    IN  {n \in DOMAIN ents : IsPointer(ents[n]) /\ SamePair(ents[n], p)}

Parent(p) == SelectSeq(ListOf(disk), LAMBDA q : NamesOf(q, p) # {})

-----------------------------------------------------------------------------
(* What is left to do.  Attributes are names to delete, entries to put and *)
(* a tail, <<>> when it stays.                                             *)
NoAttrs == [del |-> {}, put |-> <<>>, tail |-> <<>>]

DelName(n)    == [NoAttrs EXCEPT !.del = {n}]
PutName(n, s) == [NoAttrs EXCEPT !.put = n :> s]
SoftTail(p)   == [NoAttrs EXCEPT !.tail = <<p, FALSE>>]
TailOf(m)     == [NoAttrs EXCEPT !.tail = <<m.tail, m.split>>]

Commit(at, attrs, orphans) == [do |-> "Commit", at |-> at, attrs |-> attrs, orphans |-> orphans]
Format(new, tail)          == [do |-> "Format", at |-> new, tail |-> tail]
Drop(dir, orphans)         == [do |-> "Drop", at |-> dir, orphans |-> orphans]
Relocated(old, new)        == [do |-> "Relocated", at |-> old, new |-> new]
Relink(old, new, orphans)  == [do |-> "Relink", at |-> old, new |-> new, orphans |-> orphans]
Deorphaned                 == [do |-> "Deorphaned"]

(* lfs_alloc(): a pair that is not on the list, nor allocated since.  The  *)
(* first one stands for any of them.                                       *)
Pending(item) ==
    IF item.do = "Commit" THEN {item.attrs.put[n] : n \in DOMAIN item.attrs.put} ELSE {}

Free == Pairs \ ({p[1] : p \in Listed(disk)}
                 \cup {p[1] : p \in UNION {Pending(todo[i]) : i \in DOMAIN todo}})

Alloc == Here(Min(Free))

(* gpending is changed, and gdelta by the same bits.                       *)
Bits(r) == r.moves \cup (IF r.orphans > 0 THEN {Orphans} ELSE {})

Announce(r, q) == [q EXCEPT !.delta = Xor(@, Xor(Bits(r), Bits(q)))]

AddsUp == Bits(ram) = Xor(StateOnDisk(disk), ram.delta)

PrepOrphansSilent(r, n) == [r EXCEPT !.orphans = @ + n]

PrepOrphans(r, n) == Announce(r, [r EXCEPT !.orphans = @ + n])

PrepMoveSilent(r, pair, name) == r

PrepMove(r, pair, name) == Announce(r, [r EXCEPT !.moves = {<<pair, name>>}])

-----------------------------------------------------------------------------
(* lfs_dir_commit(): attrs are written to a pair, with r as the global     *)
(* state and rest as what is left to do.                                   *)
Ids(p, ents) == Cardinality(DOMAIN ents) + (IF p = Root THEN 1 ELSE 0)

Only(ents, names) == [n \in names |-> ents[n]]

(* The entries of the upper half of the ids go to a new pair.              *)
Upper(p, ents) ==
    LET lower == Ids(p, ents) \div 2 - (IF p = Root THEN 1 ELSE 0)
    IN  {n \in DOMAIN ents : Cardinality({k \in DOMAIN ents : k <= n}) > lower}

Stored(dk, p, m) ==
    IF p[2] = dk[p[1]].ver THEN [dk EXCEPT ![p[1]].now = m]
                           ELSE [dk EXCEPT ![p[1]].old = m]

(* What the tree is and how the operation stands when a commit is written. *)
Written(dk, rest) ==
    /\ disk' = dk
    /\ todo' = rest
    /\ view' = View(dk)
    /\ task' = IF view' # view \/ (rest = <<>> /\ task \notin T!Idle)
               THEN T!Returned ELSE task
    /\ UNCHANGED ops

DirCommit(at, attrs, r, rest) ==
    LET old   == At(disk, at)
        moved == {x \in r.moves : SamePair(x[1], at)}
        gone  == attrs.del \cup {x[2] : x \in moved}
        ents  == attrs.put @@ Only(old.ents, DOMAIN old.ents \ gone)
        new   == [ents  |-> ents,
                  tail  |-> IF attrs.tail = <<>> THEN old.tail ELSE attrs.tail[1],
                  split |-> IF attrs.tail = <<>> THEN old.split ELSE attrs.tail[2],
                  delta |-> Xor(old.delta, Xor(r.delta, moved))]
        done  == [r EXCEPT !.moves = @ \ moved, !.delta = {}]
        chain == SelectSeq(Pred(at), LAMBDA q : At(disk, q).split)
        drops == gone # {} /\ ents = <<>> /\ chain # <<>>
        split == Ids(at, ents) > Cap /\ Free # {}
    IN  \/ /\ drops
           /\ todo' = <<Commit(Head(chain), TailOf(old), 0)>> \o rest
           /\ ram' = [r EXCEPT !.delta = Xor(@, Xor(moved, old.delta))]
           /\ UNCHANGED <<disk, view, task, ops, moves>>
        \/ /\ ~drops
           /\ ~split
           /\ ram' = done
           /\ Written(Stored(disk, at, new), rest)
           /\ UNCHANGED moves
        \/ /\ ~drops
           /\ split
           /\ LET upper == Upper(at, ents)
                  tail  == [new EXCEPT !.ents = Only(ents, upper), !.delta = Xor(r.delta, moved)]
                  lower == [new EXCEPT !.ents = Only(ents, DOMAIN ents \ upper),
                                       !.tail = Alloc, !.split = TRUE, !.delta = old.delta]
              IN  Written(Stored(Stored(disk, Alloc, tail), at, lower), rest)
           /\ ram' = done
           /\ UNCHANGED moves
        \/ /\ ~drops
           /\ ~split
           /\ at # Root
           /\ at \in Listed(disk)
           /\ moves < MaxMoves
           /\ Careful => rest = <<>> /\ old.delta = {} /\ AddsUp
           /\ moves' = moves + 1
           /\ ram' = [done EXCEPT !.delta = new.delta]
           /\ Written([disk EXCEPT ![at[1]] = [ver |-> at[2] + 1, old |-> old,
                                              now |-> [new EXCEPT !.delta = {}]]],
                      <<Relocated(at, <<at[1], at[2] + 1>>)>> \o rest)

-----------------------------------------------------------------------------
(* The steps of an operation, or of a repair.                              *)
First == Head(todo)

DoCommit ==
    /\ todo # <<>> /\ First.do = "Commit"
    /\ DirCommit(First.at, First.attrs, PrepOrphans(ram, First.orphans), Tail(todo))

(* The first commit of a new pair: what its blocks held does not count.    *)
DoFormat ==
    /\ todo # <<>> /\ First.do = "Format"
    /\ Written([disk EXCEPT ![First.at[1]].now =
                    [Blank EXCEPT !.tail = First.tail, !.delta = ram.delta]], Tail(todo))
    /\ ram' = [ram EXCEPT !.delta = {}]
    /\ UNCHANGED moves

(* lfs_dir_drop(): the pair before takes the tail and the state.           *)
DropPairForgets(pred, dir, r, rest) == DirCommit(pred, TailOf(At(disk, dir)), r, rest)

DropPair(pred, dir, r, rest) ==
    DirCommit(pred, TailOf(At(disk, dir)), [r EXCEPT !.delta = Xor(@, At(disk, dir).delta)], rest)

DoDrop ==
    /\ todo # <<>> /\ First.do = "Drop"
    /\ DropPair(Head(Pred(First.at)), First.at, PrepOrphans(ram, First.orphans), Tail(todo))

(* lfs_fs_relocate(): first the parent, then the pair before.              *)
DoRelocated ==
    /\ todo # <<>> /\ First.do = "Relocated"
    /\ LET old    == First.at
           new    == First.new
           parent == Parent(old)
       IN  IF parent = <<>>
           THEN /\ todo' = <<Relink(old, new, 0)>> \o Tail(todo)
                /\ UNCHANGED <<disk, ram, view, task, ops, moves>>
           ELSE \E name \in NamesOf(Head(parent), old) :
                    DirCommit(Head(parent), PutName(name, new), PrepOrphans(ram, 1),
                              <<Relink(old, new, -1)>> \o Tail(todo))

DoRelink ==
    /\ todo # <<>> /\ First.do = "Relink"
    /\ LET pred == Pred(First.at)
           r    == PrepOrphans(ram, First.orphans)
       IN  IF pred = <<>>
           THEN /\ ram' = r
                /\ todo' = Tail(todo)
                /\ UNCHANGED <<disk, view, task, ops, moves>>
           ELSE DirCommit(Head(pred),
                    [NoAttrs EXCEPT !.tail = <<First.new, At(disk, Head(pred)).split>>],
                    r, Tail(todo))

DoDeorphaned ==
    /\ todo # <<>> /\ First.do = "Deorphaned"
    /\ ram' = PrepOrphans(ram, -ram.orphans)
    /\ todo' = Tail(todo)
    /\ UNCHANGED <<disk, view, task, ops, moves>>

Step == DoCommit \/ DoFormat \/ DoDrop \/ DoRelocated \/ DoRelink \/ DoDeorphaned

-----------------------------------------------------------------------------
(* lfs_fs_forceconsistency(), with which every operation begins.           *)
Idle == ram.up /\ todo = <<>>

Demove ==
    /\ Idle
    /\ \E x \in ram.moves : DirCommit(x[1], NoAttrs, ram, <<>>)

(* The head of a directory that has no parent is taken off the list; one   *)
(* that its parent names otherwise is named so by the list.  The search    *)
(* ends with the first of them.                                            *)
Deorphan ==
    /\ Idle
    /\ ram.moves = {}
    /\ ram.orphans > 0
    /\ LET list == ListOf(disk)
           Named(i) == LET q == Parent(list[i])
                       IN  {At(disk, Head(q)).ents[n] : n \in NamesOf(Head(q), list[i])}
           Wrong == {i \in 2..Len(list) :
                        /\ ~At(disk, list[i - 1]).split
                        /\ Parent(list[i]) # <<>> => list[i] \notin Named(i)}
       IN  IF Wrong = {}
           THEN /\ ram' = PrepOrphans(ram, -ram.orphans)
                /\ UNCHANGED <<disk, todo, view, task, ops, moves>>
           ELSE LET i == Min(Wrong)
                IN  IF Parent(list[i]) = <<>>
                    THEN DropPair(list[i - 1], list[i], ram, <<Deorphaned>>)
                    ELSE \E p \in Named(i) :
                            DirCommit(list[i - 1], SoftTail(p), ram, <<Deorphaned>>)

-----------------------------------------------------------------------------
(* The operations.                                                         *)
Begin(what, r, items) ==
    /\ Idle
    /\ ram.moves = {} /\ ram.orphans = 0
    /\ ops < MaxOps
    /\ ops' = ops + 1
    /\ task' = what
    /\ ram' = r
    /\ todo' = items
    /\ UNCHANGED <<disk, view, moves>>

(* lfs_file_open() of a name that is new.                                  *)
Create(path) ==
    /\ Idle
    /\ IsDir(Front(path)) /\ ~Exists(path)
    /\ Begin(T!Put(path, File), ram, <<Commit(Find(path), PutName(Last(path), Data), 0)>>)

(* The new pair is put on the list before it is named, in two commits when *)
(* the end of its parent is another pair than the one that names it.       *)
MakeDir(path) ==
    /\ Idle
    /\ IsDir(Front(path)) /\ ~Exists(path)
    /\ Free # {}
    /\ LET new   == Alloc
           cwd   == Find(path)
           last  == Last(Chain(disk, HeadOf(Front(path))))
           fresh == Format(new, At(disk, last).tail)
           named == PutName(Last(path), new)
       IN  Begin(T!Put(path, Dir), ram,
               IF cwd = last
               THEN <<fresh, Commit(cwd, [named EXCEPT !.tail = <<new, FALSE>>], 0)>>
               ELSE <<fresh, Commit(last, SoftTail(new), 1), Commit(cwd, named, -1)>>)

Unlink(path) ==
    /\ Idle
    /\ Exists(path)
    /\ LET gone == Commit(Find(path), DelName(Last(path)), 0)
       IN  IF view[path] = File
           THEN Begin(T!Delete(path), ram, <<gone>>)
           ELSE /\ IsEmpty(path)
                /\ Begin(T!Delete(path), PrepOrphans(ram, 1), <<gone, Drop(Struct(path), -1)>>)

Rename(old, new) ==
    /\ Idle
    /\ Exists(old) /\ IsDir(Front(new))
    /\ ~IsPrefix(old, new)
    /\ Exists(new) => view[old] = view[new] /\ (view[new] = Dir => IsEmpty(new))
    /\ LET from == Find(old)
           to   == Find(new)
           over == Exists(new) /\ view[new] = Dir
           last == DOMAIN At(disk, from).ents = {Last(old)}
           put  == [PutName(Last(new), Struct(old)) EXCEPT
                        !.del = IF Exists(new) THEN {Last(new)} ELSE {}]
           r    == IF over THEN PrepOrphans(ram, 1) ELSE ram
       IN  /\ Careful => from = to \/ ~last \/ from = HeadOf(Front(old))
           /\ Begin(T!Rename(old, new), PrepMove(r, from, Last(old)),
                    <<Commit(to, put, 0)>>
                    \o (IF from = to THEN <<>> ELSE <<Commit(from, NoAttrs, 0)>>)
                    \o (IF over THEN <<Drop(Struct(new), -1)>> ELSE <<>>))

-----------------------------------------------------------------------------
(* Between operations a loss of power matters only when something is still *)
(* to be announced: StateAddsUp.                                           *)
PowerLoss ==
    /\ ram.up
    /\ todo # <<>> \/ ram.delta # {}
    /\ ram' = Down
    /\ todo' = <<>>
    /\ task' = IF task \in T!Idle THEN task ELSE T!Failed
    /\ UNCHANGED <<disk, view, ops, moves>>

Mount ==
    /\ ~ram.up
    /\ LET state == StateOnDisk(disk)
       IN  ram' = [up |-> TRUE, moves |-> MovesOf(state), delta |-> {},
                   orphans |-> IF Orphans \in state THEN 1 ELSE 0]
    /\ UNCHANGED <<disk, todo, view, task, ops, moves>>

(* A new file system, or a root of two pairs, as it is when the last of    *)
(* three files has been removed, whose second one has a file or an empty   *)
(* directory.                                                              *)
Formatted == [p \in Pairs |-> [ver |-> 0, now |-> Blank, old |-> Blank]]

Chained(struct) ==
    [Formatted EXCEPT
        ![1].now = [Blank EXCEPT !.ents = 2 :> Data, !.tail = <<2, 0>>, !.split = TRUE],
        ![2].now = [Blank EXCEPT !.ents = 3 :> struct,
                                 !.tail = IF IsPointer(struct) THEN struct ELSE Null]]

Init ==
    /\ disk \in {Formatted, Chained(Data), Chained(<<3, 0>>)}
    /\ ram = Down
    /\ todo = <<>>
    /\ view = View(disk)
    /\ task = T!Returned
    /\ ops = 0
    /\ moves = 0

Next ==
    \/ \E p \in Paths : Create(p) \/ MakeDir(p) \/ Unlink(p)
    \/ \E p, q \in Paths : Rename(p, q)
    \/ Step \/ Demove \/ Deorphan \/ PowerLoss \/ Mount

Spec == Init /\ [][Next]_vars

-----------------------------------------------------------------------------
(* The tree that a loss of power would leave is the one before the         *)
(* operation or the one after it, whichever commits it had come to, and a  *)
(* repair changes nothing of it (lfs_mkdir, lfs_remove, lfs_rename,        *)
(* lfs_fs_relocate, lfs_fs_forceconsistency).                              *)
KeepsTree == T!Spec

(* Between operations, what the program believes is announced is what the  *)
(* deltas on the list add up to, with the one that the next commit is to   *)
(* add (lfs_dir_getgstate, lfs_dir_drop, lfs_fs_deorphan).                 *)
StateAddsUp == ram.up /\ todo = <<>> => AddsUp

(* Unless the state says otherwise, the directories that can be reached    *)
(* and the list hold the same pairs, by the same blocks: the allocator     *)
(* takes what is not on the list, and what is on it is in use for ever     *)
(* (lfs_mkdir, lfs_fs_relocate, lfs_fs_deorphan, lfs_fs_traverse).         *)
Heads == {Root} \cup {e[2] : e \in {e \in Entries(disk) : IsPointer(e[2])}}

Reached == UNION {ToSet(Chain(disk, h)) : h \in Heads}

ListHoldsTree == Orphans \notin StateOnDisk(disk) => Reached = Listed(disk)
=============================================================================
