------------------------------- MODULE LfsFile ------------------------------
(***************************************************************************)
(* The files of littlefs: lists of blocks that are never written twice,    *)
(* and the allocator that finds free blocks by a window that it fills with *)
(* what the directories and the open files hold.  A call is a list of      *)
(* phases, a phase is one step for each unit (what a cache holds) that is  *)
(* programmed; the device may fail and power may be lost between any two.  *)
(*                                                                         *)
(* Simplifications: every handle has a file of its own, whose entry is     *)
(* there (MetadataPair and LfsTree create and remove them) and takes no    *)
(* block; the pointers at the front of a block take no room in it (only    *)
(* IndexIsPlace counts it); a block fails at most once for each unit.      *)
(***************************************************************************)
EXTENDS Integers, Sequences, SequencesExt, FiniteSets, FiniteSetsExt

CONSTANTS
    Handles,        \* the files
    Appenders,      \* those that are opened with LFS_O_APPEND; the others may be
                    \* with LFS_O_TRUNC
    BlockCount,     \* blocks there are for them
    BlockSize,      \* units in a block
    InlineMax,      \* units that fit in the entry
    Lookahead,      \* blocks in the allocator's window
    Seeds,          \* where the window may begin after a mount
    Layouts,        \* [Handles -> [size, at]]: how long the files are at first, and
                    \* where they begin
    Places,         \* for each, positions to seek to and sizes to truncate to
    Amounts,        \* for each, units to write
    MaxSize,        \* bound: units in a file
    MaxOps,         \* bound: calls
    MaxFails,       \* bound: failures of the device and of commits
    Careful         \* whether the cases that lfs.c gets wrong are left out

ASSUME HandlesAssumption == Handles \subseteq Nat
ASSUME BlockSizeAssumption == BlockSize \in Nat \ {0}
ASSUME BlockCountAssumption == BlockCount \in Nat \ {0}
ASSUME LookaheadAssumption == Lookahead \in Nat \ {0}
ASSUME InlineAssumption == InlineMax \in 0..BlockSize
ASSUME SeedsAssumption == Seeds \subseteq Nat
ASSUME CallsAssumption ==
    /\ Places \in [Handles -> SUBSET Nat]
    /\ Amounts \in [Handles -> SUBSET (Nat \ {0})]
    /\ MaxSize \in Nat /\ MaxOps \in Nat /\ MaxFails \in Nat

VARIABLES
    flash,      \* [block -> [heads, data]]: its pointers and its units
    entry,      \* [Handles -> [inl, head, bytes, size]]: the structs on disk
    files,      \* [Handles -> lfs_file_t]
    free,       \* lfs_t.free: the allocator's window
    call,       \* the handle of the call under way and its phases
    task,       \* ghost: [Handles -> the call as its caller sees it]
    missed,     \* ghost: whether one searched all blocks and found none, and a block was
                \* free and not marked
    ops,        \* calls so far
    fails       \* failures so far

vars == <<flash, entry, files, free, call, task, missed, ops, fails>>

Blocks == 0..BlockCount - 1
None   == -1        \* LFS_BLOCK_NULL
Inline == -2        \* LFS_BLOCK_INLINE
NoCall == [h |-> None, phases |-> <<>>]
Closed == [open |-> FALSE]

Longer(m, n) == IF m > n THEN m ELSE n

-----------------------------------------------------------------------------
(* Lists of blocks: block i of a file points to block i - 2^k for every k  *)
(* for which 2^k divides i.                                                *)
Index(pos) == pos \div BlockSize

Pow2[k \in Nat] == IF k = 0 THEN 1 ELSE 2 * Pow2[k - 1]

Ctz(n)  == Max({k \in 0..n : n % (Pow2[k]) = 0})
Npw2(n) == Min({k \in 0..n : Pow2[k] >= n})
Popc(n) == Cardinality({k \in 0..n : (n \div Pow2[k]) % 2 = 1})

(* lfs_ctz_index(), where the pointers take their room, four bytes each: a *)
(* byte of a file, as an index of a block of so many and an offset in it.  *)
CtzIndex(block, pos) ==
    LET b == block - 2 * 4
        n == pos \div b
        i == IF n = 0 THEN 0 ELSE (pos - 4 * (Popc(n - 1) + 2)) \div b
    IN  [index |-> i, off |-> IF n = 0 THEN pos ELSE pos - b * i - 4 * Popc(i)]

(* (The singleton makes TLC evaluate what was accumulated once.)           *)
Iterate(Op(_), x, n) ==
    LET f[i \in 0..n] ==
            IF i = 0 THEN x ELSE CHOOSE r \in {Op(y) : y \in {f[i - 1]}} : TRUE
    IN  f[n]

(* lfs_ctz_find(): the block of a position.                                *)
Find(fl, head, size, pos) ==
    LET Skip(at) ==
            IF at.index <= Index(pos) THEN at
            ELSE LET skip == Min({Npw2(at.index - Index(pos) + 1) - 1, Ctz(at.index)})
                 IN  [block |-> fl[at.block].heads[skip + 1], index |-> at.index - Pow2[skip]]
    IN  IF size = 0 THEN None
        ELSE Iterate(Skip, [block |-> head, index |-> Index(size - 1)], Index(size - 1)).block

(* lfs_ctz_traverse(): two blocks at a time.  What is not a pointer leads  *)
(* nowhere.                                                                *)
Traverse(fl, head, size) ==
    LET Two(at) ==
            LET heads == fl[at.block].heads
                count == 2 - (at.index % 2)
            IN  IF at.index <= 0 \/ Len(heads) < count THEN [at EXCEPT !.index = 0]
                ELSE [block |-> heads[count], index |-> at.index - count,
                      seen |-> at.seen \cup {heads[i] : i \in 1..count}]
    IN  IF size = 0 THEN {}
        ELSE Iterate(Two, [block |-> head, index |-> Index(size - 1), seen |-> {head}],
                     Index(size - 1)).seen

(* The list one by one, and the units it holds.                            *)
Chain(fl, head, size) ==
    LET Back(list) ==
            IF fl[Head(list)].heads = <<>> THEN list ELSE <<fl[Head(list)].heads[1]>> \o list
    IN  Iterate(Back, <<head>>, Index(size - 1))

Bytes(fl, head, size) ==
    IF size = 0 THEN <<>>
    ELSE LET chain == Chain(fl, head, size)
             data[i \in 0..Len(chain)] ==
                 IF i = 0 THEN <<>> ELSE data[i - 1] \o fl[chain[i]].data
         IN  SubSeq(data[Len(chain)], 1, Min({size, Len(data[Len(chain)])}))

-----------------------------------------------------------------------------
(* What lfs_fs_traverse() finds: the lists of the entries, and of the open *)
(* files those that are not on disk yet.                                   *)
InEntries == UNION {Traverse(flash, entry[h].head, entry[h].size) :
                        h \in {h \in Handles : ~entry[h].inl}}

InFileFlushed(fl, f) ==
    IF f.open /\ ~f.inl /\ f.dirty THEN Traverse(fl, f.head, f.size) ELSE {}

InFile(fl, f) ==
    IF ~f.open \/ f.inl THEN {}
    ELSE (IF f.dirty THEN Traverse(fl, f.head, f.size) ELSE {})
         \cup (IF f.writing THEN Traverse(fl, f.block, f.pos) ELSE {})

Used(fl, fs) == InEntries \cup UNION {InFile(fl, fs[h]) : h \in Handles}

(* What lfs_alloc_lookahead() marks for a block: a bit of the window, by   *)
(* arithmetic on 32 bits.  LFS_BLOCK_INLINE, the head of a file that has   *)
(* left its entry and not been flushed, marks a block that it does not     *)
(* hold: the last but one.                                                 *)
Marks(used) == {b % BlockCount : b \in used}

AckedNever(fr) == fr

Acked(fr) == [fr EXCEPT !.ack = BlockCount]

(* lfs_alloc(): the rest of the window is searched, and the blocks in use  *)
(* behind the one found are passed over; then window after window until    *)
(* all blocks have been looked at since the last acknowledgement.  (Ghost: *)
(* whether all blocks are in use, but what LFS_BLOCK_INLINE marks.)        *)
Window(fr, used) ==
    LET size == Min({Lookahead, fr.ack})
        off  == (fr.off + fr.size) % BlockCount
    IN  [off |-> off, size |-> size, i |-> 0, ack |-> fr.ack,
         taken |-> {n \in 0..size - 1 : (off + n) % BlockCount \in Marks(used)}]

Search(fr) ==
    LET vacant == (fr.i..fr.size - 1) \ fr.taken
        i == Min((vacant \ {Min(vacant)}) \cup {fr.size})
    IN  IF vacant = {}
        THEN [block |-> None, free |-> [fr EXCEPT !.i = fr.size, !.ack = @ - (fr.size - fr.i)]]
        ELSE [block |-> (fr.off + Min(vacant)) % BlockCount,
              free |-> [fr EXCEPT !.i = i, !.ack = @ - (i - fr.i)]]

Alloc(fr, used) ==
    LET More(a) == IF a.block # None \/ a.free.ack = 0 THEN a
                   ELSE Search(Window(a.free, used))
        found == Iterate(More, Search(fr), BlockCount)
    IN  [block |-> found.block, free |-> found.free,
         full |-> Blocks \ used \subseteq Marks(used \cap {Inline})]

-----------------------------------------------------------------------------
(* The handles.                                                            *)
Content(fl, f) ==
    IF ~f.open THEN <<>>
    ELSE LET front == IF f.writing /\ ~f.inl THEN Bytes(fl, f.block, f.pos) ELSE <<>>
             whole == IF f.head = Inline THEN f.cache ELSE Bytes(fl, f.head, f.size)
         IN  front \o SubSeq(whole, Len(front) + 1, Len(whole))

Stored(e) == IF e.inl THEN e.bytes ELSE Bytes(flash, e.head, e.size)

F(h) == INSTANCE ByteFile WITH
            stored  <- Stored(entry[h]),
            content <- Content(flash, files[h]),
            pos     <- IF files[h].open THEN files[h].pos ELSE 0,
            task    <- task[h]

-----------------------------------------------------------------------------
(* Phases of calls.                                                        *)
Flush(back)  == [do |-> "Flush", back |-> back]     \* and go back to a position
Fill(to)     == [do |-> "Fill", to |-> to]
Put(val, n)  == [do |-> "Put", val |-> val, n |-> n]
Get          == [do |-> "Get"]
Move(to)     == [do |-> "Move", to |-> to]
Cut(to)      == [do |-> "Cut", to |-> to]
Store        == [do |-> "Store"]
Leave        == [do |-> "Leave"]

First  == Head(call.phases)
Others == Tail(call.phases)
h0     == call.h
file   == files[h0]

Busy(do) == call # NoCall /\ First.do = do

(* The phases that are left after a step, with none the call returns.      *)
Go(f, phases) ==
    IF phases # <<>>
    THEN /\ files' = [files EXCEPT ![h0] = f]
         /\ call' = [call EXCEPT !.phases = phases]
         /\ UNCHANGED task
    ELSE /\ files' = [files EXCEPT ![h0] = f]
         /\ call' = NoCall
         /\ task' = [task EXCEPT ![h0] = F(h0)!Returned]

IsClosing == task[h0].op = "Close"

GiveUp(f) ==
    /\ files' = [files EXCEPT ![h0] = IF IsClosing THEN Closed ELSE f]
    /\ call' = NoCall
    /\ task' = [task EXCEPT ![h0] = IF IsClosing THEN F(h0)!Shut ELSE F(h0)!Failed]

Misses(a) == missed \/ (a.block = None /\ ~a.full)

(* lfs_file_relocate(): what a file has in its block goes to another one.  *)
Relocation(fl, fr, f) ==
    LET a == Alloc(fr, Used(fl, [files EXCEPT ![h0] = f]))
        units == F(h0)!Resized(IF f.inl THEN f.cache ELSE fl[f.block].data, f.off)
        heads == IF f.inl THEN <<>> ELSE fl[f.block].heads
    IN  [free |-> a.free, block |-> a.block, full |-> a.full,
         flash |-> IF a.block = None THEN fl
                   ELSE [fl EXCEPT ![a.block] = [heads |-> heads, data |-> units]],
         file |-> IF a.block = None THEN f
                  ELSE [f EXCEPT !.block = a.block, !.writing = TRUE]]

(* lfs_ctz_extend(): a block for the unit at the position: an empty one, a *)
(* copy of a part of the last one, or one that points to it.               *)
PointersToLast(fl, head, index) == [i \in 1..Ctz(index) + 1 |-> head]

Pointers(fl, head, index) ==
    LET p[i \in 0..Ctz(index)] == IF i = 0 THEN head ELSE fl[p[i - 1]].heads[i]
    IN  [i \in 1..Ctz(index) + 1 |-> p[i - 1]]

Extension(f) ==
    LET a    == Alloc(Acked(free), Used(flash, files))
        last == IF ~f.writing /\ f.pos > 0 THEN Find(flash, f.head, f.size, f.pos - 1)
                ELSE f.block
        part == f.pos % BlockSize
        new  == IF f.pos = 0  THEN [heads |-> <<>>, data |-> <<>>]
                ELSE IF part = 0 THEN [heads |-> Pointers(flash, last, Index(f.pos)), data |-> <<>>]
                ELSE [flash[last] EXCEPT !.data = SubSeq(@, 1, part)]
    IN  [free |-> a.free, block |-> a.block, full |-> a.full,
         flash |-> IF a.block = None THEN flash ELSE [flash EXCEPT ![a.block] = new],
         file |-> IF a.block = None THEN [f EXCEPT !.block = last]
                  ELSE [f EXCEPT !.block = a.block, !.off = part, !.writing = TRUE]]

(* The block that the next unit goes to.                                   *)
Room(f) ==
    IF f.writing /\ f.off < BlockSize
    THEN [free |-> free, block |-> f.block, full |-> FALSE, flash |-> flash, file |-> f]
    ELSE Extension(f)

NeedsOutline(n) == file.inl /\ Longer(file.pos + n, file.size) > InlineMax

(* lfs_file_outline(): a file that is too long for its entry gets a block, *)
(* with what is before the position.                                       *)
Outline(phases) ==
    \E r \in {Relocation(flash, Acked(free), [file EXCEPT !.off = file.pos])} :
        /\ flash' = r.flash
        /\ free' = r.free
        /\ missed' = Misses(r)
        /\ IF r.block = None
           THEN GiveUp([r.file EXCEPT !.erred = TRUE])
           ELSE Go([r.file EXCEPT !.inl = FALSE], phases)
        /\ UNCHANGED <<entry, ops, fails>>

(* One unit of a write.  A block that fails is replaced, and the unit is   *)
(* programmed again.                                                       *)
WriteUnit(val, last, phases) ==
    IF file.inl
    THEN LET bytes == [i \in 1..Longer(Len(file.cache), file.pos + 1) |->
                          IF i = file.pos + 1 THEN val ELSE file.cache[i]]
         IN  /\ Go([file EXCEPT !.cache = bytes, !.writing = TRUE, !.block = Inline,
                                !.pos = @ + 1, !.off = file.pos + 1,
                                !.erred = @ /\ ~last], phases)
             /\ UNCHANGED <<flash, entry, free, missed, ops, fails>>
    ELSE \E failing \in {n \in {0, 1} : fails + n <= MaxFails}, room \in {Room(file)} :
         /\ failing = 1 => room.block # None
         /\ \E r \in {IF failing = 1 THEN Relocation(room.flash, room.free, room.file) ELSE room} :
             /\ Careful /\ failing = 1 =>
                    room.file.off > 0 \/ (file.pos = 0 /\ r.block # None)
             /\ fails' = fails + failing
             /\ missed' = Misses(room)
             /\ IF r.block = None
                THEN /\ flash' = r.flash
                     /\ free' = r.free
                     /\ GiveUp([r.file EXCEPT !.erred = TRUE])
                ELSE /\ flash' = [r.flash EXCEPT ![r.block].data = Append(SubSeq(@, 1, r.file.off), val)]
                     /\ free' = Acked(r.free)
                     /\ Go([r.file EXCEPT !.pos = @ + 1, !.off = @ + 1,
                                           !.erred = @ /\ ~last], phases)
             /\ UNCHANGED <<entry, ops>>

-----------------------------------------------------------------------------
(* lfs_file_write(): zeros up to the position, one by one, then the units. *)
DoFill ==
    /\ Busy("Fill")
    /\ IF file.pos < First.to
       THEN IF NeedsOutline(1) THEN Outline(call.phases) ELSE WriteUnit(0, TRUE, call.phases)
       ELSE /\ Go(file, Others)
            /\ UNCHANGED <<flash, entry, free, missed, ops, fails>>

DoPut ==
    /\ Busy("Put")
    /\ IF NeedsOutline(First.n) THEN Outline(call.phases)
       ELSE WriteUnit(First.val, First.n = 1,
                IF First.n = 1 THEN Others ELSE <<Put(First.val, First.n - 1)>> \o Others)

(* lfs_file_flush(): what is behind the position is copied from the list   *)
(* there was, and the new one takes its place.  (What it was at work on is *)
(* not looked at again.)                                                   *)
DoCopy ==
    /\ Busy("Flush")
    /\ file.writing /\ ~file.inl /\ file.pos < file.size
    /\ IF file.head = Inline
       THEN /\ GiveUp([file EXCEPT !.erred = @ \/ task[h0].op \in {"Sync", "Close"}])
            /\ UNCHANGED <<flash, entry, free, missed, ops, fails>>
       ELSE WriteUnit(Bytes(flash, file.head, file.size)[file.pos + 1], TRUE, call.phases)

Flushed(f) ==
    LET read == [f EXCEPT !.reading = FALSE, !.writing = FALSE, !.block = None, !.off = 0]
    IN  IF ~f.writing THEN read
        ELSE [read EXCEPT !.dirty = TRUE, !.head = f.block, !.pos = First.back,
                          !.size = IF f.inl THEN Longer(f.pos, f.size) ELSE f.pos]

DoFlush ==
    /\ Busy("Flush")
    /\ ~(file.writing /\ ~file.inl /\ file.pos < file.size)
    /\ Go(Flushed(file), Others)
    /\ UNCHANGED <<flash, entry, free, missed, ops, fails>>

(* The units that are still in the cache can not be programmed.            *)
FlushFails ==
    /\ Busy("Flush")
    /\ file.writing /\ ~file.inl /\ file.pos >= file.size
    /\ file.off > 0
    /\ fails < MaxFails
    /\ \E r \in {Relocation(flash, free, file)} :
           /\ flash' = r.flash
           /\ free' = r.free
           /\ IF r.block = None
              THEN GiveUp([file EXCEPT !.erred = @ \/ task[h0].op \in {"Sync", "Close"}])
              ELSE Go(r.file, call.phases)
    /\ fails' = fails + 1
    /\ UNCHANGED <<entry, missed, ops>>

-----------------------------------------------------------------------------
(* lfs_file_read(), of one unit.                                           *)
DoGet ==
    /\ Busy("Get")
    /\ IF file.pos >= file.size
       THEN Go(file, Others)
       ELSE LET there == ~file.reading \/ file.off = BlockSize
                block == IF file.inl THEN Inline
                         ELSE IF there THEN Find(flash, file.head, file.size, file.pos)
                         ELSE file.block
                off   == IF ~there THEN file.off
                         ELSE IF file.inl THEN file.pos ELSE file.pos % BlockSize
                val   == IF file.inl THEN file.cache[off + 1] ELSE flash[block].data[off + 1]
            IN  /\ files' = [files EXCEPT ![h0] =
                        [file EXCEPT !.block = block, !.off = off + 1,
                                     !.pos = @ + 1, !.reading = TRUE]]
                /\ call' = NoCall
                /\ task' = [task EXCEPT ![h0] = F(h0)!Got(val)]
    /\ UNCHANGED <<flash, entry, free, missed, ops, fails>>

DoMove ==
    /\ Busy("Move")
    /\ Go([file EXCEPT !.pos = First.to], Others)
    /\ UNCHANGED <<flash, entry, free, missed, ops, fails>>

(* lfs_file_truncate(), of a file that has been flushed.                   *)
DoCut ==
    /\ Busy("Cut")
    /\ LET size  == First.to
           block == IF file.inl \/ file.size = 0 THEN file.head
                    ELSE Find(flash, file.head, file.size, size)
       IN  Go([file EXCEPT !.head = block, !.block = block, !.size = size,
                           !.off = IF file.inl THEN size ELSE size % BlockSize,
                           !.cache = IF file.inl THEN SubSeq(@, 1, size) ELSE @,
                           !.dirty = TRUE, !.reading = TRUE], Others)
    /\ UNCHANGED <<flash, entry, free, missed, ops, fails>>

(* lfs_file_sync(): the struct is committed.  What has failed before is    *)
(* not, and the call returns without an error.                             *)
Struct(f) ==
    [inl |-> f.inl, head |-> f.head, size |-> f.size,
     bytes |-> IF f.inl THEN f.cache ELSE <<>>]

DoStore ==
    /\ Busy("Store")
    /\ IF file.dirty /\ ~file.erred
       THEN /\ entry' = [entry EXCEPT ![h0] = Struct(file)]
            /\ Go([file EXCEPT !.dirty = FALSE], Others)
       ELSE /\ Go(file, Others)
            /\ UNCHANGED entry
    /\ UNCHANGED <<flash, free, missed, ops, fails>>

StoreFails ==
    /\ Busy("Store")
    /\ file.dirty /\ ~file.erred
    /\ fails < MaxFails
    /\ GiveUp([file EXCEPT !.erred = TRUE])
    /\ fails' = fails + 1
    /\ UNCHANGED <<flash, entry, free, missed, ops>>

(* There is no room in the directory for the file itself.                  *)
StoreOutlines ==
    /\ Busy("Store")
    /\ file.dirty /\ ~file.erred /\ file.inl
    /\ Careful => file.pos = file.size
    /\ Outline(<<Flush(file.pos)>> \o call.phases)

DoLeave ==
    /\ Busy("Leave")
    /\ files' = [files EXCEPT ![h0] = Closed]
    /\ call' = NoCall
    /\ task' = [task EXCEPT ![h0] = F(h0)!Shut]
    /\ UNCHANGED <<flash, entry, free, missed, ops, fails>>

Step ==
    \/ DoFill \/ DoPut \/ DoCopy \/ DoFlush \/ FlushFails \/ DoGet \/ DoMove \/ DoCut
    \/ DoStore \/ StoreFails \/ StoreOutlines \/ DoLeave

-----------------------------------------------------------------------------
(* The calls.                                                              *)
Begin(h, what, phases) ==
    /\ ops < MaxOps
    /\ ops' = ops + 1
    /\ task' = [task EXCEPT ![h] = what]
    /\ call' = [h |-> h, phases |-> phases]
    /\ UNCHANGED <<flash, entry, free, missed, fails>>

Bytes0(h) == Content(flash, files[h])

(* lfs_file_open() of a file there is, which it may empty.                 *)
Open(h, trunc) ==
    /\ call = NoCall
    /\ ops < MaxOps
    /\ ~files[h].open
    /\ trunc => h \notin Appenders
    /\ LET e == IF trunc THEN [inl |-> TRUE, head |-> Inline, bytes |-> <<>>, size |-> 0]
                ELSE entry[h]
       IN  files' = [files EXCEPT ![h] =
                [open |-> TRUE, append |-> h \in Appenders, inl |-> e.inl, head |-> e.head,
                 size |-> e.size, cache |-> e.bytes, pos |-> 0, block |-> None, off |-> 0,
                 dirty |-> trunc, writing |-> FALSE, reading |-> FALSE, erred |-> FALSE]]
    /\ task' = [task EXCEPT ![h] = F(h)!Returned]
    /\ UNCHANGED <<flash, entry, free, call, missed, ops, fails>>

Ready(h) == call = NoCall /\ files[h].open

Write(h, n) ==
    LET f   == files[h]
        pos == IF f.append /\ f.pos < f.size THEN f.size ELSE f.pos
        gap == ~f.writing /\ pos > f.size
    IN  /\ Ready(h)
        /\ pos + n <= MaxSize
        /\ files' = [files EXCEPT ![h] = [f EXCEPT !.reading = FALSE,
                                                  !.pos = IF gap THEN f.size ELSE pos]]
        /\ Begin(h, F(h)!Write(Bytes0(h), pos, ops + 1, n),
                 (IF gap THEN <<Fill(pos)>> ELSE <<>>) \o <<Put(ops + 1, n)>>)

Read(h) ==
    LET f == files[h]
    IN  /\ Ready(h)
        /\ Begin(h, F(h)!Read(Bytes0(h), f.pos),
                 (IF f.writing THEN <<Flush(f.pos)>> ELSE <<>>) \o <<Get>>)
        /\ UNCHANGED files

Seek(h, to) ==
    /\ Ready(h)
    /\ Begin(h, F(h)!Seek(Bytes0(h), to), <<Flush(files[h].pos), Move(to)>>)
    /\ UNCHANGED files

Truncate(h, size) ==
    LET f   == files[h]
        old == IF f.writing THEN Longer(f.pos, f.size) ELSE f.size
    IN  /\ Ready(h)
        /\ Careful => f.inl \/ size >= old \/ size = 0 \/ size % BlockSize # 0
        /\ Begin(h, F(h)!Truncate(Bytes0(h), f.pos, size),
                 (IF size < old THEN <<Flush(f.pos), Cut(size)>>
                  ELSE IF size = old THEN <<>>
                  ELSE (IF f.pos = old THEN <<>> ELSE <<Flush(f.pos), Move(old)>>) \o <<Fill(size)>>)
                 \o <<Flush(f.pos), Move(f.pos)>>)
        /\ UNCHANGED files

Sync(h) ==
    /\ Ready(h)
    /\ Begin(h, F(h)!Sync(Bytes0(h), files[h].pos), <<Flush(files[h].pos), Store>>)
    /\ UNCHANGED files

Close(h) ==
    /\ Ready(h)
    /\ Begin(h, F(h)!Close(Bytes0(h)), <<Flush(files[h].pos), Store, Leave>>)
    /\ UNCHANGED files

-----------------------------------------------------------------------------
(* A loss of power, and the mount after it: the search begins at a seed.   *)
(* (With no call to come it has nothing to show: what is stored is looked  *)
(* at in every state.)                                                     *)
Fresh(off) == [off |-> off, size |-> 0, i |-> 0, ack |-> BlockCount, taken |-> {}]

PowerLoss ==
    /\ call # NoCall
    /\ ops < MaxOps
    /\ files' = [h \in Handles |-> Closed]
    /\ task' = [h \in Handles |-> F(h)!Shut]
    /\ call' = NoCall
    /\ \E off \in Seeds : free' = Fresh(off)
    /\ UNCHANGED <<flash, entry, missed, ops, fails>>

(* Files of any size, which do not overlap.                                *)
BlocksOf(size) == IF size <= InlineMax THEN 0 ELSE Index(size - 1) + 1

ASSUME LayoutsAssumption ==
    \A l \in Layouts :
        /\ l \in [Handles -> [size : Nat, at : Nat]]
        /\ \A h \in Handles :
            /\ l[h].at + BlocksOf(l[h].size) <= BlockCount
            /\ \A k \in Handles \ {h} :
                \/ l[h].at + BlocksOf(l[h].size) <= l[k].at
                \/ l[k].at + BlocksOf(l[k].size) <= l[h].at

Share(size, i)  == Min({BlockSize, size - BlockSize * i})
ByteAt(h, i, j) == 10 * (h + 1) + (BlockSize * i + j)

LaidBlock(h, size, at, i) ==
    [heads |-> IF i = 0 THEN <<>> ELSE [j \in 1..Ctz(i) + 1 |-> at + i - Pow2[j - 1]],
     data |-> [j \in 1..Share(size, i) |-> ByteAt(h, i, j)]]

LaidBlocks(h, size, at) ==
    [b \in at..at + BlocksOf(size) - 1 |-> LaidBlock(h, size, at, b - at)]

LaidEntry(h, size, at) ==
    IF size <= InlineMax
    THEN [inl |-> TRUE, head |-> Inline, size |-> size, bytes |-> [i \in 1..size |-> 10 * (h + 1) + i]]
    ELSE [inl |-> FALSE, head |-> at + BlocksOf(size) - 1, size |-> size, bytes |-> <<>>]

Of(l, h)    == LaidBlocks(h, l[h].size, l[h].at)
Owner(l, b) == CHOOSE h \in Handles : b \in DOMAIN Of(l, h)
Erased      == [heads |-> <<>>, data |-> <<>>]

LaidFlash(l) ==
    [b \in Blocks |-> IF \E h \in Handles : b \in DOMAIN Of(l, h) THEN Of(l, Owner(l, b))[b]
                      ELSE Erased]

Init ==
    /\ \E l \in Layouts :
        /\ entry = [h \in Handles |-> LaidEntry(h, l[h].size, l[h].at)]
        /\ flash = LaidFlash(l)
    /\ files = [h \in Handles |-> Closed]
    /\ free = Fresh(0)
    /\ call = NoCall
    /\ task = [h \in Handles |-> F(h)!Shut]
    /\ missed = FALSE
    /\ ops = 0
    /\ fails = 0

Next ==
    \/ \E h \in Handles :
        \/ \E trunc \in BOOLEAN : Open(h, trunc)
        \/ \E n \in Amounts[h] : Write(h, n)
        \/ \E at \in Places[h] : Seek(h, at) \/ Truncate(h, at)
        \/ Read(h) \/ Sync(h) \/ Close(h)
    \/ Step \/ PowerLoss

Spec == Init /\ [][Next]_vars

-----------------------------------------------------------------------------
(* Reads, writes, seeks and truncates are those of a sequence of bytes,    *)
(* whatever blocks they are spread over; what is on the device is what was *)
(* stored by the last sync, however far the next one has come              *)
(* (lfs_file_write, lfs_file_flush, lfs_file_sync, lfs_alloc).             *)
KeepsBytes ==
    /\ \A h \in Handles : F(h)!Init
    /\ [][\A h \in Handles : F(h)!Next \/ UNCHANGED F(h)!vars]_vars

(* The skip pointers of every file lead to the block that is found one by  *)
(* one, and the traversal by twos meets every block of it; the block and   *)
(* the offset of a byte are those of counting the bytes block by block     *)
(* (lfs_ctz_extend, lfs_ctz_find, lfs_ctz_traverse, lfs_ctz_index).        *)
Lists ==
    {<<entry[h].head, entry[h].size>> : h \in {h \in Handles : ~entry[h].inl}}
    \cup {<<files[h].head, files[h].size>> :
            h \in {h \in Handles : files[h].open /\ ~files[h].inl /\ files[h].head # Inline}}

(* The smallest block that lfs_init() takes has 128 bytes.                 *)
IndexIsPlace ==
    LET block    == 128
        heads(i) == IF i = 0 THEN 0 ELSE 4 * (Ctz(i) + 1)
        start[i \in 0..8] == IF i = 0 THEN 0 ELSE start[i - 1] + block - heads(i - 1)
    IN  \A i \in 0..8 : \A off \in heads(i)..block - 1 :
            CtzIndex(block, start[i] + off - heads(i)) = [index |-> i, off |-> off]

PointersAgree ==
    /\ IndexIsPlace
    /\ \A l \in Lists : l[2] > 0 =>
        LET chain == Chain(flash, l[1], l[2])
        IN  /\ \A pos \in 0..l[2] - 1 : Find(flash, l[1], l[2], pos) = chain[Index(pos) + 1]
            /\ Traverse(flash, l[1], l[2]) = ToSet(chain)

(* When all blocks have been searched and no space was found, every block  *)
(* is in use, but the one block at most that is marked for the head of a   *)
(* file that has left its entry (lfs_alloc_ack, lfs_alloc,                 *)
(* lfs_alloc_lookahead).                                                   *)
NoSpaceButPhantom == ~missed
=============================================================================
