---------------------------- MODULE MetadataPair ----------------------------
(***************************************************************************)
(* One directory of littlefs on its two blocks: fetching, committing,      *)
(* compacting and relocating, program unit by program unit, with loss of   *)
(* power between any two of them and blocks that fail.                     *)
(*                                                                         *)
(* Simplifications: the block above this pair, which names it, changes in  *)
(* one step (Relink) - it is a metadata pair itself, and LfsTree has the   *)
(* order of those commits; the pair is small enough not to be split, and   *)
(* the superblock's is not expanded; a commit takes a unit for every two   *)
(* tags, its checksum included.                                            *)
(***************************************************************************)
EXTENDS DirLog, FiniteSets, FiniteSetsExt

CONSTANTS
    Names,          \* numbers, in the order of the strings they stand for
    Structs,        \* what an entry can hold
    Fresh,          \* the one a new file has
    Blocks,         \* the blocks there are: 1, 2 and those that are free
    Handles,        \* files that can be open in this directory
    Units,          \* program units in a block
    Revs,           \* revisions are counted modulo this number
    BlockCycles,    \* compactions before a block is thought worn
    MaxBad,         \* bound: blocks that fail
    MaxOps,         \* bound: operations
    RenamesOpen,    \* whether files are renamed while files are open
    RenamesItself   \* whether a file is renamed to its own name

NoFile == "NoFile"

(* Blocks and names are numbers of which 0 is none, and no struct is None; *)
(* the order of two revisions is lost when there are fewer than four.      *)
ASSUME PairAssumption ==
    /\ Blocks \subseteq Nat \ {0}
    /\ {1, 2} \subseteq Blocks
    /\ Names \subseteq Nat \ {0}
    /\ Revs \in Nat /\ Revs >= 4
    /\ BlockCycles \in Nat
    /\ Fresh \in Structs /\ None \notin Structs
    /\ NoFile \notin Handles

VARIABLES
    flash,      \* [Blocks -> [rev, log, used, torn, dir]]
    bad,        \* the blocks that no longer hold what is written to them
    ptr,        \* the pair as the directory above names it
    super,      \* whether it is the superblock's pair, which can not move
    files,      \* [Handles -> lfs_file_t: its copy of the pair and its id]
    commit,     \* the commit under way, or NoCommit
    task,       \* ghost: what the caller asked for, or how it ended
    ops         \* operations so far

vars == <<flash, bad, ptr, super, files, commit, task, ops>>

NoCommit == [phase |-> "None"]
Closed   == [open |-> FALSE]
NullPair == <<0, 0>>

Directory(ents) ==
    [n \in {ents[i].name : i \in DOMAIN ents} |->
        (CHOOSE e \in {ents[i] : i \in DOMAIN ents} : e.name = n).struct]

(* used: the end of the last commit whose checksum is right, 0 when there  *)
(* is none.  torn: something was programmed behind that.  dir: ghost, the  *)
(* directory the log stands for.                                           *)
Content(rev, log, used, torn) ==
    [rev |-> rev, log |-> log, used |-> used, torn |-> torn, dir |-> Directory(Replay(log))]

UnitsOf(tags) == (Len(tags) + 2) \div 2

Whole(rev, log) == Content(rev, log, UnitsOf(log), FALSE)

Erased(rev) == Content(rev, <<>>, 0, FALSE)

NewerUnsigned(a, b) == a > b

(* lfs_scmp: revisions are compared as a signed difference.                *)
Newer(a, b) == LET d == (a - b) % Revs IN d > 0 /\ d < Revs \div 2

(* An lfs_mdir_t.  The block with the newer revision is tried first, the   *)
(* other one when that holds no commit.                                    *)
Fetch(pair) ==
    LET Swap(p) == <<p[2], p[1]>>
        first == IF Newer(flash[pair[2]].rev, flash[pair[1]].rev)
                 THEN Swap(pair) ELSE pair
        found == IF flash[first[1]].used > 0 THEN first ELSE Swap(first)
        block == flash[found[1]]
    IN  [pair |-> found, rev |-> block.rev, off |-> block.used,
         erased |-> ~block.torn]

Log(mdir) == flash[mdir.pair[1]].log

SamePair(p, q) == p[1] \in {q[1], q[2]} \/ p[2] \in {q[1], q[2]}

OpenFiles == {h \in Handles : files[h].open}

(* What a mount would find now.                                            *)
OnFlash == flash[Fetch(ptr).pair[1]].dir

D == INSTANCE Directory WITH entries <- OnFlash

-----------------------------------------------------------------------------
(* Any directory to begin with, compacted into one of the two blocks: the  *)
(* files were created in order and then synced.  The other block is what   *)
(* was there when the pair was allocated: it may hold a whole directory of *)
(* an earlier life, with the revision before.                              *)
Listings ==
    {l \in UNION {[1..k -> [name : Names, struct : Structs]] : k \in 0..Cardinality(Names)} :
        \A i, j \in DOMAIN l : i < j => l[i].name < l[j].name}

LogOf(l) == [i \in DOMAIN l |-> Tag("NAME", i - 1, l[i].name)]
            \o [i \in DOMAIN l |-> Tag("STRUCT", i - 1, l[i].struct)]

Earlier(rev) ==
    {Erased(rev)} \cup
    {Whole(rev, LogOf(l)) : l \in {m \in Listings :
        Len(m) = Cardinality(Names) /\ \A i \in DOMAIN m : m[i].struct = Fresh}}

Init ==
    /\ \E l \in Listings, rev \in 0..Revs - 1 :
       \E old \in Earlier((rev - 1) % Revs) :
            flash = [b \in Blocks |-> CASE b = 1 -> Whole(rev, LogOf(l))
                                        [] b = 2 -> old
                                        [] OTHER -> Erased(0)]
    /\ bad = {}
    /\ ptr = <<1, 2>>
    /\ super \in BOOLEAN
    /\ files = [h \in Handles |-> Closed]
    /\ commit = NoCommit
    /\ task = D!Returned
    /\ ops = 0

-----------------------------------------------------------------------------
(* The operations.  Each fetches the directory first, except a sync, which *)
(* works on the copy of the pair its file has kept.                        *)
Appended(dir, attrs) ==
    Content(flash[dir.pair[1]].rev, Log(dir) \o attrs, dir.off + UnitsOf(attrs), FALSE)

NextRev(dir) == (dir.rev + 1) % Revs

Begin(what, dir, attrs, file) ==
    /\ commit = NoCommit
    /\ ops < MaxOps
    /\ ops' = ops + 1
    /\ task' = what
    /\ commit' = [phase |-> IF dir.erased THEN "Append" ELSE "Compact",
                  dir |-> dir, attrs |-> attrs, file |-> file, n |-> 0,
                  appended |-> Appended(dir, attrs),
                  compacted |-> Whole(NextRev(dir), Compacted(Log(dir) \o attrs)),
                  relocated |-> FALSE, tried |-> {}]
    /\ UNCHANGED <<flash, bad, ptr, super>>

(* lfs_file_open() of a name that is new.                                  *)
Create(h, name) ==
    LET dir   == Fetch(ptr)
        found == FindName(Log(dir), name)
    IN  /\ ~files[h].open
        /\ ~found.valid
        /\ files' = [files EXCEPT ![h] = [open |-> TRUE, m |-> dir, id |-> found.id, name |-> name]]
        /\ Begin(D!Put(name, Fresh), dir, CreateAttrs(Log(dir), name, Fresh), h)

(* lfs_file_open() of a name that exists.                                  *)
Open(h, name) ==
    LET dir   == Fetch(ptr)
        found == FindName(Log(dir), name)
    IN  /\ commit = NoCommit
        /\ ~files[h].open
        /\ found.valid
        /\ files' = [files EXCEPT ![h] = [open |-> TRUE, m |-> dir, id |-> found.id, name |-> name]]
        /\ UNCHANGED <<flash, bad, ptr, super, commit, task, ops>>

(* lfs_file_sync() of a file that was written: what has no entry any more  *)
(* is not stored.                                                          *)
Sync(h, struct) ==
    /\ files[h].open
    /\ files[h].m.pair # NullPair
    /\ Begin(D!Put(files[h].name, struct), files[h].m,
             <<Tag("STRUCT", files[h].id, struct)>>, h)
    /\ UNCHANGED files

Unlink(name) ==
    LET dir == Fetch(ptr)
    IN  /\ FindName(Log(dir), name).valid
        /\ Begin(D!Remove(name), dir, RemoveAttrs(Log(dir), name), NoFile)
        /\ UNCHANGED files

Rename(old, new) ==
    LET dir == Fetch(ptr)
    IN  /\ FindName(Log(dir), old).valid
        /\ old = new => RenamesItself
        /\ OpenFiles # {} => RenamesOpen
        /\ Begin(D!Rename(old, new), dir, RenameAttrs(Log(dir), old, new), NoFile)
        /\ UNCHANGED files

Close(h) ==
    /\ commit = NoCommit
    /\ files[h].open
    /\ files' = [files EXCEPT ![h] = Closed]
    /\ UNCHANGED <<flash, bad, ptr, super, commit, task, ops>>

-----------------------------------------------------------------------------
(* The steps of a commit.                                                  *)
Active == commit.dir.pair[1]
Target == commit.dir.pair[2]

(* What a commit without an error does to the files that are open: they    *)
(* take the new copy, and their ids follow the last entry deleted or, when *)
(* it does not concern them, the entry created.                            *)
LastOf(type) ==
    LET found == {i \in DOMAIN commit.attrs : commit.attrs[i].t = type}
    IN  IF found = {} THEN NoId ELSE commit.attrs[Max(found)].id

Deleted == LastOf("DELETE")
Created == LastOf("CREATE")

Renamed(name) ==
    CASE task.op = "Remove" /\ task.name = name -> None
      [] task.op = "Rename" /\ task.name = name -> task.new
      [] task.op = "Rename" /\ task.new = name  -> None
      [] OTHER                                  -> name

UpdateFileIdOnly(h, dir) ==
    LET f == files[h]
    IN  IF ~f.open THEN f
        ELSE [f EXCEPT !.m = dir,
                       !.name = IF commit.file = h THEN @ ELSE Renamed(@),
                       !.id = IF @ >= Deleted THEN @ - 1 ELSE @]

UpdateFile(h, dir) ==
    LET f     == files[h]
        named == IF commit.file = h THEN f.name ELSE Renamed(f.name)
    IN  IF ~f.open \/ ~SamePair(f.m.pair, dir.pair) THEN f
        ELSE IF f.id = Deleted
             THEN [f EXCEPT !.m = [dir EXCEPT !.pair = NullPair], !.name = named]
        ELSE [f EXCEPT
                !.m = dir, !.name = named,
                !.id = IF @ > Deleted THEN @ - 1
                       ELSE IF h # commit.file /\ @ >= Created THEN @ + 1
                       ELSE @]

Done(dir) ==
    /\ files' = [h \in Handles |-> UpdateFile(h, dir)]
    /\ commit' = NoCommit
    /\ task' = D!Returned

(* The commit goes behind the last one if what is there is still erased.   *)
(* It counts once its checksum is written and reads back.                  *)
AppendUnit ==
    /\ commit.phase = "Append"
    /\ commit.dir.off + commit.n < Units
    /\ IF commit.n + 1 < UnitsOf(commit.attrs)
       THEN /\ flash' = [flash EXCEPT ![Active].torn = TRUE]
            /\ commit' = [commit EXCEPT !.n = @ + 1]
            /\ UNCHANGED <<files, task>>
       ELSE IF Active \in bad
       THEN /\ flash' = [flash EXCEPT ![Active].torn = TRUE]
            /\ commit' = [commit EXCEPT !.phase = "Compact"]
            /\ UNCHANGED <<files, task>>
       ELSE /\ flash' = [flash EXCEPT ![Active] = commit.appended]
            /\ Done([commit.dir EXCEPT !.off = commit.appended.used])
    /\ UNCHANGED <<bad, ptr, super, ops>>

NoRoom ==
    /\ commit.phase = "Append"
    /\ commit.dir.off + commit.n >= Units
    /\ commit' = [commit EXCEPT !.phase = "Compact"]
    /\ UNCHANGED <<flash, bad, ptr, super, files, task, ops>>

(* Compaction writes the other block, with the next revision.  A block     *)
(* that has been written often is replaced first.                          *)
Compact ==
    /\ commit.phase = "Compact"
    /\ commit' = [commit EXCEPT
            !.dir.rev = NextRev(commit.dir),
            !.phase = IF NextRev(commit.dir) % (BlockCycles + 1) = 0 /\ ~super
                      THEN "Relocate" ELSE "Erase"]
    /\ UNCHANGED <<flash, bad, ptr, super, files, task, ops>>

(* What is read as the revision of an erased block is all ones, or what an *)
(* interrupted program left of the new one.                                *)
Erase ==
    /\ commit.phase = "Erase"
    /\ \E rev \in {Revs - 1, commit.dir.rev} : flash' = [flash EXCEPT ![Target] = Erased(rev)]
    /\ commit' = [commit EXCEPT !.phase = "Write", !.n = 0]
    /\ UNCHANGED <<bad, ptr, super, files, task, ops>>

Write ==
    /\ commit.phase = "Write"
    /\ LET dir == [pair |-> <<Target, Active>>, rev |-> commit.dir.rev,
                   off |-> commit.compacted.used, erased |-> TRUE]
       IN  IF commit.n + 1 < commit.compacted.used \/ Target \in bad
           THEN /\ flash' = [flash EXCEPT ![Target] =
                                Content(commit.dir.rev, <<>>, 0, TRUE)]
                /\ commit' = IF commit.n + 1 < commit.compacted.used
                             THEN [commit EXCEPT !.n = @ + 1]
                             ELSE [commit EXCEPT !.phase = "Relocate"]
                /\ UNCHANGED <<files, task>>
           ELSE /\ flash' = [flash EXCEPT ![Target] = commit.compacted]
                /\ IF commit.relocated
                   THEN /\ commit' = [commit EXCEPT !.phase = "Relink", !.dir = dir]
                        /\ UNCHANGED <<files, task>>
                   ELSE Done(dir)
    /\ UNCHANGED <<bad, ptr, super, ops>>

RelocateInPlace ==
    /\ commit.phase = "Relocate"
    /\ ~super
    /\ commit' = [commit EXCEPT !.relocated = TRUE, !.phase = "Erase"]
    /\ UNCHANGED <<flash, bad, ptr, super, files, task, ops>>

(* A block that failed or is worn is replaced by a free one; without a     *)
(* free one the same block is tried again.                                 *)
Relocate ==
    LET tried == commit.tried \cup {Target}
        free  == Blocks \ (tried \cup {Active, ptr[1], ptr[2]})
    IN  /\ commit.phase = "Relocate"
        /\ ~super
        /\ \E b \in IF free = {} THEN {Target} ELSE free :
            commit' = [commit EXCEPT !.dir.pair = <<Active, b>>, !.relocated = TRUE,
                                     !.tried = tried, !.phase = "Erase"]
        /\ UNCHANGED <<flash, bad, ptr, super, files, task, ops>>

(* lfs_fs_relocate(): the directory above names the new pair.              *)
Relink ==
    /\ commit.phase = "Relink"
    /\ ptr' = commit.dir.pair
    /\ Done(commit.dir)
    /\ UNCHANGED <<flash, bad, super, ops>>

(* The superblock's pair can not move: the operation ends with an error,   *)
(* a file that was to be created is closed, and the copy a file has given  *)
(* to the commit keeps the revision it was to have.                        *)
Frozen ==
    /\ commit.phase = "Relocate"
    /\ super
    /\ files' = IF commit.file = NoFile THEN files
                ELSE IF \E i \in DOMAIN commit.attrs : IsSplice(commit.attrs[i])
                THEN [files EXCEPT ![commit.file] = Closed]
                ELSE [files EXCEPT ![commit.file].m = commit.dir]
    /\ commit' = NoCommit
    /\ task' = D!Failed
    /\ UNCHANGED <<flash, bad, ptr, super, ops>>

Step == AppendUnit \/ NoRoom \/ Compact \/ Erase \/ Write \/ Relocate \/ Relink \/ Frozen

-----------------------------------------------------------------------------
(* What happens to the device.                                             *)
BlockFails ==
    /\ Cardinality(bad) < MaxBad
    /\ \/ commit.phase = "Append" /\ bad' = bad \cup {Active}
       \/ commit.phase = "Write"  /\ bad' = bad \cup {Target}
    /\ UNCHANGED <<flash, ptr, super, files, commit, task, ops>>

PowerLoss ==
    /\ commit # NoCommit
    /\ files' = [h \in Handles |-> Closed]
    /\ commit' = NoCommit
    /\ task' = D!Failed
    /\ UNCHANGED <<flash, bad, ptr, super, ops>>

Next ==
    \/ \E h \in Handles, n \in Names : Create(h, n) \/ Open(h, n)
    \/ \E h \in Handles, s \in Structs : Sync(h, s)
    \/ \E n \in Names : Unlink(n)
    \/ \E n, m \in Names : Rename(n, m)
    \/ \E h \in Handles : Close(h)
    \/ Step
    \/ BlockFails
    \/ PowerLoss

Spec == Init /\ [][Next]_vars /\ WF_vars(Step)

-----------------------------------------------------------------------------
(* The directory a loss of power would leave is the one before the         *)
(* operation or the one after it, whatever was being programmed, erased or *)
(* moved (lfs_dir_commit, lfs_dir_compact, lfs_dir_fetchmatch).            *)
KeepsDirectory == D!Spec

(* What lfs.c reads from the log by its backward scan and its search while *)
(* fetching is what the log stands for: every entry at its id, every name  *)
(* found where it is, or the place that keeps the names in order.          *)
LookupsAgree ==
    commit = NoCommit =>
    LET log  == Log(Fetch(ptr))
        ents == Replay(log)
    IN  /\ Count(log) = Len(ents)
        /\ \A i \in DOMAIN ents :
            /\ GetTag(log, "NAME", i - 1) = ents[i].name
            /\ GetTag(log, "STRUCT", i - 1) = ents[i].struct
        /\ \A n \in Names :
            LET found == FindName(log, n)
                below == {i \in DOMAIN ents : ents[i].name < n}
            IN  /\ found.valid <=> \E i \in DOMAIN ents : ents[i].name = n
                /\ found.id = Cardinality(below)

(* An open file's id is that of the entry it was opened on, and a file     *)
(* whose entry is gone has no entry (the end of lfs_dir_commit).           *)
HandlesFollow ==
    commit = NoCommit =>
    \A h \in OpenFiles :
        LET f == files[h]
        IN  IF f.name = None THEN f.m.pair = NullPair
            ELSE f.m.pair # NullPair /\ GetTag(Log(f.m), "NAME", f.id) = f.name

(* A commit ends, whatever blocks fail, while there are blocks to move to. *)
CommitEnds == (commit # NoCommit) ~> (commit = NoCommit)
=============================================================================
