----------------------------- MODULE FileSystem -----------------------------
(***************************************************************************)
(* MLittleFS.cpp: the file system and its files over littlefs 2.1.         *)
(*                                                                         *)
(* littlefs is modelled as this code uses it: a tree of names, a list of   *)
(* the open files, and for each of them a view of the data that reaches    *)
(* the tree when the file is closed.  One thread calls all of it.  The     *)
(* answers of read(), tell(), size() and exists() change nothing and are   *)
(* left out, as is a flash that fails; it may be full.                     *)
(***************************************************************************)
EXTENDS Naturals, Sequences, FiniteSets

CONSTANTS
    Names,         \* the components of names
    Paths,         \* the names that may exist, without the root
    Handles,       \* the File objects the program may hold at a time
    Modes,         \* Modes[h]: the modes the user of h opens files in
    Data,          \* what a call of write() may hand over
    Zero,          \* the byte that fills a gap
    Offsets,       \* the offsets a program seeks to
    Whences,       \* the SeekWhence it uses
    MaxSize,       \* bound on the size of a file
    MaxEntries     \* bound on the names that exist at a time

AllModes == {"Read", "ReadUpdate", "Write", "WriteUpdate", "Append", "AppendUpdate", "Create"}

Prefixes(p) == {SubSeq(p, 1, i) : i \in 1..(Len(p) - 1)}

ASSUME FilesAssumption ==
    /\ Paths \subseteq Seq(Names)
    /\ \A p \in Paths : p # <<>> /\ Prefixes(p) \subseteq Paths
    /\ Modes \in [Handles -> SUBSET AllModes]
    /\ Offsets \subseteq Nat
    /\ Whences \subseteq {"Set", "Cur", "End"}
    /\ MaxSize \in Nat
    /\ MaxEntries \in Nat

VARIABLES
    tree,         \* what littlefs keeps of every name
    formatted,    \* whether the flash holds a file system
    mlist,        \* the files in littlefs's list of open ones
    fsError,      \* FS::_error
    file,         \* the File objects and their lfs_file_t
    full          \* whether the last call met a full flash

fileVars == <<tree, formatted, mlist, fsError, file, full>>

Nothing == [kind |-> "none", data |-> <<>>]
Folder == [kind |-> "dir", data |-> <<>>]
Holding(s) == [kind |-> "file", data |-> s]

Bytes == Data \cup {Zero}
Contents == UNION {[1..n -> Bytes] : n \in 0..MaxSize}

(* A File whose _error is not OK: not opened, refused a call or closed.    *)
Invalid == [valid |-> FALSE, mode |-> "Read", path |-> <<>>, view |-> <<>>, pos |-> 0,
            dirty |-> FALSE]

FileRecords == [valid : BOOLEAN, mode : AllModes, path : Paths \cup {<<>>},
                view : Contents, pos : Nat, dirty : BOOLEAN]

FilesTypeOK ==
    /\ tree \in [Paths -> {Nothing, Folder} \cup {Holding(s) : s \in Contents}]
    /\ formatted \in BOOLEAN
    /\ mlist \in SUBSET Handles
    /\ fsError \in {"OK", "NoFS", "NotFormatted", "Failed"}
    /\ file \in [Handles -> FileRecords]
    /\ full \in BOOLEAN

FilesInit ==
    /\ tree = [p \in Paths |-> Nothing]
    /\ formatted \in BOOLEAN
    /\ mlist = {}
    /\ fsError = "NoFS"
    /\ file = [h \in Handles |-> Invalid]
    /\ full = FALSE

-----------------------------------------------------------------------------
(* littlefs's tree. *)
HasFolder(p) == \A q \in Prefixes(p) : tree[q].kind = "dir"

(* A file stands where p needs a directory. *)
Blocked(p) == \E q \in Prefixes(p) : tree[q].kind = "file"

Entries == {p \in Paths : tree[p] # Nothing}

Below(p) == {q \in Paths : p \in Prefixes(q)}

(* lfs_dir_find as lfs_file_opencfg uses it.                               *)
CanOpen(p, create) ==
    tree[p].kind = "file" \/ (create /\ tree[p] = Nothing /\ HasFolder(p))

-----------------------------------------------------------------------------
Mounted == fsError = "OK"

Valid(h) == file[h].valid

(* A new File object; one that littlefs still lists has never been freed.  *)
Fresh(h) == ~Valid(h) /\ h \notin mlist

(* The list is reset under open files. *)
MountAnyTime ==
    /\ mlist' = {}
    /\ fsError' = IF formatted THEN "OK" ELSE "NotFormatted"
    /\ full' = FALSE
    /\ UNCHANGED <<tree, formatted, file>>

(* mount() and format() are called before any file is opened               *)
(* (Application::mountFileSystem).  lfs_init forgets the list.             *)
Mount ==
    /\ \A h \in Handles : ~Valid(h)
    /\ mlist' = {}
    /\ fsError' = IF formatted THEN "OK" ELSE "NotFormatted"
    /\ full' = FALSE
    /\ UNCHANGED <<tree, formatted, file>>

(* unmount() gives nothing back, because the buffers belong to LittleFS,   *)
(* and leaves mounted() true.                                              *)
Format ==
    /\ \A h \in Handles : ~Valid(h)
    /\ tree' = [p \in Paths |-> Nothing]
    /\ formatted' = TRUE
    /\ mlist' = {}
    /\ fsError' = "OK"
    /\ full' = FALSE
    /\ UNCHANGED file

(* LFS_O_APPEND is forgotten. *)
FlagsWithoutAppend ==
    [m \in AllModes |->
        CASE m \in {"Read", "ReadUpdate"} -> {}
          [] m = "Write" -> {"CREAT", "TRUNC"}
          [] m \in {"WriteUpdate", "Append", "AppendUpdate", "Create"} -> {"CREAT"}]

(* LFS_O_TRUNC is forgotten. *)
FlagsWithoutTrunc ==
    [m \in AllModes |->
        CASE m \in {"Read", "ReadUpdate"} -> {}
          [] m = "Append" -> {"CREAT", "APPEND"}
          [] m \in {"Write", "WriteUpdate", "AppendUpdate", "Create"} -> {"CREAT"}]

(* _fileModeMap. *)
Flags ==
    [m \in AllModes |->
        CASE m \in {"Read", "ReadUpdate"} -> {}
          [] m = "Write"  -> {"CREAT", "TRUNC"}
          [] m = "Append" -> {"CREAT", "APPEND"}
          [] m \in {"WriteUpdate", "AppendUpdate", "Create"} -> {"CREAT"}]

(* LittleFS::open and LittleFile::open.  A name that littlefs creates is   *)
(* in the tree at once, or not at all if the flash is full; a truncation   *)
(* waits for close().                                                      *)
OpenFile(h, p, m) ==
    /\ Fresh(h)
    /\ m \in Modes[h]
    /\ LET isNew == tree[p] = Nothing
           trunc == "TRUNC" \in Flags[m] /\ ~isNew
           view  == IF trunc THEN <<>> ELSE tree[p].data
           opens == Mounted /\ CanOpen(p, "CREAT" \in Flags[m])
       IN  \/ /\ opens
              /\ isNew => Cardinality(Entries) < MaxEntries
              /\ tree' = IF isNew THEN [tree EXCEPT ![p] = Holding(<<>>)] ELSE tree
              /\ mlist' = mlist \cup {h}
              /\ file' = [file EXCEPT ![h] =
                      [valid |-> TRUE, mode |-> m, path |-> p, view |-> view,
                       pos |-> 0, dirty |-> trunc]]
              /\ full' = FALSE
           \/ /\ opens => isNew
              /\ file' = [file EXCEPT ![h] = Invalid]
              /\ full' = opens
              /\ UNCHANGED <<tree, mlist>>
    /\ UNCHANGED <<formatted, fsError>>

(* A refused call leaves its error in the file, for good; littlefs goes on *)
(* listing it.                                                             *)
Refuse(h) == file' = [file EXCEPT ![h] = Invalid]

ReadFile(h) ==
    /\ Valid(h)
    /\ IF file[h].mode \in {"Write", "Append"}
       THEN Refuse(h)
       ELSE /\ file[h].pos < Len(file[h].view)
            /\ file' = [file EXCEPT ![h].pos = @ + 1]
    /\ full' = FALSE
    /\ UNCHANGED <<tree, formatted, mlist, fsError>>

(* s with d at position n, the gap before it filled.                       *)
Overlay(s, n, d) ==
    [i \in 1..(IF n < Len(s) THEN Len(s) ELSE n + 1) |->
        IF i = n + 1 THEN d ELSE IF i <= Len(s) THEN s[i] ELSE Zero]

(* The seek to the end before a write in mode AppendUpdate hands littlefs  *)
(* 0 for its whence, as every seek() does, and so goes to the beginning.   *)
WritePos(f) ==
    IF f.mode = "AppendUpdate" THEN 0
    ELSE IF "APPEND" \in Flags[f.mode] /\ f.pos < Len(f.view) THEN Len(f.view)
    ELSE f.pos

WriteFile(h, d) ==
    /\ Valid(h)
    /\ IF file[h].mode = "Read" THEN Refuse(h) /\ full' = FALSE
       ELSE \/ /\ WritePos(file[h]) < MaxSize
               /\ file' = [file EXCEPT
                    ![h].view  = Overlay(@, WritePos(file[h]), d),
                    ![h].pos   = WritePos(file[h]) + 1,
                    ![h].dirty = TRUE]
               /\ full' = FALSE
            \/ /\ file' = [file EXCEPT ![h].pos = WritePos(file[h]), ![h].dirty = FALSE]
               /\ full' = TRUE
    /\ UNCHANGED <<tree, formatted, mlist, fsError>>

(* Seeks from the beginning, whatever the whence. *)
SeekFile(h, n, whence) ==
    /\ Valid(h)
    /\ IF file[h].mode = "Append" THEN Refuse(h)
       ELSE file' = [file EXCEPT ![h].pos = n]
    /\ full' = FALSE
    /\ UNCHANGED <<tree, formatted, mlist, fsError>>

(* lfs_file_sync has something to write and somewhere to write it.         *)
Publishes(f) == f.dirty /\ f.path # <<>>

(* close(), also by the destructor.  A file whose error is not OK is       *)
(* skipped, and littlefs keeps it; how the close went is not asked.        *)
CloseFile(h) ==
    /\ Valid(h)
    /\ file' = [file EXCEPT ![h] = Invalid]
    /\ mlist' = mlist \ {h}
    /\ \/ /\ tree' = IF Publishes(file[h])
                     THEN [tree EXCEPT ![file[h].path] = Holding(file[h].view)]
                     ELSE tree
          /\ full' = FALSE
       \/ /\ Publishes(file[h])
          /\ full' = TRUE
          /\ UNCHANGED tree
    /\ UNCHANGED <<formatted, fsError>>

-----------------------------------------------------------------------------
(* The directories makeDirectory reaches before it is stopped. *)
Made(reached) ==
    [q \in Paths |-> IF q \in reached /\ tree[q] = Nothing THEN Folder ELSE tree[q]]

(* makeDirectory: one component after the other, until littlefs refuses    *)
(* one.  That a name exists already is accepted, even if it is a file.     *)
MakeDirectory(p) ==
    /\ Mounted
    /\ LET all == Prefixes(p) \cup {p}
           within == {q \in all : ~Blocked(q)}
       IN  \/ /\ tree' = Made(within)
              /\ fsError' = IF Blocked(p) THEN "Failed" ELSE "OK"
              /\ full' = FALSE
           \/ \E q \in within :
                /\ tree[q] = Nothing
                /\ tree' = Made(Prefixes(q))
                /\ fsError' = "Failed"
                /\ full' = TRUE
    /\ Cardinality({q \in Paths : tree'[q] # Nothing}) <= MaxEntries
    /\ UNCHANGED <<formatted, mlist, file>>

(* lfs_remove, which also tells the open files.                            *)
Remove(p) ==
    /\ Mounted
    /\ tree[p] # Nothing
    /\ \A q \in Below(p) : tree[q] = Nothing
    /\ tree' = [tree EXCEPT ![p] = Nothing]
    /\ file' = [h \in Handles |-> IF file[h].path = p
                                  THEN [file[h] EXCEPT !.path = <<>>] ELSE file[h]]
    /\ full' = FALSE
    /\ UNCHANGED <<formatted, mlist, fsError>>

(* The name q has once p is renamed to r. *)
Moved(q, p, r) == r \o SubSeq(q, Len(p) + 1, Len(q))

(* lfs_rename, of names that are not open: littlefs 2.1 loses the listed   *)
(* files of a name it moves, and no code here renames.                     *)
Rename(p, r) ==
    /\ Mounted
    /\ p # r /\ p \notin Prefixes(r)
    /\ \A h \in mlist : Valid(h) /\ file[h].path \notin {p, r} \cup Below(p)
    /\ tree[p] # Nothing
    /\ IF tree[r] = Nothing THEN HasFolder(r) ELSE tree[r].kind = tree[p].kind
    /\ \A q \in Below(r) : tree[q] = Nothing
    /\ \A q \in Below(p) : tree[q] # Nothing => Moved(q, p, r) \in Paths
    /\ tree' = [q \in Paths |->
                  IF q = p \/ q \in Below(p) THEN Nothing
                  ELSE IF (q = r \/ q \in Below(r)) /\ Moved(q, r, p) \in Paths
                       THEN tree[Moved(q, r, p)]
                  ELSE tree[q]]
    /\ full' = FALSE
    /\ UNCHANGED <<formatted, mlist, fsError, file>>

(* The program starts again: what was not closed is gone.                  *)
Restart ==
    /\ mlist' = {}
    /\ fsError' = "NoFS"
    /\ file' = [h \in Handles |-> Invalid]
    /\ full' = FALSE
    /\ UNCHANGED <<tree, formatted>>

(* What the code that holds the files does with them.                      *)
UseFiles ==
    \/ \E h \in Handles :
          \/ \E p \in Paths, m \in AllModes : OpenFile(h, p, m)
          \/ ReadFile(h)
          \/ \E d \in Data : WriteFile(h, d)
          \/ \E n \in Offsets, whence \in Whences : SeekFile(h, n, whence)
          \/ CloseFile(h)
    \/ \E p \in Paths : MakeDirectory(p) \/ Remove(p)
    \/ \E p, r \in Paths : Rename(p, r)

FilesNext == UseFiles \/ Mount \/ Format \/ Restart

FilesSpec == FilesInit /\ [][FilesNext]_fileVars

-----------------------------------------------------------------------------
(* Whatever is removed, renamed, refused, mounted or formatted, a file in  *)
(* littlefs's list either has lost its name or has an entry that is a      *)
(* file, so that a close writes into nobody else's.                        *)
OpenFilesHaveEntries ==
    \A h \in Handles :
        Valid(h) => /\ h \in mlist
                    /\ file[h].path # <<>> => tree[file[h].path].kind = "file"

(* In mode Append littlefs moves its position to the end only when it      *)
(* writes.  A refused file stays in its list.                              *)
Session(h) ==
    IF file[h].mode = "Append" THEN [file[h] EXCEPT !.pos = Len(file[h].view)] ELSE file[h]

Table == INSTANCE FileTable WITH
    store <- tree,
    session <- [h \in Handles |-> Session(h)],
    spoiled <- {h \in mlist : ~Valid(h)}

(* LittleFS keeps the table of MFS.h, and a file changes only as a whole,  *)
(* when it is closed; only a full flash loses what was written to a file   *)
(* that no call was refused on.  It holds of Modes without WriteUpdate and *)
(* AppendUpdate; the table has some whence for every seek, not the one     *)
(* that was asked for.                                                     *)
KeepsTable == Table!TableSpec
=============================================================================
