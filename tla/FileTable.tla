----------------------------- MODULE FileTable ------------------------------
(***************************************************************************)
(* What MFS.h promises of an open file: the table of open modes, a store   *)
(* that a file changes only as a whole and when it is closed, and files    *)
(* that a refused call has spoiled.                                        *)
(***************************************************************************)
EXTENDS Naturals, Sequences

CONSTANTS
    Paths,      \* the names in the store
    Handles,    \* the open files the program may hold
    Data,       \* what one call writes
    Zero,       \* what fills a gap
    Offsets     \* the offsets a program seeks to

VARIABLES
    store,      \* what each name stands for
    session,    \* what each handle stands for
    spoiled,    \* the handles a call was refused on
    full        \* whether the store was full at the last call

tableVars == <<store, session, spoiled, full>>

OpenModes == {"Read", "ReadUpdate", "Write", "WriteUpdate", "Append", "AppendUpdate", "Create"}

(* The columns of the table. *)
Reads(m) == m \notin {"Write", "Append"}
Writes(m) == m # "Read"
Creates(m) == m \notin {"Read", "ReadUpdate"}
Deletes(m) == m \in {"Write", "WriteUpdate"}
AtEnd(m) == m \in {"Append", "AppendUpdate"}
Seeks(m) == m # "Append"

Nothing == [kind |-> "none", data |-> <<>>]
Folder == [kind |-> "dir", data |-> <<>>]
Holding(s) == [kind |-> "file", data |-> s]

(* A file that is not open. *)
Ended == [valid |-> FALSE, mode |-> "Read", path |-> <<>>, view |-> <<>>, pos |-> 0,
          dirty |-> FALSE]

(* s with d at position n, the gap before it filled.                       *)
Overlay(s, n, d) ==
    [i \in 1..(IF n < Len(s) THEN Len(s) ELSE n + 1) |->
        IF i = n + 1 THEN d ELSE IF i <= Len(s) THEN s[i] ELSE Zero]

Put(h, s) == session' = [session EXCEPT ![h] = s]

IsOpen(h) == session[h].valid

-----------------------------------------------------------------------------
TableInit ==
    /\ store = [p \in Paths |-> Nothing]
    /\ session = [h \in Handles |-> Ended]
    /\ spoiled = {}
    /\ full = FALSE

(* A file that does not exist is created empty or not found.               *)
TableOpen(h) ==
    /\ ~IsOpen(h) /\ h \notin spoiled
    /\ full' = FALSE
    /\ UNCHANGED spoiled
    /\ \E p \in Paths, m \in OpenModes :
        /\ \/ store[p].kind = "file" /\ UNCHANGED store
           \/ /\ store[p].kind = "none" /\ Creates(m)
              /\ store' = [store EXCEPT ![p] = Holding(<<>>)]
        /\ LET found == IF Deletes(m) THEN <<>> ELSE store[p].data
           IN  Put(h, [valid |-> TRUE, mode |-> m, path |-> p, view |-> found,
                       pos |-> IF AtEnd(m) THEN Len(found) ELSE 0,
                       dirty |-> Deletes(m) /\ store[p].kind = "file"])

TableRead(h) ==
    /\ IsOpen(h) /\ Reads(session[h].mode)
    /\ session[h].pos < Len(session[h].view)
    /\ Put(h, [session[h] EXCEPT !.pos = @ + 1])
    /\ full' = FALSE
    /\ UNCHANGED <<store, spoiled>>

TableWrite(h, d) ==
    /\ IsOpen(h) /\ Writes(session[h].mode)
    /\ LET s == session[h]
           n == IF AtEnd(s.mode) THEN Len(s.view) ELSE s.pos
       IN  Put(h, [s EXCEPT !.view = Overlay(@, n, d), !.pos = n + 1, !.dirty = TRUE])
    /\ full' = FALSE
    /\ UNCHANGED <<store, spoiled>>

TableSeek(h, n, whence) ==
    /\ IsOpen(h) /\ Seeks(session[h].mode)
    /\ Put(h, [session[h] EXCEPT !.pos = n + CASE whence = "Set" -> 0
                                              [] whence = "Cur" -> session[h].pos
                                              [] whence = "End" -> Len(session[h].view)])
    /\ full' = FALSE
    /\ UNCHANGED <<store, spoiled>>

(* A call the mode does not allow spoils the file, and all that was        *)
(* written to it is lost.                                                  *)
TableRefuse(h) ==
    /\ IsOpen(h)
    /\ ~Reads(session[h].mode) \/ ~Writes(session[h].mode) \/ ~Seeks(session[h].mode)
    /\ Put(h, Ended)
    /\ spoiled' = spoiled \cup {h}
    /\ full' = FALSE
    /\ UNCHANGED store

(* Only a store that is full loses what was written.                       *)
TableLose(h) ==
    /\ IsOpen(h) /\ Writes(session[h].mode)
    /\ Put(h, [session[h] EXCEPT !.dirty = FALSE])
    /\ full' = TRUE
    /\ UNCHANGED <<store, spoiled>>

(* What was written replaces the file, unless the file has been removed.   *)
TableClose(h) ==
    /\ IsOpen(h)
    /\ Put(h, Ended)
    /\ \/ /\ store' = IF session[h].dirty /\ session[h].path # <<>>
                      THEN [store EXCEPT ![session[h].path] = Holding(session[h].view)]
                      ELSE store
          /\ full' = FALSE
       \/ UNCHANGED store /\ full' = TRUE
    /\ UNCHANGED spoiled

(* A file whose name goes keeps its data for itself.                       *)
TableRemove(p) ==
    /\ store[p] # Nothing
    /\ store' = [store EXCEPT ![p] = Nothing]
    /\ session' = [h \in Handles |-> IF session[h].path = p
                                     THEN [session[h] EXCEPT !.path = <<>>] ELSE session[h]]
    /\ full' = FALSE
    /\ UNCHANGED spoiled

Unopened(p) == \A h \in Handles : session[h].path # p

(* Directories are made and names are changed, of unopened files only: no  *)
(* file is changed, and one that appears had another name before.          *)
TableRearrange ==
    /\ UNCHANGED <<session, spoiled>>
    /\ full' \in BOOLEAN
    /\ \A p \in Paths :
          store'[p] # store[p] =>
            /\ Unopened(p)
            /\ store'[p].kind = "file" =>
                  \E q \in Paths : store[q] = store'[p] /\ store'[q] # store[q]
            /\ store[p].kind = "file" => store'[p] # Folder

(* A restart forgets all files, and so does mounting, which comes before   *)
(* the first is opened.  Formatting forgets the names too.                 *)
TableReset ==
    /\ session' = [h \in Handles |-> Ended]
    /\ spoiled' = {}
    /\ full' = FALSE
    /\ \/ UNCHANGED store
       \/ (\A h \in Handles : ~IsOpen(h)) /\ store' = [p \in Paths |-> Nothing]

TableNext ==
    \/ \E h \in Handles :
          \/ TableOpen(h)
          \/ TableRead(h)
          \/ \E d \in Data : TableWrite(h, d)
          \/ \E n \in Offsets, whence \in {"Set", "Cur", "End"} : TableSeek(h, n, whence)
          \/ TableRefuse(h)
          \/ TableLose(h)
          \/ TableClose(h)
    \/ \E p \in Paths : TableRemove(p)
    \/ TableRearrange
    \/ TableReset

TableSpec == TableInit /\ [][TableNext]_tableVars
=============================================================================
