------------------------------ MODULE MCLfsFile -----------------------------
(* A small instance of LfsFile for TLC: a file of three blocks or none and *)
(* a short one, or one in its entry and one of two blocks; one to three    *)
(* blocks are free.                                                        *)
EXTENDS LfsFile

MCHandles == 0..1
MCSizes   == {<<5, 1>>, <<0, 2>>, <<2, 4>>}
MCLayouts == {[h \in Handles |-> [size |-> s[h + 1], at |-> 0]] : s \in MCSizes}
MCPlaces  == [h \in Handles |-> IF h = 0 THEN {0, 1, 3} ELSE {}]
MCAmounts == [h \in Handles |-> IF h = 0 THEN {1, 3} ELSE {3}]

(* A file is not synchronized or closed after a call that failed, before   *)
(* it is written again: lfs_file_sync() would store nothing and return     *)
(* without an error.                                                       *)
MCNext ==
    /\ Next
    /\ \A h \in Handles : call = NoCall /\ files[h].open /\ files[h].erred =>
           task'[h].op \notin {"Sync", "Close"}

MCSpec == Init /\ [][MCNext]_vars
=============================================================================
