----------------------------- MODULE MCUploads ------------------------------
(* Small instances of Uploads for TLC.                                     *)
EXTENDS Uploads, TLC

CONSTANTS a, b, x, page, free

MCNames == {a, b}
MCPaths == {<<b>>, <<b, a>>, <<b, b>>}
MCHandles == {page, free}
MCDestination == <<b>>

(* The file of the upload and of the web server is opened as they do, the  *)
(* other in any mode that keeps to the table.                              *)
MCModes ==
    (page :> {"Read", "Write"}) @@ (free :> {"Read", "ReadUpdate", "Write", "Append", "Create"})

(* The one whence that seek() honours. *)
MCWhences == {"Set"}
MCOffsets == {1}

(* Two files of the host with the same name in different directories: the  *)
(* second, which is empty, replaces the first.                             *)
MCSources == <<[name |-> a, content |-> <<x>>], [name |-> a, content |-> <<>>]>>
MCData == {x}
=============================================================================
