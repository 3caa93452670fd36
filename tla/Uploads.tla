------------------------------ MODULE Uploads -------------------------------
(***************************************************************************)
(* Application::mountFileSystem and Application::uploadFiles over          *)
(* FileSystem: when the program starts it mounts the file system, or       *)
(* formats it, and copies files of the host into it; after that the        *)
(* program uses the files as it likes, until it starts again.  A file of   *)
(* the host may be missing; one that is there can be read to its end.      *)
(***************************************************************************)
EXTENDS FileSystem

CONSTANTS
    Destination,    \* destPath
    Sources,        \* the host's files, in order: their names and data
    Uploader        \* the File object of an upload

ASSUME UploadsAssumption ==
    /\ Destination \in Paths
    /\ Uploader \in Handles
    /\ Sources \in Seq([name : Names, content : Seq(Data)])
    /\ \A i \in DOMAIN Sources : Append(Destination, Sources[i].name) \in Paths

VARIABLES
    stage,       \* what the program is doing
    at,          \* the source it is at
    sent,        \* how much of it has been written
    troubled     \* whether the flash was full since it was opened

uploadVars == <<fileVars, stage, at, sent, troubled>>

UploadsTypeOK ==
    /\ FilesTypeOK
    /\ stage \in {"mount", "directory", "open", "write", "run", "crashed"}
    /\ at \in 1..(Len(Sources) + 1)
    /\ sent \in Nat
    /\ troubled \in BOOLEAN

UploadsInit ==
    /\ FilesInit
    /\ stage = "mount"
    /\ at = 1
    /\ sent = 0
    /\ troubled = FALSE

Uploading == stage = "write"

Target(i) == Append(Destination, Sources[i].name)

(* uploadFiles reaches the i-th source, or has had them all.               *)
Reach(i) == stage' = IF i <= Len(Sources) THEN "directory" ELSE "run"

(* mountFileSystem: whatever fails, mount() says "not formatted".          *)
MountFileSystem ==
    /\ stage = "mount"
    /\ IF formatted THEN Mount ELSE Format
    /\ Reach(1)
    /\ UNCHANGED <<at, sent, troubled>>

NextSource ==
    /\ at' = at + 1
    /\ sent' = 0
    /\ Reach(at + 1)

(* A file of the host that cannot be opened is closed all the same.        *)
MissSource ==
    /\ stage = "directory"
    /\ stage' = "crashed"
    /\ UNCHANGED <<fileVars, at, sent, troubled>>

(* Each file makes sure of the directory and then looks at lastError(),    *)
(* which may be older than makeDirectory.                                  *)
EnsureDirectory ==
    /\ stage = "directory"
    /\ IF Mounted THEN MakeDirectory(Destination) ELSE UNCHANGED fileVars
    /\ IF fsError' = "OK" THEN stage' = "open" /\ UNCHANGED <<at, sent>>
       ELSE NextSource
    /\ UNCHANGED troubled

OpenTarget ==
    /\ stage = "open"
    /\ OpenFile(Uploader, Target(at), "Write")
    /\ IF Valid(Uploader)' THEN stage' = "write" /\ UNCHANGED <<at, sent>> ELSE NextSource
    /\ troubled' = FALSE

(* What write() returns is not looked at, and valid() stays true. *)
WriteTarget ==
    /\ stage = "write"
    /\ sent < Len(Sources[at].content)
    /\ WriteFile(Uploader, Sources[at].content[sent + 1])
    /\ sent' = sent + 1
    /\ troubled' = (troubled \/ full')
    /\ UNCHANGED <<stage, at>>

CloseTarget ==
    /\ stage = "write"
    /\ sent = Len(Sources[at].content)
    /\ CloseFile(Uploader)
    /\ troubled' = FALSE
    /\ NextSource

(* The rest of the program. *)
RunProgram ==
    /\ stage = "run"
    /\ UseFiles \/ Mount \/ Format
    /\ UNCHANGED <<stage, at, sent, troubled>>

StartAgain ==
    /\ Restart
    /\ stage' = "mount"
    /\ at' = 1
    /\ sent' = 0
    /\ troubled' = FALSE

UploadsNext ==
    \/ MountFileSystem
    \/ MissSource
    \/ EnsureDirectory
    \/ OpenTarget
    \/ WriteTarget
    \/ CloseTarget
    \/ RunProgram
    \/ StartAgain

UploadsSpec == UploadsInit /\ [][UploadsNext]_uploadVars

-----------------------------------------------------------------------------
(* A file that is reported as uploaded ("Uploaded '%s' to '%s'",           *)
(* uploadFiles) is then in the file system with its data and no other,     *)
(* whatever an earlier life of the program left there and wherever it      *)
(* ended, unless the flash was full.                                       *)
UploadedIsStored ==
    [][Uploading /\ ~Uploading' /\ stage' # "mount" /\ ~troubled /\ ~full' =>
        tree'[Target(at)] = Holding(Sources[at].content)]_uploadVars
=============================================================================
