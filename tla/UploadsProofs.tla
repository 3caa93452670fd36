--------------------------- MODULE UploadsProofs ----------------------------
(***************************************************************************)
(* Theorems about the file system and the uploads, for every tree of names *)
(* and every number of files.                                              *)
(***************************************************************************)
EXTENDS Uploads, TLAPS

-----------------------------------------------------------------------------
(* Types. *)

(* The empty file fits into every file system.                             *)
LEMMA EmptyContent == <<>> \in Contents
<1>1. 0 \in 0..MaxSize
  BY FilesAssumption
<1>2. <<>> \in [1..0 -> Bytes]
  OBVIOUS
<1> QED
  BY <1>1, <1>2 DEF Contents

(* What a write within the bound leaves in a file is a content again.      *)
LEMMA OverlayContent ==
  ASSUME NEW s \in Contents, NEW n \in Nat, n < MaxSize, NEW d \in Data
  PROVE  Overlay(s, n, d) \in Contents
<1> DEFINE size == IF n < Len(s) THEN Len(s) ELSE n + 1
<1>1. PICK l \in 0..MaxSize : s \in [1..l -> Bytes]
  BY DEF Contents
<1>2. Len(s) = l
  BY <1>1
<1>3. size \in 0..MaxSize
  BY <1>2, FilesAssumption
<1>4. \A i \in 1..size : (IF i = n + 1 THEN d ELSE IF i <= Len(s) THEN s[i] ELSE Zero) \in Bytes
  BY <1>1, <1>2 DEF Bytes
<1>5. Overlay(s, n, d) \in [1..size -> Bytes]
  BY <1>4 DEF Overlay
<1> QED
  BY <1>3, <1>5 DEF Contents

(* An invalid file is of the type of files. *)
LEMMA InvalidType == Invalid \in FileRecords
BY EmptyContent DEF Invalid, AllModes, FileRecords

(* A call changes the position, the data or the name of a file.            *)
LEMMA ChangedType ==
  ASSUME NEW f \in FileRecords, NEW n \in Nat, NEW s \in Contents, NEW y \in BOOLEAN
  PROVE  /\ [f EXCEPT !.pos = n] \in FileRecords
         /\ [f EXCEPT !.pos = n, !.dirty = y] \in FileRecords
         /\ [f EXCEPT !.view = s, !.pos = n, !.dirty = y] \in FileRecords
         /\ [f EXCEPT !.path = <<>>] \in FileRecords
BY DEF FileRecords

(* The program starts with entries and files of their types.               *)
LEMMA FilesTypeInit == FilesInit => FilesTypeOK
BY InvalidType DEF FilesInit, FilesTypeOK

(* Every call leaves them so. *)
LEMMA FilesTypeStep == FilesTypeOK /\ [FilesNext]_fileVars => FilesTypeOK'
<1> SUFFICES ASSUME FilesTypeOK, [FilesNext]_fileVars
             PROVE  FilesTypeOK'
  OBVIOUS
<1> USE EmptyContent, InvalidType DEF FilesTypeOK
<1>0. ASSUME NEW h \in Handles
      PROVE  /\ file[h] \in FileRecords
             /\ file[h].view \in Contents
             /\ file[h].pos \in Nat
             /\ file[h].path \in Paths \cup {<<>>}
             /\ Len(file[h].view) \in Nat
  <2>1. file[h] \in FileRecords
    OBVIOUS
  <2>2. file[h].view \in Contents
    BY <2>1 DEF FileRecords
  <2>3. PICK l \in 0..MaxSize : file[h].view \in [1..l -> Bytes]
    BY <2>2 DEF Contents
  <2>4. Len(file[h].view) \in Nat
    BY <2>3
  <2> QED
    BY <2>1, <2>2, <2>4 DEF FileRecords
<1>1. ASSUME NEW h \in Handles, NEW p \in Paths, NEW m \in AllModes, OpenFile(h, p, m)
      PROVE  FilesTypeOK'
  <2>1. tree[p].data \in Contents
    BY DEF Nothing, Folder, Holding
  <2>2. tree' \in [Paths -> {Nothing, Folder} \cup {Holding(s) : s \in Contents}]
    BY <1>1 DEF OpenFile
  <2>3. \A v \in Contents, y \in BOOLEAN :
          [valid |-> TRUE, mode |-> m, path |-> p, view |-> v, pos |-> 0, dirty |-> y]
            \in FileRecords
    BY DEF FileRecords
  <2>4. file' \in [Handles -> FileRecords]
    BY <1>1, <2>1, <2>3 DEF OpenFile
  <2>5. mlist' \in SUBSET Handles
    BY <1>1 DEF OpenFile
  <2> QED
    BY <1>1, <2>2, <2>4, <2>5 DEF OpenFile
<1>2. ASSUME NEW h \in Handles, ReadFile(h)
      PROVE  FilesTypeOK'
  <2>1. file' \in [Handles -> FileRecords]
    <3>1. [file[h] EXCEPT !.pos = @ + 1] \in FileRecords
      <4>1. file[h].pos + 1 \in Nat
        BY <1>0
      <4> QED
        BY <1>0, <4>1, ChangedType
    <3> QED
      BY <1>2, <3>1 DEF ReadFile, Refuse
  <2> QED
    BY <1>2, <2>1 DEF ReadFile
<1>3. ASSUME NEW h \in Handles, NEW d \in Data, WriteFile(h, d)
      PROVE  FilesTypeOK'
  <2> DEFINE n == WritePos(file[h])
             s == Overlay(file[h].view, n, d)
  <2>1. n \in Nat
    BY <1>0 DEF WritePos
  <2>2. n < MaxSize => s \in Contents
    BY <1>0, <2>1, OverlayContent
  <2>3. [file[h] EXCEPT !.pos = n, !.dirty = FALSE] \in FileRecords
    BY <1>0, <2>1, ChangedType
  <2>4. n < MaxSize => [file[h] EXCEPT !.view = s, !.pos = n + 1, !.dirty = TRUE] \in FileRecords
    <3>1. n + 1 \in Nat
      BY <2>1
    <3> QED
      BY <1>0, <3>1, <2>2, ChangedType
  <2>5. \/ file' = [file EXCEPT ![h] = Invalid]
        \/ file' = [file EXCEPT ![h] = [@ EXCEPT !.pos = n, !.dirty = FALSE]]
        \/ /\ n < MaxSize
           /\ file' = [file EXCEPT ![h] = [@ EXCEPT !.view = s, !.pos = n + 1, !.dirty = TRUE]]
    BY <1>3 DEF WriteFile, Refuse
  <2>6. file' \in [Handles -> FileRecords]
    BY <2>3, <2>4, <2>5
  <2> QED
    BY <1>3, <2>6 DEF WriteFile
<1>4. ASSUME NEW h \in Handles, NEW n \in Offsets, NEW whence \in Whences, SeekFile(h, n, whence)
      PROVE  FilesTypeOK'
  <2>1. [file[h] EXCEPT !.pos = n] \in FileRecords
    BY <1>0, ChangedType, FilesAssumption
  <2>2. file' \in [Handles -> FileRecords]
    BY <1>4, <2>1 DEF SeekFile, Refuse
  <2> QED
    BY <1>4, <2>2 DEF SeekFile
<1>5. ASSUME NEW h \in Handles, CloseFile(h)
      PROVE  FilesTypeOK'
  <2>1. Publishes(file[h]) => file[h].path \in Paths /\ Holding(file[h].view) \in {Holding(s) : s \in Contents}
    BY <1>0 DEF Publishes
  <2>2. tree' \in [Paths -> {Nothing, Folder} \cup {Holding(s) : s \in Contents}]
    BY <1>5, <2>1 DEF CloseFile
  <2> QED
    BY <1>5, <2>2 DEF CloseFile
<1>6. ASSUME NEW p \in Paths, MakeDirectory(p)
      PROVE  FilesTypeOK'
  <2>1. \A reached : Made(reached) \in [Paths -> {Nothing, Folder} \cup {Holding(s) : s \in Contents}]
    BY DEF Made
  <2> QED
    BY <1>6, <2>1 DEF MakeDirectory
<1>7. ASSUME NEW p \in Paths, Remove(p)
      PROVE  FilesTypeOK'
  <2>1. \A h \in Handles : [file[h] EXCEPT !.path = <<>>] \in FileRecords
    BY <1>0, ChangedType, FilesAssumption
  <2> QED
    BY <1>7, <2>1 DEF Remove
<1>8. ASSUME NEW p \in Paths, NEW r \in Paths, Rename(p, r)
      PROVE  FilesTypeOK'
  <2>1. \A q : Moved(q, r, p) \in Paths =>
          tree[Moved(q, r, p)] \in {Nothing, Folder} \cup {Holding(s) : s \in Contents}
    OBVIOUS
  <2> QED
    BY <1>8, <2>1 DEF Rename
<1>9. CASE Mount
  BY <1>9 DEF Mount
<1>10. CASE Format
  BY <1>10 DEF Format
<1>11. CASE Restart
  BY <1>11 DEF Restart
<1>12. CASE UNCHANGED fileVars
  BY <1>12 DEF fileVars
<1> QED
  BY <1>1, <1>2, <1>3, <1>4, <1>5, <1>6, <1>7, <1>8, <1>9, <1>10, <1>11, <1>12 DEF FilesNext, UseFiles

(* Whatever is written, renamed or removed, the entries of the tree and    *)
(* the open files are of the types mount() and open() give them.           *)
THEOREM FilesTypeCorrect == FilesSpec => []FilesTypeOK
<1> QED
  BY FilesTypeInit, FilesTypeStep, PTL DEF FilesSpec

-----------------------------------------------------------------------------
(* Open files and the tree. *)

(* The entry of an open file, as one call leaves it for the next.          *)
HasEntry(h) == Valid(h) => /\ h \in mlist
                           /\ file[h].path # <<>> => tree[file[h].path].kind = "file"

(* Only files are opened, and a name is taken from its open files before   *)
(* another can have it.                                                    *)
LEMMA EntriesStep ==
  FilesTypeOK /\ OpenFilesHaveEntries /\ [FilesNext]_fileVars => OpenFilesHaveEntries'
<1> SUFFICES ASSUME FilesTypeOK, \A g \in Handles : HasEntry(g), [FilesNext]_fileVars,
                    NEW g \in Handles
             PROVE  HasEntry(g)'
  BY DEF OpenFilesHaveEntries, HasEntry
<1>0. /\ HasEntry(g)
      /\ file \in [Handles -> FileRecords] /\ DOMAIN tree = Paths
      /\ file[g].path \in Paths \cup {<<>>}
  BY DEF FilesTypeOK, FileRecords
<1>1. ASSUME NEW h \in Handles, NEW p \in Paths, NEW m \in AllModes, OpenFile(h, p, m)
      PROVE  HasEntry(g)'
  <2>1. CASE g = h
    BY <1>0, <1>1, <2>1 DEF OpenFile, HasEntry, Valid, CanOpen, Holding, Invalid
  <2>2. CASE g # h
    BY <1>0, <1>1, <2>2 DEF OpenFile, HasEntry, Valid, Holding
  <2> QED
    BY <2>1, <2>2
<1>10. ASSUME tree' = tree, mlist' = mlist,
              \/ file'[g] = Invalid
              \/ file'[g].valid = file[g].valid /\ file'[g].path = file[g].path
       PROVE  HasEntry(g)'
  <2>1. CASE file'[g] = Invalid
    BY <2>1 DEF HasEntry, Valid, Invalid
  <2>2. CASE file'[g].valid = file[g].valid /\ file'[g].path = file[g].path
    BY <1>0, <1>10, <2>2 DEF HasEntry, Valid
  <2> QED
    BY <1>10, <2>1, <2>2
<1>2. ASSUME NEW h \in Handles, ReadFile(h)
      PROVE  HasEntry(g)'
  BY <1>0, <1>2, <1>10 DEF ReadFile, Refuse, FileRecords
<1>11. ASSUME NEW h \in Handles, NEW d \in Data, WriteFile(h, d)
       PROVE  HasEntry(g)'
  <2> DEFINE n == WritePos(file[h])
             s == Overlay(file[h].view, n, d)
  <2>1. \/ file' = [file EXCEPT ![h] = Invalid]
        \/ file' = [file EXCEPT ![h] = [@ EXCEPT !.pos = n, !.dirty = FALSE]]
        \/ file' = [file EXCEPT ![h] = [@ EXCEPT !.view = s, !.pos = n + 1, !.dirty = TRUE]]
    BY <1>11 DEF WriteFile, Refuse
  <2>2. \/ file'[g] = Invalid
        \/ file'[g].valid = file[g].valid /\ file'[g].path = file[g].path
    <3>1. CASE g # h
      BY <1>0, <2>1, <3>1
    <3>2. CASE g = h
      BY <1>0, <2>1, <3>2 DEF FileRecords
    <3> QED
      BY <3>1, <3>2
  <2> QED
    BY <1>11, <1>10, <2>2 DEF WriteFile
<1>12. ASSUME NEW h \in Handles, NEW n \in Offsets, NEW whence \in Whences,
              SeekFile(h, n, whence)
       PROVE  HasEntry(g)'
  BY <1>0, <1>12, <1>10 DEF SeekFile, Refuse, FileRecords
<1>3. ASSUME NEW h \in Handles, CloseFile(h)
      PROVE  HasEntry(g)'
  <2>1. CASE g = h
    BY <1>0, <1>3, <2>1 DEF CloseFile, HasEntry, Valid, Invalid
  <2>2. CASE g # h
    <3>1. file'[g] = file[g] /\ (g \in mlist => g \in mlist')
      BY <1>0, <1>3, <2>2 DEF CloseFile
    <3>2. \A p \in Paths : tree[p].kind = "file" => tree'[p].kind = "file"
      BY <1>0, <1>3 DEF CloseFile, Holding
    <3> QED
      BY <1>0, <3>1, <3>2 DEF HasEntry, Valid
  <2> QED
    BY <2>1, <2>2
<1>4. ASSUME NEW p \in Paths, MakeDirectory(p)
      PROVE  HasEntry(g)'
  <2>1. \A reached : \A q \in Paths : tree[q].kind = "file" => Made(reached)[q].kind = "file"
    BY DEF Made, Nothing
  <2> QED
    BY <1>0, <1>4, <2>1 DEF MakeDirectory, HasEntry, Valid
<1>5. ASSUME NEW p \in Paths, Remove(p)
      PROVE  HasEntry(g)'
  <2>1. /\ file'[g].valid = file[g].valid
        /\ file'[g].path = IF file[g].path = p THEN <<>> ELSE file[g].path
    BY <1>0, <1>5 DEF Remove, FileRecords
  <2>2. \A q \in Paths : q # p => tree'[q] = tree[q]
    BY <1>0, <1>5 DEF Remove
  <2> QED
    BY <1>0, <1>5, <2>1, <2>2 DEF Remove, HasEntry, Valid
<1>6. ASSUME NEW p \in Paths, NEW r \in Paths, Rename(p, r)
      PROVE  HasEntry(g)'
  <2>1. Valid(g) => file[g].path \notin {p, r} \cup Below(p)
    BY <1>0, <1>6 DEF Rename, HasEntry
  <2>2. tree[file[g].path].kind = "file" => file[g].path \notin Below(r)
    BY <1>6 DEF Rename, Nothing
  <2>3. \A q \in Paths : q \notin {p, r} \cup Below(p) \cup Below(r) => tree'[q] = tree[q]
    BY <1>6 DEF Rename
  <2> QED
    BY <1>0, <1>6, <2>1, <2>2, <2>3 DEF Rename, HasEntry, Valid
<1>7. CASE Mount \/ Format
  BY <1>0, <1>7 DEF Mount, Format, HasEntry, Valid
<1>8. CASE Restart
  BY <1>0, <1>8 DEF Restart, HasEntry, Valid, Invalid
<1>9. CASE UNCHANGED fileVars
  BY <1>0, <1>9 DEF fileVars, HasEntry, Valid
<1> QED
  BY <1>1, <1>2, <1>3, <1>4, <1>5, <1>6, <1>7, <1>8, <1>9, <1>11, <1>12 DEF FilesNext, UseFiles

(* Whatever is removed, renamed, refused or mounted: a file that is open   *)
(* is in littlefs's list, and the name it is closed under is still that of *)
(* a file.                                                                 *)
THEOREM EntriesOfOpenFiles == FilesSpec => []OpenFilesHaveEntries
<1>1. FilesInit => OpenFilesHaveEntries
  BY DEF FilesInit, OpenFilesHaveEntries, Valid, Invalid
<1> QED
  BY <1>1, FilesTypeInit, FilesTypeStep, EntriesStep, PTL DEF FilesSpec

-----------------------------------------------------------------------------
(* The uploads. *)

(* The sources have names and contents.                                    *)
LEMMA SourcesType ==
  \A i \in DOMAIN Sources : Sources[i].name \in Names /\ Sources[i].content \in Seq(Data)
<1>1. \A S : \A s \in Seq(S) : \A i \in DOMAIN s : s[i] \in S
  OBVIOUS
<1>2. \A i \in DOMAIN Sources : Sources[i] \in [name : Names, content : Seq(Data)]
  BY <1>1, UploadsAssumption, Zenon
<1> QED
  BY <1>2

(* The source that an upload is at.                                        *)
AtSource ==
    /\ UploadsTypeOK
    /\ stage \in {"directory", "open", "write"} => at <= Len(Sources)
    /\ stage = "mount" => at = 1
    /\ sent <= IF stage = "write" THEN Len(Sources[at].content) ELSE 0

(* An upload uses the file system as any program does: each of its steps   *)
(* is one of the file system, or none.                                     *)
LEMMA UploadsUseFiles == AtSource /\ [UploadsNext]_uploadVars => [FilesNext]_fileVars
<1> SUFFICES ASSUME AtSource, [UploadsNext]_uploadVars
             PROVE  [FilesNext]_fileVars
  OBVIOUS
<1>0. stage \in {"directory", "open", "write"} =>
        /\ Target(at) \in Paths
        /\ Sources[at].content \in Seq(Data)
  <2>1. stage \in {"directory", "open", "write"} => at \in DOMAIN Sources
    BY UploadsAssumption DEF AtSource, UploadsTypeOK
  <2> QED
    BY <2>1, SourcesType, UploadsAssumption DEF Target
<1>1. CASE MountFileSystem
  BY <1>1 DEF MountFileSystem, FilesNext
<1>2. CASE MissSource
  BY <1>2 DEF MissSource
<1>3. CASE EnsureDirectory
  BY <1>3, UploadsAssumption DEF EnsureDirectory, FilesNext, UseFiles
<1>4. CASE OpenTarget
  <2>1. "Write" \in AllModes
    BY DEF AllModes
  <2> QED
    BY <1>0, <1>4, <2>1, UploadsAssumption DEF OpenTarget, FilesNext, UseFiles
<1>5. CASE WriteTarget
  <2>1. Sources[at].content[sent + 1] \in Data
    BY <1>0, <1>5 DEF WriteTarget, AtSource, UploadsTypeOK
  <2> QED
    BY <1>5, <2>1, UploadsAssumption DEF WriteTarget, FilesNext, UseFiles
<1>6. CASE CloseTarget
  BY <1>6, UploadsAssumption DEF CloseTarget, FilesNext, UseFiles
<1>7. CASE RunProgram
  BY <1>7 DEF RunProgram, FilesNext
<1>8. CASE StartAgain
  BY <1>8 DEF StartAgain, FilesNext
<1>9. CASE UNCHANGED uploadVars
  BY <1>9 DEF uploadVars
<1> QED
  BY <1>1, <1>2, <1>3, <1>4, <1>5, <1>6, <1>7, <1>8, <1>9 DEF UploadsNext

(* No step takes an upload past its sources or past the end of one.        *)
LEMMA AtSourceStep == AtSource /\ [UploadsNext]_uploadVars => AtSource'
<1> SUFFICES ASSUME AtSource, [UploadsNext]_uploadVars
             PROVE  AtSource'
  OBVIOUS
<1>0. FilesTypeOK'
  BY UploadsUseFiles, FilesTypeStep DEF AtSource, UploadsTypeOK
<1>00. /\ Len(Sources) \in Nat
       /\ at \in 1..(Len(Sources) + 1)
       /\ sent \in Nat
       /\ \A i \in 1..Len(Sources) : Len(Sources[i].content) \in Nat
  BY SourcesType, UploadsAssumption DEF AtSource, UploadsTypeOK
<1>10. ASSUME NextSource, at <= Len(Sources), troubled' \in BOOLEAN
       PROVE  AtSource'
  BY <1>0, <1>00, <1>10 DEF NextSource, Reach, AtSource, UploadsTypeOK
<1>1. CASE MountFileSystem
  BY <1>0, <1>00, <1>1 DEF MountFileSystem, Reach, AtSource, UploadsTypeOK
<1>2. CASE MissSource
  BY <1>0, <1>2 DEF MissSource, AtSource, UploadsTypeOK
<1>3. CASE EnsureDirectory
  BY <1>0, <1>00, <1>10, <1>3 DEF EnsureDirectory, AtSource, UploadsTypeOK
<1>4. CASE OpenTarget
  <2>1. CASE NextSource
    BY <1>10, <1>4, <2>1 DEF OpenTarget, AtSource
  <2>2. CASE stage' = "write" /\ UNCHANGED <<at, sent>>
    <3>1. UploadsTypeOK'
      BY <1>0, <1>4, <2>2 DEF OpenTarget, AtSource, UploadsTypeOK
    <3>2. sent = 0 /\ at \in 1..Len(Sources)
      BY <1>00, <1>4 DEF OpenTarget, AtSource
    <3>3. 0 <= Len(Sources[at].content)
      BY <1>00, <3>2
    <3> QED
      BY <2>2, <3>1, <3>2, <3>3 DEF AtSource
  <2> QED
    BY <1>4, <2>1, <2>2 DEF OpenTarget
<1>5. CASE WriteTarget
  BY <1>0, <1>00, <1>5 DEF WriteTarget, AtSource, UploadsTypeOK
<1>6. CASE CloseTarget
  BY <1>0, <1>00, <1>10, <1>6 DEF CloseTarget, AtSource, UploadsTypeOK
<1>7. CASE RunProgram
  BY <1>0, <1>7 DEF RunProgram, AtSource, UploadsTypeOK
<1>8. CASE StartAgain
  <2>1. 1 \in 1..(Len(Sources) + 1)
    BY <1>00
  <2>2. UploadsTypeOK'
    BY <1>0, <1>8, <2>1 DEF StartAgain, UploadsTypeOK
  <2> QED
    BY <1>8, <2>2 DEF StartAgain, AtSource
<1>9. CASE UNCHANGED uploadVars
  BY <1>0, <1>9 DEF uploadVars, AtSource, UploadsTypeOK
<1> QED
  BY <1>1, <1>2, <1>3, <1>4, <1>5, <1>6, <1>7, <1>8, <1>9 DEF UploadsNext

(* Before an upload begins and at its start, everything is as it should be.*)
LEMMA AtSourceInit == UploadsInit => AtSource
<1> SUFFICES ASSUME UploadsInit
             PROVE  AtSource
  OBVIOUS
<1>1. FilesTypeOK
  BY FilesTypeInit DEF UploadsInit
<1>2. 1 \in 1..(Len(Sources) + 1)
  BY UploadsAssumption
<1>3. UploadsTypeOK
  BY <1>1, <1>2 DEF UploadsInit, UploadsTypeOK
<1> QED
  BY <1>3 DEF UploadsInit, AtSource

(* The state of the uploads keeps its types, and no source is read past    *)
(* its end.                                                                *)
THEOREM UploadsTypeCorrect == UploadsSpec => []UploadsTypeOK
<1>1. AtSource => UploadsTypeOK
  BY DEF AtSource
<1> QED
  BY <1>1, AtSourceInit, AtSourceStep, PTL DEF UploadsSpec

(* Application.cpp drives the file system only as its specification        *)
(* allows, so that whatever is shown of the file system is true of it.     *)
THEOREM UploadsAreFiles == UploadsSpec => FilesSpec
<1>1. UploadsInit => FilesInit
  BY DEF UploadsInit
<1> QED
  BY <1>1, AtSourceInit, AtSourceStep, UploadsUseFiles, PTL DEF UploadsSpec, FilesSpec

(* What has been sent of source i. *)
SentOf(i) == [k \in 1..sent |-> Sources[i].content[k]]

(* While a file is written and the flash is not full, the File of the      *)
(* upload has what has been sent, in place of what the name had before.    *)
SentIsHeld ==
  stage = "write" =>
    LET f == file[Uploader] IN
    /\ f.valid /\ f.mode = "Write" /\ f.path = Target(at)
    /\ ~troubled =>
         /\ f.view = SentOf(at)
         /\ f.pos = sent
         /\ ~f.dirty => sent = 0 /\ tree[Target(at)] = Holding(<<>>)

(* Each write appends what it was given, since no other mode than "Write"  *)
(* and no other program moves the file.                                    *)
LEMMA SentIsHeldStep ==
  AtSource /\ SentIsHeld /\ [UploadsNext]_uploadVars => SentIsHeld'
<1> SUFFICES ASSUME AtSource, SentIsHeld, [UploadsNext]_uploadVars, (stage = "write")'
             PROVE  SentIsHeld'
  BY DEF SentIsHeld
<1>0. /\ file \in [Handles -> FileRecords] /\ tree \in [Paths -> {Nothing, Folder} \cup {Holding(s) : s \in Contents}]
      /\ Uploader \in Handles /\ sent \in Nat
  BY UploadsAssumption DEF AtSource, UploadsTypeOK, FilesTypeOK
<1>1. CASE OpenTarget
  <2>1. /\ file'[Uploader].valid
        /\ file' = [file EXCEPT ![Uploader] = file'[Uploader]]
        /\ sent' = 0 /\ at' = at
    BY <1>0, <1>1 DEF OpenTarget, OpenFile, NextSource, Reach, AtSource, Valid
  <2> DEFINE isNew == tree[Target(at)] = Nothing
             trunc == "TRUNC" \in Flags["Write"] /\ ~isNew
             view  == IF trunc THEN <<>> ELSE tree[Target(at)].data
  <2>2. "TRUNC" \in Flags["Write"]
    BY DEF Flags, AllModes
  <2>3. /\ file'[Uploader] = [valid |-> TRUE, mode |-> "Write", path |-> Target(at), view |-> view,
                             pos |-> 0, dirty |-> trunc]
        /\ tree' = IF isNew THEN [tree EXCEPT ![Target(at)] = Holding(<<>>)] ELSE tree
    BY <1>0, <1>1, <2>1 DEF OpenTarget, OpenFile, Invalid, Valid
  <2>4. view = <<>>
    BY <2>2 DEF Nothing
  <2>5. Target(at) \in Paths
    BY SourcesType, UploadsAssumption, <1>1 DEF AtSource, UploadsTypeOK, Target, OpenTarget
  <2>6. SentOf(at)' = <<>>
    BY <2>1 DEF SentOf
  <2>7. ~trunc => tree'[Target(at)] = Holding(<<>>)
    BY <1>0, <2>2, <2>3, <2>5
  <2> HIDE DEF trunc, view
  <2>8. Target(at)' = Target(at)
    BY <2>1 DEF Target
  <2> QED
    BY <2>1, <2>3, <2>4, <2>6, <2>7, <2>8 DEF SentIsHeld
<1>2. CASE WriteTarget
  <2> DEFINE f == file[Uploader]
             d == Sources[at].content[sent + 1]
  <2>1. f \in FileRecords /\ f.valid /\ f.mode = "Write" /\ f.path = Target(at)
    BY <1>0, <1>2 DEF WriteTarget, SentIsHeld
  <2>2. WritePos(f) = f.pos
    BY <2>1 DEF WritePos, Flags, AllModes
  <2>3. tree' = tree /\ at' = at /\ sent' = sent + 1 /\ Target(at)' = Target(at)
    BY <1>2 DEF WriteTarget, WriteFile, Target
  <2>4. \/ full'
        \/ file' = [file EXCEPT ![Uploader] =
              [@ EXCEPT !.view = Overlay(f.view, f.pos, d), !.pos = f.pos + 1, !.dirty = TRUE]]
    BY <1>2, <2>1, <2>2 DEF WriteTarget, WriteFile
  <2>5. CASE full'
    <3>1. troubled'
      BY <1>2, <2>5 DEF WriteTarget
    <3>2. \/ file' = [file EXCEPT ![Uploader] = [@ EXCEPT !.pos = f.pos, !.dirty = FALSE]]
          \/ file' = [file EXCEPT ![Uploader] =
              [@ EXCEPT !.view = Overlay(f.view, f.pos, d), !.pos = f.pos + 1, !.dirty = TRUE]]
      BY <1>2, <2>1, <2>2 DEF WriteTarget, WriteFile
    <3>3. file'[Uploader].valid /\ file'[Uploader].mode = "Write" /\ file'[Uploader].path = Target(at)
      BY <1>0, <2>1, <3>2 DEF FileRecords
    <3> QED
      BY <2>3, <3>1, <3>3 DEF SentIsHeld
  <2>6. CASE ~full'
    <3>1. file'[Uploader] = [f EXCEPT !.view = Overlay(f.view, f.pos, d), !.pos = f.pos + 1, !.dirty = TRUE]
      BY <1>0, <2>4, <2>6
    <3>2. /\ file'[Uploader].valid /\ file'[Uploader].mode = "Write"
          /\ file'[Uploader].path = Target(at) /\ file'[Uploader].dirty
          /\ file'[Uploader].view = Overlay(f.view, f.pos, d) /\ file'[Uploader].pos = f.pos + 1
      BY <2>1, <3>1 DEF FileRecords
    <3>3. ASSUME ~troubled
          PROVE  Overlay(f.view, f.pos, d) = SentOf(at)'
      <4>1. f.view = SentOf(at) /\ f.pos = sent
        BY <1>2, <3>3 DEF WriteTarget, SentIsHeld
      <4>2. Len(f.view) = sent
        BY <1>0, <4>1 DEF SentOf
      <4>3. Overlay(f.view, sent, d) = [k \in 1..(sent + 1) |-> Sources[at].content[k]]
        BY <1>0, <4>1, <4>2 DEF Overlay, SentOf
      <4> QED
        BY <2>3, <4>1, <4>3 DEF SentOf
    <3>4. ~troubled => f.pos = sent
      BY <1>2 DEF WriteTarget, SentIsHeld
    <3>5. ~troubled' => ~troubled
      BY <1>2 DEF WriteTarget
    <3> QED
      BY <2>3, <3>2, <3>3, <3>4, <3>5 DEF SentIsHeld
  <2> QED
    BY <2>5, <2>6
<1>3. CASE UNCHANGED uploadVars
  BY <1>3 DEF uploadVars, fileVars, SentIsHeld, Target, SentOf
<1> QED
  BY <1>1, <1>2, <1>3 DEF UploadsNext, MountFileSystem, MissSource, EnsureDirectory,
     CloseTarget, RunProgram, StartAgain, NextSource, Reach

(* The step that ends an upload publishes what the File holds.             *)
LEMMA CloseStores ==
  ASSUME AtSource, SentIsHeld, CloseTarget, ~troubled, ~full'
  PROVE  tree'[Target(at)] = Holding(Sources[at].content)
<1> DEFINE f == file[Uploader]
<1>1. /\ f.path = Target(at) /\ f.view = SentOf(at)
      /\ ~f.dirty => sent = 0 /\ tree[Target(at)] = Holding(<<>>)
      /\ sent = Len(Sources[at].content)
  BY DEF CloseTarget, SentIsHeld
<1>2. at \in DOMAIN Sources
  BY UploadsAssumption DEF CloseTarget, AtSource, UploadsTypeOK
<1>3. Sources[at].content \in Seq(Data)
  BY <1>2, SourcesType
<1>4. SentOf(at) = Sources[at].content
  BY <1>1, <1>3 DEF SentOf
<1>5. Target(at) \in Paths /\ Target(at) # <<>>
  BY <1>2, UploadsAssumption, FilesAssumption DEF Target
<1>6. tree' = IF f.dirty THEN [tree EXCEPT ![Target(at)] = Holding(f.view)] ELSE tree
  BY <1>1, <1>5 DEF CloseTarget, CloseFile, Publishes
<1>7. DOMAIN tree = Paths
  BY DEF AtSource, UploadsTypeOK, FilesTypeOK
<1>8. CASE f.dirty
  BY <1>1, <1>4, <1>5, <1>6, <1>7, <1>8
<1>9. CASE ~f.dirty
  <2>1. Sources[at].content = <<>>
    BY <1>1, <1>3, <1>9
  <2> QED
    BY <1>1, <1>6, <1>9, <2>1
<1> QED
  BY <1>8, <1>9

(* Of whatever length the files are and whatever was there before: a file  *)
(* that uploadFiles reports is stored with its data and no other, unless   *)
(* the flash was full.                                                     *)
THEOREM UploadsAreStored == UploadsSpec => UploadedIsStored
<1>1. UploadsInit => SentIsHeld
  BY DEF UploadsInit, SentIsHeld
<1>2. AtSource /\ SentIsHeld /\ [UploadsNext]_uploadVars =>
        [Uploading /\ ~Uploading' /\ stage' # "mount" /\ ~troubled /\ ~full' =>
            tree'[Target(at)] = Holding(Sources[at].content)]_uploadVars
  <2> SUFFICES ASSUME AtSource, SentIsHeld, UploadsNext, Uploading, ~Uploading',
                      stage' # "mount", ~troubled, ~full'
               PROVE  tree'[Target(at)] = Holding(Sources[at].content)
    BY DEF uploadVars
  <2>1. CloseTarget
    BY DEF UploadsNext, Uploading, MountFileSystem, MissSource, EnsureDirectory, OpenTarget,
           WriteTarget, RunProgram, StartAgain
  <2> QED
    BY <2>1, CloseStores
<1> QED
  BY <1>1, <1>2, AtSourceInit, AtSourceStep, SentIsHeldStep, PTL DEF UploadsSpec, UploadedIsStored

-----------------------------------------------------------------------------
(* The table of MFS.h. *)

(* What else is true of a File object: its mode is one its user opens,     *)
(* in mode Append its position is never past the end, and one that is not  *)
(* valid keeps nothing.                                                    *)
Sound(h) ==
    IF Valid(h)
    THEN /\ file[h].mode \in Modes[h]
         /\ file[h].mode = "Append" => file[h].pos <= Len(file[h].view)
    ELSE file[h] = Invalid

FilesAreSound == \A h \in Handles : Sound(h)

FilesInv == FilesTypeOK /\ OpenFilesHaveEntries /\ FilesAreSound

(* The data of a file has a length.                                        *)
LEMMA ContentLength == \A s \in Contents : Len(s) \in Nat
<1> SUFFICES ASSUME NEW s \in Contents
             PROVE  Len(s) \in Nat
  OBVIOUS
<1>1. PICK l \in 0..MaxSize : s \in [1..l -> Bytes]
  BY DEF Contents
<1> QED
  BY <1>1

LEMMA ViewLength ==
  ASSUME FilesTypeOK, NEW h \in Handles
  PROVE  /\ file[h] \in FileRecords /\ file[h].pos \in Nat
         /\ Len(file[h].view) \in Nat
         /\ file[h].path \in Paths \cup {<<>>}
<1>1. file[h] \in FileRecords
  BY DEF FilesTypeOK
<1> QED
  BY <1>1, ContentLength DEF FileRecords

(* A write that has room ends no earlier than its byte.                    *)
LEMMA OverlayLength ==
  ASSUME NEW s, Len(s) \in Nat, NEW n \in Nat, NEW d
  PROVE  Len(Overlay(s, n, d)) = IF n < Len(s) THEN Len(s) ELSE n + 1
BY DEF Overlay

LEMMA SoundStep ==
  FilesTypeOK /\ FilesAreSound /\ [FilesNext]_fileVars => FilesAreSound'
<1> SUFFICES ASSUME FilesTypeOK, \A g \in Handles : Sound(g), [FilesNext]_fileVars,
                    NEW g \in Handles
             PROVE  Sound(g)'
  BY DEF FilesAreSound
<1>0. /\ Sound(g)
      /\ file \in [Handles -> FileRecords]
      /\ file[g] \in FileRecords
      /\ file[g].pos \in Nat /\ Len(file[g].view) \in Nat
  BY ViewLength DEF FilesTypeOK
<1>10. ASSUME file'[g] = Invalid \/ file'[g] = file[g]
       PROVE  Sound(g)'
  <2>1. CASE file'[g] = Invalid
    BY <2>1 DEF Sound, Valid, Invalid
  <2>2. CASE file'[g] = file[g]
    BY <1>0, <2>2 DEF Sound, Valid
  <2> QED
    BY <1>10, <2>1, <2>2
<1>1. ASSUME NEW h \in Handles, NEW p \in Paths, NEW m \in AllModes, OpenFile(h, p, m)
      PROVE  Sound(g)'
  <2>1. CASE g = h /\ file'[g] # Invalid
    <3>1. file'[g].valid /\ file'[g].mode = m /\ file'[g].pos = 0
      BY <1>0, <1>1, <2>1 DEF OpenFile
    <3>2. FilesTypeOK'
      BY FilesTypeStep
    <3>3. Len(file'[g].view) \in Nat
      BY <3>2, ContentLength DEF FilesTypeOK, FileRecords
    <3> QED
      BY <1>1, <2>1, <3>1, <3>3 DEF Sound, Valid, OpenFile
  <2>2. CASE g # h
    BY <1>0, <1>1, <1>10, <2>2 DEF OpenFile
  <2> QED
    BY <1>10, <2>1, <2>2
<1>2. ASSUME NEW h \in Handles, ReadFile(h)
      PROVE  Sound(g)'
  <2>1. CASE g # h \/ file' = [file EXCEPT ![h] = Invalid]
    BY <1>0, <1>2, <1>10, <2>1 DEF ReadFile, Refuse
  <2>2. CASE g = h /\ file[g].mode \notin {"Write", "Append"}
    <3>1. file'[g].valid = file[g].valid /\ file'[g].mode = file[g].mode
      BY <1>0, <1>2, <2>2 DEF ReadFile, FileRecords
    <3> QED
      BY <1>0, <1>2, <2>2, <3>1 DEF Sound, Valid, ReadFile
  <2> QED
    BY <1>2, <2>1, <2>2 DEF ReadFile, Refuse
<1>3. ASSUME NEW h \in Handles, NEW d \in Data, WriteFile(h, d)
      PROVE  Sound(g)'
  <2> DEFINE n == WritePos(file[h])
             s == Overlay(file[h].view, n, d)
  <2>1. \/ file' = [file EXCEPT ![h] = Invalid]
        \/ file' = [file EXCEPT ![h] = [@ EXCEPT !.pos = n, !.dirty = FALSE]]
        \/ file' = [file EXCEPT ![h] = [@ EXCEPT !.view = s, !.pos = n + 1, !.dirty = TRUE]]
    BY <1>3 DEF WriteFile, Refuse
  <2>2. CASE g # h \/ file' = [file EXCEPT ![h] = Invalid]
    BY <1>0, <1>10, <2>1, <2>2
  <2>3. CASE g = h
    <3>1. n \in Nat /\ (file[g].mode = "Append" /\ Valid(g) => n <= Len(file[g].view))
      BY <1>0, <2>3 DEF WritePos, Sound
    <3>2. Len(s) = IF n < Len(file[g].view) THEN Len(file[g].view) ELSE n + 1
      BY <1>0, <2>3, <3>1, OverlayLength
    <3> HIDE DEF n, s
    <3>3. CASE file' = [file EXCEPT ![h] = [@ EXCEPT !.pos = n, !.dirty = FALSE]]
      <4>1. /\ file'[g].valid = file[g].valid /\ file'[g].mode = file[g].mode
            /\ file'[g].view = file[g].view /\ file'[g].pos = n
        BY <1>0, <2>3, <3>3 DEF FileRecords
      <4> QED
        BY <1>0, <1>3, <2>3, <3>1, <4>1 DEF Sound, Valid, WriteFile
    <3>4. CASE file' = [file EXCEPT ![h] = [@ EXCEPT !.view = s, !.pos = n + 1, !.dirty = TRUE]]
      <4>1. /\ file'[g].valid = file[g].valid /\ file'[g].mode = file[g].mode
            /\ file'[g].view = s /\ file'[g].pos = n + 1
        BY <1>0, <2>3, <3>4 DEF FileRecords
      <4>2. n + 1 <= Len(s)
        BY <1>0, <3>1, <3>2
      <4> QED
        BY <1>0, <1>3, <2>3, <4>1, <4>2 DEF Sound, Valid, WriteFile
    <3> QED
      BY <2>1, <2>2, <3>3, <3>4
  <2> QED
    BY <2>2, <2>3
<1>4. ASSUME NEW h \in Handles, NEW n \in Offsets, NEW whence \in Whences, SeekFile(h, n, whence)
      PROVE  Sound(g)'
  <2>1. CASE g # h \/ file' = [file EXCEPT ![h] = Invalid]
    BY <1>0, <1>4, <1>10, <2>1 DEF SeekFile, Refuse
  <2>2. CASE g = h /\ file[g].mode # "Append"
    <3>1. file'[g].valid = file[g].valid /\ file'[g].mode = file[g].mode
      BY <1>0, <1>4, <2>2 DEF SeekFile, FileRecords
    <3> QED
      BY <1>0, <1>4, <2>2, <3>1 DEF Sound, Valid, SeekFile
  <2> QED
    BY <1>4, <2>1, <2>2 DEF SeekFile, Refuse
<1>5. ASSUME NEW h \in Handles, CloseFile(h)
      PROVE  Sound(g)'
  BY <1>0, <1>5, <1>10 DEF CloseFile
<1>6. ASSUME NEW p \in Paths, Remove(p)
      PROVE  Sound(g)'
  <2>1. CASE file[g].path = p
    <3>1. file' = [h \in Handles |-> IF file[h].path = p
                                    THEN [file[h] EXCEPT !.path = <<>>] ELSE file[h]]
      BY <1>6 DEF Remove
    <3>2. /\ file'[g].valid = file[g].valid /\ file'[g].mode = file[g].mode
          /\ file'[g].view = file[g].view /\ file'[g].pos = file[g].pos
      BY <1>0, <2>1, <3>1 DEF FileRecords
    <3>3. Valid(g)
      BY <1>0, <2>1, FilesAssumption DEF Sound, Invalid
    <3> QED
      BY <1>0, <3>2, <3>3 DEF Sound, Valid
  <2>2. CASE file[g].path # p
    BY <1>6, <1>10, <2>2 DEF Remove
  <2> QED
    BY <2>1, <2>2
<1>7. ASSUME NEW p \in Paths, \/ MakeDirectory(p)
                             \/ \E r \in Paths : Rename(p, r)
      PROVE  Sound(g)'
  BY <1>7, <1>10 DEF MakeDirectory, Rename
<1>8. CASE Mount \/ Format \/ Restart
  BY <1>8, <1>10 DEF Mount, Format, Restart
<1>9. CASE UNCHANGED fileVars
  BY <1>9, <1>10 DEF fileVars
<1> QED
  BY <1>1, <1>2, <1>3, <1>4, <1>5, <1>6, <1>7, <1>8, <1>9 DEF FilesNext, UseFiles

(* An open file is in the table what its File is, except that in mode      *)
(* Append its position is always the end.                                  *)
LEMMA SessionFields ==
  ASSUME FilesInv, NEW h \in Handles
  PROVE  LET s == Session(h)
             f == file[h] IN
         /\ s \in [valid : BOOLEAN, mode : AllModes, path : Paths \cup {<<>>},
                   view : Contents, pos : Nat, dirty : BOOLEAN]
         /\ s.valid = f.valid /\ s.mode = f.mode /\ s.path = f.path
         /\ s.view = f.view /\ s.dirty = f.dirty
         /\ s.pos = IF f.mode = "Append" THEN Len(f.view) ELSE f.pos
         /\ ~f.valid => s = Table!Ended
<1>1. file[h] \in FileRecords /\ Len(file[h].view) \in Nat
  BY ViewLength DEF FilesInv
<1>2. ~file[h].valid => file[h] = Table!Ended
  BY DEF FilesInv, FilesAreSound, Sound, Valid, Invalid, Table!Ended
<1>3. file[h] = Table!Ended => file[h].mode # "Append"
  BY DEF Table!Ended
<1> QED
  BY <1>1, <1>2, <1>3 DEF Session, FileRecords

(* The modes of the table: what littlefs is asked for is what MFS.h says,  *)
(* except in the two modes that nothing in the repository uses.            *)
LEMMA ModesOfTable ==
  \A m \in AllModes \ {"WriteUpdate", "AppendUpdate"} :
     /\ m \in Table!OpenModes
     /\ "CREAT" \in Flags[m] <=> Table!Creates(m)
     /\ "TRUNC" \in Flags[m] <=> Table!Deletes(m)
     /\ "APPEND" \in Flags[m] <=> m = "Append"
     /\ Table!AtEnd(m) <=> m = "Append"
     /\ Table!Reads(m) <=> m \notin {"Write", "Append"}
     /\ Table!Writes(m) <=> m # "Read"
     /\ Table!Seeks(m) <=> m # "Append"
BY DEF AllModes, Flags, Table!OpenModes, Table!Creates, Table!Deletes, Table!AtEnd,
       Table!Reads, Table!Writes, Table!Seeks

(* The names that a rename brings about are below their new directory, and *)
(* had names below the old one.                                            *)
LEMMA MovedIsBelow ==
  ASSUME NEW p \in Paths, NEW r \in Paths, NEW q \in Paths, q = r \/ q \in Below(r),
         Moved(q, r, p) \in Paths
  PROVE  Moved(q, r, p) = p \/ Moved(q, r, p) \in Below(p)
<1>1. p \in Seq(Names) /\ r \in Seq(Names) /\ q \in Seq(Names) /\ p # <<>>
  BY FilesAssumption
<1>2. CASE q = r
  BY <1>1, <1>2 DEF Moved
<1>3. CASE q \in Below(r)
  <2>1. PICK i \in 1..(Len(q) - 1) : r = SubSeq(q, 1, i)
    BY <1>3 DEF Below, Prefixes
  <2>2. Len(r) = i
    BY <1>1, <2>1
  <2> DEFINE t == SubSeq(q, Len(r) + 1, Len(q))
  <2>3. t \in Seq(Names) /\ Len(t) >= 1
    BY <1>1, <2>1, <2>2
  <2> HIDE DEF t
  <2>4. SubSeq(p \o t, 1, Len(p)) = p
    BY <1>1, <2>3
  <2>5. Len(p) \in 1..(Len(p \o t) - 1)
    BY <1>1, <2>3
  <2>6. p \in Prefixes(p \o t)
    BY <2>4, <2>5 DEF Prefixes
  <2> QED
    BY <2>6 DEF Moved, Below, t
<1> QED
  BY <1>2, <1>3

(* What the table sees: its files, and those that a call was refused on.   *)
Sessions == [h \in Handles |-> Session(h)]
Spoiled == {h \in mlist : ~Valid(h)}

KeepsModes == \A h \in Handles : Modes[h] \cap {"WriteUpdate", "AppendUpdate"} = {}

(* Of a call on one file the table sees that file change and no other.     *)
LEMMA OneSession ==
  ASSUME FilesTypeOK, NEW h \in Handles, NEW f, file' = [file EXCEPT ![h] = f]
  PROVE  /\ file'[h] = f
         /\ Sessions' = [Sessions EXCEPT ![h] = Session(h)']
<1>1. \A g \in Handles : g # h => Session(g)' = Session(g)
  BY DEF Session, FilesTypeOK
<1> QED
  BY <1>1 DEF Sessions, FilesTypeOK

(* A refused call is TableRefuse.                                          *)
LEMMA RefuseIsTableRefuse ==
  ASSUME FilesInv, NEW h \in Handles, Valid(h), Refuse(h), mlist' = mlist, tree' = tree,
         full' = FALSE,
         \/ ~Table!Reads(file[h].mode)
         \/ ~Table!Writes(file[h].mode)
         \/ ~Table!Seeks(file[h].mode)
  PROVE  Table!TableRefuse(h)
<1>1. Sessions' = [Sessions EXCEPT ![h] = Session(h)'] /\ file'[h] = Invalid
  BY OneSession DEF Refuse, FilesInv
<1>2. Session(h)' = Table!Ended
  BY <1>1 DEF Session, Invalid, Table!Ended
<1>3. Spoiled' = Spoiled \cup {h}
  <2>1. h \in mlist
    BY DEF FilesInv, OpenFilesHaveEntries
  <2>2. \A g \in Handles : g # h => file'[g] = file[g]
    BY DEF Refuse, FilesInv, FilesTypeOK
  <2>3. mlist \subseteq Handles
    BY DEF FilesInv, FilesTypeOK
  <2>4. ~Valid(h)'
    BY <1>1 DEF Valid, Invalid
  <2> QED
    BY <2>1, <2>2, <2>3, <2>4 DEF Spoiled, Valid
<1>4. Session(h).valid /\ Session(h).mode = file[h].mode
  BY SessionFields DEF Valid
<1> QED
  BY <1>1, <1>2, <1>3, <1>4 DEF Table!TableRefuse, Table!IsOpen, Table!Put, Sessions, Spoiled

(* A call on one file that leaves it valid refuses no other either.        *)
LEMMA SameSpoiled ==
  ASSUME FilesTypeOK, NEW h \in Handles, NEW f, file' = [file EXCEPT ![h] = f],
         mlist' = mlist, f.valid = Valid(h)
  PROVE  Spoiled' = Spoiled
<1>1. \A g \in Handles : Valid(g)' = Valid(g)
  BY DEF FilesTypeOK, Valid
<1> QED
  BY <1>1 DEF Spoiled, FilesTypeOK

(* Opening a file.                                                         *)
LEMMA OpenIsTableOpen ==
  ASSUME FilesInv, KeepsModes, NEW h \in Handles, NEW p \in Paths, NEW m \in AllModes,
         OpenFile(h, p, m)
  PROVE  [Table!TableNext]_(Table!tableVars)
<1> DEFINE isNew == tree[p] = Nothing
           trunc == "TRUNC" \in Flags[m] /\ ~isNew
           view  == IF trunc THEN <<>> ELSE tree[p].data
           opened == [valid |-> TRUE, mode |-> m, path |-> p, view |-> view, pos |-> 0,
                      dirty |-> trunc]
<1>0. FilesTypeOK /\ ~Valid(h) /\ h \notin mlist /\ h \notin Spoiled /\ full' \in BOOLEAN
  BY DEF OpenFile, Fresh, FilesInv, Spoiled
<1>1. CASE /\ Mounted /\ CanOpen(p, "CREAT" \in Flags[m]) /\ full' = FALSE
           /\ tree' = IF isNew THEN [tree EXCEPT ![p] = Holding(<<>>)] ELSE tree
           /\ mlist' = mlist \cup {h}
           /\ file' = [file EXCEPT ![h] = opened]
  <2>1. /\ tree' = IF isNew THEN [tree EXCEPT ![p] = Holding(<<>>)] ELSE tree
        /\ mlist' = mlist \cup {h}
        /\ file' = [file EXCEPT ![h] = opened]
    BY <1>1
  <2>2. m \in AllModes \ {"WriteUpdate", "AppendUpdate"}
    BY DEF OpenFile, KeepsModes
  <2>3. Sessions' = [Sessions EXCEPT ![h] = Session(h)'] /\ file'[h] = opened
    BY <1>0, <2>1, OneSession
  <2>4. Spoiled' = Spoiled
    <3>1. \A g \in Handles : g # h => Valid(g)' = Valid(g)
      BY <1>0, <2>1 DEF FilesTypeOK, Valid
    <3>2. Valid(h)'
      BY <2>3 DEF Valid
    <3> QED
      BY <1>0, <2>1, <3>1, <3>2 DEF Spoiled, FilesTypeOK
  <2>5. \/ tree[p].kind = "file" /\ ~isNew
        \/ tree[p].kind = "none" /\ isNew /\ Table!Creates(m)
    BY <1>1, <2>2, ModesOfTable DEF CanOpen, Nothing
  <2>6. view = IF Table!Deletes(m) THEN <<>> ELSE tree[p].data
    BY <2>2, ModesOfTable DEF Nothing
  <2>7. trunc <=> Table!Deletes(m) /\ tree[p].kind = "file"
    BY <2>2, <2>5, ModesOfTable DEF Nothing
  <2> HIDE DEF trunc, view
  <2>8. Session(h)' = [valid |-> TRUE, mode |-> m, path |-> p, view |-> view,
                       pos |-> IF Table!AtEnd(m) THEN Len(view) ELSE 0,
                       dirty |-> trunc]
    <3>1. Table!AtEnd(m) <=> m = "Append"
      BY <2>2, ModesOfTable
    <3>2. CASE m = "Append"
      <4>1. Session(h)' = [opened EXCEPT !.pos = Len(view)]
        BY <2>3, <3>2 DEF Session
      <4> QED
        BY <3>1, <3>2, <4>1
    <3>3. CASE m # "Append"
      <4>1. Session(h)' = opened
        BY <2>3, <3>3 DEF Session
      <4> QED
        BY <3>1, <3>3, <4>1
    <3> QED
      BY <3>2, <3>3
  <2>9. trunc = (Table!Deletes(m) /\ tree[p].kind = "file")
    BY <2>7 DEF trunc
  <2>10. \/ tree[p].kind = "file" /\ UNCHANGED tree
         \/ /\ tree[p].kind = "none" /\ Table!Creates(m)
            /\ tree' = [tree EXCEPT ![p] = Table!Holding(<<>>)]
    BY <2>1, <2>5 DEF Holding, Table!Holding
  <2>11. Table!TableOpen(h)
    <3>1. ~Sessions[h].valid
      BY <1>0, SessionFields DEF Sessions, Valid
    <3>2. m \in Table!OpenModes
      BY <2>2, ModesOfTable
    <3>3. Session(h)' = [valid |-> TRUE, mode |-> m, path |-> p,
                         view |-> IF Table!Deletes(m) THEN <<>> ELSE tree[p].data,
                         pos |-> IF Table!AtEnd(m)
                                 THEN Len(IF Table!Deletes(m) THEN <<>> ELSE tree[p].data)
                                 ELSE 0,
                         dirty |-> Table!Deletes(m) /\ tree[p].kind = "file"]
      BY <2>6, <2>8, <2>9
    <3>4. ~Table!IsOpen(h)
      BY <3>1 DEF Table!IsOpen, Sessions
    <3>5. \A s : Session(h)' = s => Table!Put(h, s)
      BY <2>3 DEF Table!Put, Sessions
    <3> QED
      BY <1>0, <1>1, <2>4, <2>10, <3>2, <3>3, <3>4, <3>5 DEF Table!TableOpen, Spoiled
  <2> QED
    BY <2>11 DEF Table!TableNext
<1>2. CASE file' = [file EXCEPT ![h] = Invalid] /\ UNCHANGED <<tree, mlist>>
  <2>1. file' = [file EXCEPT ![h] = Invalid] /\ UNCHANGED <<tree, mlist>>
    BY <1>2
  <2>2. file[h] = Invalid
    BY <1>0 DEF FilesInv, FilesAreSound, Sound
  <2>3. file' = file
    BY <1>0, <2>1, <2>2 DEF FilesTypeOK
  <2>4. Sessions' = Sessions /\ Spoiled' = Spoiled
    BY <2>1, <2>3 DEF Sessions, Spoiled, Session, Valid
  <2>5. Table!TableRearrange
    BY <1>0, <2>1, <2>4 DEF Table!TableRearrange, Sessions, Spoiled
  <2> QED
    BY <2>5 DEF Table!TableNext
<1> QED
  BY <1>1, <1>2 DEF OpenFile

(* The mode of a valid file is one of the table's.                         *)
LEMMA ModeOfFile ==
  ASSUME FilesInv, KeepsModes, NEW h \in Handles, Valid(h)
  PROVE  /\ file[h].mode \in AllModes \ {"WriteUpdate", "AppendUpdate"}
         /\ Sessions[h].valid /\ Sessions[h] = Session(h)
         /\ file[h].mode = "Append" => file[h].pos <= Len(file[h].view)
<1>1. Sound(h) /\ file[h] \in FileRecords
  BY ViewLength DEF FilesInv, FilesAreSound
<1> QED
  BY <1>1, SessionFields DEF KeepsModes, Sound, Valid, FileRecords, Sessions

(* Reading.                                                                *)
LEMMA ReadIsTableRead ==
  ASSUME FilesInv, KeepsModes, NEW h \in Handles, ReadFile(h)
  PROVE  Table!TableRead(h) \/ Table!TableRefuse(h)
<1> DEFINE f == file[h]
           read == [f EXCEPT !.pos = f.pos + 1]
<1>0. FilesTypeOK /\ Valid(h) /\ UNCHANGED <<tree, mlist>> /\ full' = FALSE
  BY DEF ReadFile, FilesInv
<1>1. CASE f.mode \in {"Write", "Append"}
  <2>1. Refuse(h)
    BY <1>1 DEF ReadFile
  <2>2. ~Table!Reads(f.mode)
    BY <1>0, <1>1, ModeOfFile, ModesOfTable
  <2> QED
    BY <1>0, <2>1, <2>2, RefuseIsTableRefuse
<1>2. CASE f.mode \notin {"Write", "Append"}
  <2>1. f.pos < Len(f.view) /\ file' = [file EXCEPT ![h] = read]
    BY <1>2 DEF ReadFile
  <2>2. Sessions' = [Sessions EXCEPT ![h] = Session(h)'] /\ file'[h] = read
    BY <1>0, <2>1, OneSession
  <2>3. Session(h) = f /\ Session(h)' = read
    <3>1. read.mode = f.mode
      BY <1>0, ViewLength DEF FileRecords
    <3> QED
      BY <1>2, <2>2, <3>1 DEF Session
  <2>4. Spoiled' = Spoiled
    <3>1. read.valid = Valid(h)
      BY <1>0, ViewLength DEF FileRecords, Valid
    <3> QED
      BY <1>0, <2>1, <3>1, SameSpoiled
  <2>5. Table!IsOpen(h) /\ Table!Reads(f.mode) /\ Sessions[h] = f
    BY <1>0, <1>2, <2>3, ModeOfFile, ModesOfTable DEF Table!IsOpen, Sessions
  <2> QED
    BY <1>0, <2>1, <2>2, <2>3, <2>4, <2>5 DEF Table!TableRead, Table!Put, Sessions, Spoiled
<1> QED
  BY <1>1, <1>2

(* Writing.                                                                *)
LEMMA WriteIsTableWrite ==
  ASSUME FilesInv, KeepsModes, NEW h \in Handles, NEW d \in Data, WriteFile(h, d)
  PROVE  Table!TableWrite(h, d) \/ Table!TableRefuse(h) \/ Table!TableLose(h)
<1> DEFINE f == file[h]
           n == WritePos(f)
           s == Overlay(f.view, n, d)
           lost == [f EXCEPT !.pos = n, !.dirty = FALSE]
           written == [f EXCEPT !.view = s, !.pos = n + 1, !.dirty = TRUE]
<1>0. FilesTypeOK /\ Valid(h) /\ UNCHANGED <<tree, mlist>>
  BY DEF WriteFile, FilesInv
<1>1. CASE f.mode = "Read"
  <2>1. Refuse(h) /\ full' = FALSE
    BY <1>1 DEF WriteFile
  <2>2. ~Table!Writes(f.mode)
    BY <1>0, <1>1, ModeOfFile, ModesOfTable
  <2> QED
    BY <1>0, <2>1, <2>2, RefuseIsTableRefuse
<1>2. CASE f.mode # "Read"
  <2>0. /\ f \in FileRecords /\ f.pos \in Nat /\ Len(f.view) \in Nat
        /\ f.mode \in AllModes \ {"WriteUpdate", "AppendUpdate"}
        /\ f.mode = "Append" => f.pos <= Len(f.view)
    BY <1>0, ViewLength, ModeOfFile
  <2>1. n = IF Table!AtEnd(f.mode) THEN Len(f.view) ELSE f.pos
    BY <2>0, ModesOfTable DEF WritePos
  <2>2. /\ Table!IsOpen(h) /\ Table!Writes(f.mode)
        /\ Sessions[h].mode = f.mode /\ Sessions[h].view = f.view
        /\ ~Table!AtEnd(f.mode) => Sessions[h].pos = f.pos
    BY <1>0, <1>2, <2>0, ModeOfFile, ModesOfTable, SessionFields DEF Table!IsOpen, Sessions
  <2>3. s = Table!Overlay(f.view, n, d)
    BY DEF Overlay, Table!Overlay
  <2>4. Len(s) = IF n < Len(f.view) THEN Len(f.view) ELSE n + 1
    BY <2>0, <2>1, OverlayLength
  <2> HIDE DEF n, s
  <2>5. CASE file' = [file EXCEPT ![h] = written] /\ full' = FALSE
    <3>1. Sessions' = [Sessions EXCEPT ![h] = Session(h)'] /\ file'[h] = written
      BY <1>0, <2>5, OneSession
    <3>2. Spoiled' = Spoiled
      <4>1. written.valid = Valid(h)
        BY <2>0 DEF FileRecords, Valid
      <4> QED
        BY <1>0, <2>5, <4>1, SameSpoiled
    <3>3. Session(h)' = [Session(h) EXCEPT !.view = s, !.pos = n + 1, !.dirty = TRUE]
      <4>1. CASE f.mode = "Append"
        <5>1. n + 1 = Len(s)
          BY <2>0, <2>1, <2>4, <4>1, ModesOfTable
        <5>2. Session(h) = [f EXCEPT !.pos = Len(f.view)]
          BY <4>1 DEF Session
        <5>3. file'[h].mode = "Append" /\ file'[h].view = s
          BY <2>0, <3>1, <4>1 DEF FileRecords
        <5>4. Session(h)' = [written EXCEPT !.pos = Len(s)]
          BY <3>1, <5>3 DEF Session
        <5> QED
          BY <2>0, <5>1, <5>2, <5>4 DEF FileRecords
      <4>2. CASE f.mode # "Append"
        <5>1. file'[h].mode # "Append"
          BY <2>0, <3>1, <4>2 DEF FileRecords
        <5> QED
          BY <3>1, <4>2, <5>1 DEF Session
      <4> QED
        BY <4>1, <4>2
    <3>4. Session(h) = Sessions[h]
      BY DEF Sessions
    <3>5. Table!Put(h, [Sessions[h] EXCEPT !.view = s, !.pos = n + 1, !.dirty = TRUE])
      BY <3>1, <3>3, <3>4 DEF Table!Put, Sessions
    <3>6. n = IF Table!AtEnd(Sessions[h].mode) THEN Len(Sessions[h].view) ELSE Sessions[h].pos
      BY <2>1, <2>2
    <3>7. s = Table!Overlay(Sessions[h].view, n, d)
      BY <2>2, <2>3
    <3>8. Table!Writes(Sessions[h].mode)
      BY <2>2
    <3>9. Table!TableWrite(h, d)
      BY <1>0, <2>2, <2>5, <3>2, <3>5, <3>6, <3>7, <3>8 DEF Table!TableWrite, Sessions, Spoiled
    <3> QED
      BY <3>9
  <2>6. CASE file' = [file EXCEPT ![h] = lost] /\ full' = TRUE
    <3>1. Sessions' = [Sessions EXCEPT ![h] = Session(h)'] /\ file'[h] = lost
      BY <1>0, <2>6, OneSession
    <3>2. Spoiled' = Spoiled
      <4>1. lost.valid = Valid(h)
        BY <2>0 DEF FileRecords, Valid
      <4> QED
        BY <1>0, <2>6, <4>1, SameSpoiled
    <3>3. Session(h)' = [Session(h) EXCEPT !.dirty = FALSE]
      <4>1. CASE f.mode = "Append"
        <5>1. Session(h) = [f EXCEPT !.pos = Len(f.view)]
          BY <4>1 DEF Session
        <5>2. file'[h].mode = "Append" /\ file'[h].view = f.view
          BY <2>0, <3>1, <4>1 DEF FileRecords
        <5>3. Session(h)' = [lost EXCEPT !.pos = Len(f.view)]
          BY <3>1, <5>2 DEF Session
        <5> QED
          BY <2>0, <5>1, <5>3 DEF FileRecords
      <4>2. CASE f.mode # "Append"
        <5>1. file'[h].mode # "Append"
          BY <2>0, <3>1, <4>2 DEF FileRecords
        <5>2. n = f.pos
          BY <2>0, <2>1, <4>2, ModesOfTable
        <5> QED
          BY <2>0, <3>1, <4>2, <5>1, <5>2 DEF Session, FileRecords
      <4> QED
        BY <4>1, <4>2
    <3>4. Session(h) = Sessions[h] /\ Table!Writes(Sessions[h].mode)
      BY <2>2 DEF Sessions
    <3>5. Table!Put(h, [Sessions[h] EXCEPT !.dirty = FALSE])
      BY <3>1, <3>3, <3>4 DEF Table!Put, Sessions
    <3>6. Table!TableLose(h)
      BY <1>0, <2>2, <2>6, <3>2, <3>4, <3>5 DEF Table!TableLose, Sessions, Spoiled
    <3> QED
      BY <3>6
  <2> QED
    BY <1>2, <2>5, <2>6 DEF WriteFile, n, s
<1> QED
  BY <1>1, <1>2

(* Seeking: from the beginning, which is all the table can tell.           *)
LEMMA SeekIsTableSeek ==
  ASSUME FilesInv, KeepsModes, NEW h \in Handles, NEW n \in Offsets, NEW whence \in Whences,
         SeekFile(h, n, whence)
  PROVE  Table!TableSeek(h, n, "Set") \/ Table!TableRefuse(h)
<1> DEFINE f == file[h]
           sought == [f EXCEPT !.pos = n]
<1>0. FilesTypeOK /\ Valid(h) /\ UNCHANGED <<tree, mlist>> /\ full' = FALSE
  BY DEF SeekFile, FilesInv
<1>1. CASE f.mode = "Append"
  <2>1. Refuse(h)
    BY <1>1 DEF SeekFile
  <2>2. ~Table!Seeks(f.mode)
    BY <1>0, <1>1, ModeOfFile, ModesOfTable
  <2> QED
    BY <1>0, <2>1, <2>2, RefuseIsTableRefuse
<1>2. CASE f.mode # "Append"
  <2>1. file' = [file EXCEPT ![h] = sought]
    BY <1>2 DEF SeekFile
  <2>2. Sessions' = [Sessions EXCEPT ![h] = Session(h)'] /\ file'[h] = sought
    BY <1>0, <2>1, OneSession
  <2>3. Session(h) = f /\ Session(h)' = sought
    <3>1. sought.mode = f.mode
      BY <1>0, ViewLength DEF FileRecords
    <3> QED
      BY <1>2, <2>2, <3>1 DEF Session
  <2>4. Spoiled' = Spoiled
    <3>1. sought.valid = Valid(h)
      BY <1>0, ViewLength DEF FileRecords, Valid
    <3> QED
      BY <1>0, <2>1, <3>1, SameSpoiled
  <2>5. Table!IsOpen(h) /\ Table!Seeks(f.mode) /\ Sessions[h] = f
    BY <1>0, <1>2, <2>3, ModeOfFile, ModesOfTable DEF Table!IsOpen, Sessions
  <2>6. n + 0 = n
    BY FilesAssumption
  <2>7. Table!Put(h, [Sessions[h] EXCEPT !.pos = n])
    BY <2>2, <2>3, <2>5 DEF Table!Put, Sessions
  <2> QED
    BY <1>0, <2>4, <2>5, <2>6, <2>7 DEF Table!TableSeek, Sessions, Spoiled
<1> QED
  BY <1>1, <1>2

(* Closing.                                                                *)
LEMMA CloseIsTableClose ==
  ASSUME FilesInv, KeepsModes, NEW h \in Handles, CloseFile(h)
  PROVE  Table!TableClose(h)
<1>0. /\ FilesTypeOK /\ Valid(h) /\ mlist' = mlist \ {h}
      /\ file' = [file EXCEPT ![h] = Invalid]
  BY DEF CloseFile, FilesInv
<1>1. Sessions' = [Sessions EXCEPT ![h] = Session(h)'] /\ file'[h] = Invalid
  BY <1>0, OneSession
<1>2. Session(h)' = Table!Ended
  BY <1>1 DEF Session, Invalid, Table!Ended
<1>3. Spoiled' = Spoiled
  <2>1. \A g \in Handles : g # h => Valid(g)' = Valid(g)
    BY <1>0 DEF FilesTypeOK, Valid
  <2> QED
    BY <1>0, <2>1 DEF Spoiled, FilesTypeOK
<1>4. /\ Table!IsOpen(h) /\ Sessions[h].dirty = file[h].dirty
      /\ Sessions[h].path = file[h].path /\ Sessions[h].view = file[h].view
  BY <1>0, ModeOfFile, SessionFields DEF Table!IsOpen, Sessions
<1>5. Table!Put(h, Table!Ended)
  BY <1>1, <1>2 DEF Table!Put, Sessions
<1>6. \/ /\ tree' = IF Sessions[h].dirty /\ Sessions[h].path # <<>>
                   THEN [tree EXCEPT ![Sessions[h].path] = Table!Holding(Sessions[h].view)]
                   ELSE tree
         /\ full' = FALSE
      \/ UNCHANGED tree /\ full' = TRUE
  BY <1>4 DEF CloseFile, Publishes, Holding, Table!Holding
<1> QED
  BY <1>3, <1>4, <1>5, <1>6 DEF Table!TableClose, Sessions, Spoiled

(* Removing.                                                               *)
LEMMA RemoveIsTableRemove ==
  ASSUME FilesInv, NEW p \in Paths, Remove(p)
  PROVE  Table!TableRemove(p)
<1>0. FilesTypeOK
  BY DEF FilesInv
<1>1. \A h \in Handles : file'[h] = IF file[h].path = p THEN [file[h] EXCEPT !.path = <<>>]
                                                      ELSE file[h]
  BY <1>0 DEF Remove, FilesTypeOK
<1>2. ASSUME NEW h \in Handles
      PROVE  /\ Valid(h)' = Valid(h)
             /\ Session(h)' = IF Session(h).path = p THEN [Session(h) EXCEPT !.path = <<>>]
                                                     ELSE Session(h)
  <2>1. file[h] \in FileRecords /\ Session(h).path = file[h].path
    BY <1>0, ViewLength, SessionFields
  <2>2. CASE file[h].path # p
    BY <1>1, <2>1, <2>2 DEF Session, Valid
  <2>3. CASE file[h].path = p
    <3>1. file'[h] = [file[h] EXCEPT !.path = <<>>]
      BY <1>1, <2>3
    <3>2. /\ file'[h].valid = file[h].valid /\ file'[h].mode = file[h].mode
          /\ file'[h].view = file[h].view
      BY <2>1, <3>1 DEF FileRecords
    <3>3. CASE file[h].mode = "Append"
      <4>1. Session(h)' = [file'[h] EXCEPT !.pos = Len(file[h].view)]
        BY <3>2, <3>3 DEF Session
      <4>2. Session(h) = [file[h] EXCEPT !.pos = Len(file[h].view)]
        BY <3>3 DEF Session
      <4> QED
        BY <2>1, <2>3, <3>1, <3>2, <4>1, <4>2 DEF FileRecords, Valid
    <3>4. CASE file[h].mode # "Append"
      BY <2>1, <2>3, <3>1, <3>2, <3>4 DEF Session, Valid
    <3> QED
      BY <3>3, <3>4
  <2> QED
    BY <2>2, <2>3
<1>3. Sessions' = [h \in Handles |-> IF Sessions[h].path = p
                                     THEN [Sessions[h] EXCEPT !.path = <<>>] ELSE Sessions[h]]
  BY <1>2 DEF Sessions
<1>4. Spoiled' = Spoiled
  BY <1>0, <1>2 DEF Spoiled, Remove, FilesTypeOK
<1> QED
  BY <1>3, <1>4 DEF Remove, Table!TableRemove, Sessions, Spoiled, Nothing, Table!Nothing

(* A name that is not that of an entry that is a file is not open.         *)
LEMMA NoFileNotOpen ==
  ASSUME FilesInv, NEW q \in Paths, tree[q].kind # "file"
  PROVE  \A h \in Handles : Sessions[h].path # q
<1> SUFFICES ASSUME NEW h \in Handles
             PROVE  Sessions[h].path # q
  OBVIOUS
<1>1. Sessions[h].path = file[h].path
  BY SessionFields DEF Sessions
<1>2. CASE Valid(h)
  BY <1>1, <1>2, FilesAssumption DEF FilesInv, OpenFilesHaveEntries
<1>3. CASE ~Valid(h)
  BY <1>1, <1>3, FilesAssumption DEF FilesInv, FilesAreSound, Sound, Invalid
<1> QED
  BY <1>2, <1>3

(* Making directories.                                                     *)
LEMMA MakeIsTableRearrange ==
  ASSUME FilesInv, NEW p \in Paths, MakeDirectory(p)
  PROVE  Table!TableRearrange
<1>1. Sessions' = Sessions /\ Spoiled' = Spoiled
  BY DEF MakeDirectory, Sessions, Spoiled, Session, Valid
<1>2. full' \in BOOLEAN
  BY DEF MakeDirectory
<1>3. PICK reached : tree' = Made(reached)
  BY DEF MakeDirectory
<1>4. \A q \in Paths : tree'[q] # tree[q] => tree[q] = Nothing /\ tree'[q] = Folder
  BY <1>3 DEF Made
<1>5. \A q \in Paths : tree'[q] # tree[q] =>
        /\ \A h \in Handles : Sessions[h].path # q
        /\ tree'[q].kind # "file" /\ tree[q].kind # "file"
  BY <1>4, NoFileNotOpen DEF Nothing, Folder
<1> QED
  BY <1>1, <1>2, <1>5 DEF Table!TableRearrange, Table!Unopened, Sessions, Spoiled

(* Renaming.                                                               *)
LEMMA RenameIsTableRearrange ==
  ASSUME FilesInv, NEW p \in Paths, NEW r \in Paths, Rename(p, r)
  PROVE  Table!TableRearrange
<1>0. FilesTypeOK
  BY DEF FilesInv
<1>1. Sessions' = Sessions /\ Spoiled' = Spoiled /\ full' = FALSE
  BY DEF Rename, Sessions, Spoiled, Session, Valid
<1>2. /\ \A q \in Paths : q = p \/ q \in Below(p) => tree'[q] = Nothing
      /\ \A q \in Paths :
            ~(q = p \/ q \in Below(p)) => tree'[q] =
               IF (q = r \/ q \in Below(r)) /\ Moved(q, r, p) \in Paths
               THEN tree[Moved(q, r, p)] ELSE tree[q]
  BY DEF Rename
<1>3. ASSUME NEW q \in Paths, tree'[q] # tree[q]
      PROVE  \A h \in Handles : Sessions[h].path # q
  <2>1. CASE tree[q].kind # "file"
    BY <2>1, NoFileNotOpen
  <2>2. CASE tree[q].kind = "file"
    <3>1. q \notin Below(r)
      BY <2>2 DEF Rename, Nothing
    <3>2. q \in {p, r} \cup Below(p)
      BY <1>2, <1>3, <3>1
    <3> SUFFICES ASSUME NEW h \in Handles
                 PROVE  Sessions[h].path # q
      OBVIOUS
    <3>3. Sessions[h].path = file[h].path
      BY SessionFields DEF Sessions
    <3>4. CASE Valid(h)
      BY <3>2, <3>3, <3>4 DEF Rename, FilesInv, OpenFilesHaveEntries
    <3>5. CASE ~Valid(h)
      BY <3>3, <3>5, FilesAssumption DEF FilesInv, FilesAreSound, Sound, Invalid
    <3> QED
      BY <3>4, <3>5
  <2> QED
    BY <2>1, <2>2
<1>4. ASSUME NEW q \in Paths, tree'[q] # tree[q], tree'[q].kind = "file"
      PROVE  \E o \in Paths : tree[o] = tree'[q] /\ tree'[o] # tree[o]
  <2> DEFINE o == Moved(q, r, p)
  <2>1. ~(q = p \/ q \in Below(p))
    BY <1>2, <1>4 DEF Nothing
  <2>2. (q = r \/ q \in Below(r)) /\ o \in Paths /\ tree'[q] = tree[o]
    BY <1>2, <1>4, <2>1
  <2>3. o = p \/ o \in Below(p)
    BY <2>2, MovedIsBelow
  <2> HIDE DEF o
  <2>4. tree'[o] = Nothing /\ tree[o].kind = "file"
    BY <1>2, <1>4, <2>2, <2>3
  <2>5. tree'[o] # tree[o]
    BY <2>4 DEF Nothing
  <2> QED
    BY <2>2, <2>5
<1>5. ASSUME NEW q \in Paths, tree'[q] # tree[q], tree[q].kind = "file"
      PROVE  tree'[q] # Table!Folder
  <2>1. CASE q = p \/ q \in Below(p)
    BY <1>2, <2>1 DEF Nothing, Table!Folder
  <2>2. CASE ~(q = p \/ q \in Below(p))
    <3>1. q = r /\ tree'[q] = tree[Moved(r, r, p)]
      BY <1>2, <1>5, <2>2 DEF Rename, Nothing
    <3>2. Moved(r, r, p) = p
      <4>1. p \in Seq(Names) /\ r \in Seq(Names)
        BY FilesAssumption
      <4> QED
        BY <4>1 DEF Moved
    <3>3. tree[p].kind = tree[r].kind
      BY <1>5, <3>1 DEF Rename, Nothing
    <3> QED
      BY <1>5, <3>1, <3>2, <3>3 DEF Table!Folder
  <2> QED
    BY <2>1, <2>2
<1> QED
  BY <1>1, <1>3, <1>4, <1>5 DEF Table!TableRearrange, Table!Unopened, Sessions, Spoiled

(* Mounting, formatting and starting again.                                *)
LEMMA ResetIsTableReset ==
  ASSUME FilesInv, Mount \/ Format \/ Restart
  PROVE  Table!TableReset
<1>0. FilesTypeOK /\ mlist' = {} /\ full' = FALSE
  BY DEF Mount, Format, Restart, FilesInv
<1>1. \A h \in Handles : file'[h] = Table!Ended
  <2>1. CASE Restart
    BY <2>1 DEF Restart, Invalid, Table!Ended
  <2>2. CASE Mount \/ Format
    BY <2>2 DEF Mount, Format, FilesInv, FilesAreSound, Sound, Invalid, Table!Ended
  <2> QED
    BY <2>1, <2>2
<1>2. \A h \in Handles : Session(h)' = Table!Ended
  BY <1>1 DEF Session, Table!Ended
<1>3. Sessions' = [h \in Handles |-> Table!Ended] /\ Spoiled' = {}
  BY <1>0, <1>2 DEF Sessions, Spoiled
<1>4. CASE Mount \/ Restart
  BY <1>0, <1>3, <1>4 DEF Table!TableReset, Mount, Restart, Sessions, Spoiled
<1>5. CASE Format
  <2>1. \A h \in Handles : ~Table!IsOpen(h)
    BY <1>5, SessionFields DEF Format, Valid, Table!IsOpen
  <2>2. tree' = [p \in Paths |-> Table!Nothing]
    BY <1>5 DEF Format, Nothing, Table!Nothing
  <2> QED
    BY <1>0, <1>3, <2>1, <2>2 DEF Table!TableReset, Sessions, Spoiled
<1> QED
  BY <1>4, <1>5

(* As long as nothing opens a file for WriteUpdate or AppendUpdate, every  *)
(* call of the file system is one that the table of MFS.h allows.          *)
LEMMA StepIsTableStep ==
  FilesInv /\ KeepsModes /\ [FilesNext]_fileVars => [Table!TableNext]_(Table!tableVars)
<1> SUFFICES ASSUME FilesInv, KeepsModes, [FilesNext]_fileVars
             PROVE  [Table!TableNext]_(Table!tableVars)
  OBVIOUS
<1>1. ASSUME NEW h \in Handles, NEW p \in Paths, NEW m \in AllModes, OpenFile(h, p, m)
      PROVE  [Table!TableNext]_(Table!tableVars)
  BY <1>1, OpenIsTableOpen
<1>2. ASSUME NEW h \in Handles, ReadFile(h)
      PROVE  Table!TableNext
  BY <1>2, ReadIsTableRead DEF Table!TableNext
<1>3. ASSUME NEW h \in Handles, NEW d \in Data, WriteFile(h, d)
      PROVE  Table!TableNext
  BY <1>3, WriteIsTableWrite DEF Table!TableNext
<1>4. ASSUME NEW h \in Handles, NEW n \in Offsets, NEW whence \in Whences, SeekFile(h, n, whence)
      PROVE  Table!TableNext
  BY <1>4, SeekIsTableSeek DEF Table!TableNext
<1>5. ASSUME NEW h \in Handles, CloseFile(h)
      PROVE  Table!TableNext
  BY <1>5, CloseIsTableClose DEF Table!TableNext
<1>6. ASSUME NEW p \in Paths, MakeDirectory(p)
      PROVE  Table!TableNext
  BY <1>6, MakeIsTableRearrange DEF Table!TableNext
<1>7. ASSUME NEW p \in Paths, Remove(p)
      PROVE  Table!TableNext
  BY <1>7, RemoveIsTableRemove DEF Table!TableNext
<1>8. ASSUME NEW p \in Paths, NEW r \in Paths, Rename(p, r)
      PROVE  Table!TableNext
  BY <1>8, RenameIsTableRearrange DEF Table!TableNext
<1>9. CASE Mount \/ Format \/ Restart
  BY <1>9, ResetIsTableReset DEF Table!TableNext
<1>10. CASE UNCHANGED fileVars
  <2>1. Sessions' = Sessions /\ Spoiled' = Spoiled
    BY <1>10 DEF fileVars, Sessions, Spoiled, Session, Valid
  <2> QED
    BY <1>10, <2>1 DEF fileVars, Table!tableVars, Sessions, Spoiled
<1> QED
  BY <1>1, <1>2, <1>3, <1>4, <1>5, <1>6, <1>7, <1>8, <1>9, <1>10 DEF FilesNext, UseFiles

(* LittleFS keeps the table of open modes, with any number of files, names *)
(* and bytes, for programs that leave two modes alone: what a file had is  *)
(* replaced as a whole, by a close, by what was written to it.             *)
THEOREM FilesKeepTable ==
  ASSUME KeepsModes
  PROVE  FilesSpec => KeepsTable
<1>1. FilesInit => FilesInv
  BY FilesTypeInit DEF FilesInit, FilesInv, OpenFilesHaveEntries, FilesAreSound, Sound, Valid, Invalid
<1>2. FilesInv /\ [FilesNext]_fileVars => FilesInv'
  BY FilesTypeStep, EntriesStep, SoundStep DEF FilesInv
<1>3. FilesInit => Table!TableInit
  <2> SUFFICES ASSUME FilesInit
               PROVE  Table!TableInit
    OBVIOUS
  <2>1. \A h \in Handles : Session(h) = Table!Ended
    BY DEF FilesInit, Session, Invalid, Table!Ended
  <2> QED
    BY <2>1 DEF FilesInit, Table!TableInit, Nothing, Table!Nothing
<1>4. FilesInv /\ [FilesNext]_fileVars => [Table!TableNext]_(Table!tableVars)
  BY StepIsTableStep
<1> QED
  BY <1>1, <1>2, <1>3, <1>4, PTL DEF FilesSpec, KeepsTable, Table!TableSpec
=============================================================================
