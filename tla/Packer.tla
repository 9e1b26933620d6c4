------------------------------- MODULE Packer -------------------------------
(***************************************************************************)
(* plugin::pack_files and packer::pack_files: threads of the host that     *)
(* pack a list of files into an archive of one name, and the process that  *)
(* may be killed meanwhile.                                                *)
(*                                                                         *)
(* What is written is a sequence of units, one for each WriteFile: a frame *)
(* is its beginning, its data and its end.  An archive without compression *)
(* has the data only.                                                      *)
(***************************************************************************)
EXTENDS Integers, Sequences, FiniteSets

CONSTANTS
  Packers,  \* threads that pack
  AddList,  \* the files to pack, in order: [dir, size], a size in chunks
  None      \* no packer

ASSUME PackAssumption ==
  /\ AddList \in Seq([dir : BOOLEAN, size : Nat])
  /\ IsFiniteSet(Packers) /\ None \notin Packers

VARIABLES
  kind,     \* what the extension and the compression level make of the archive
  disk,     \* the name of the archive: "absent", "present"; "pending" if it is
            \* deleted but somebody has the file open
  data,     \* the file, while it is there or open
  made,     \* how often it was created
  reading,  \* a scan has it open
  owner,    \* the packer that has it open
  pc,       \* where in pack_files
  next,     \* AddList position of the next file
  todo,     \* what the packer is about to write
  taken,    \* the files it has packed
  mine,     \* which creation was its own; 0 before
  delete,   \* m_delete_out_file
  result    \* what it returns: "none" while it runs

fileVars == <<disk, data, made, owner>>
packVars == <<pc, next, todo, taken, mine, delete, result>>

Kinds == {"Pax", "PaxLz4", "PaxZstd"}
Framed == kind # "Pax"

(* Units: of the zero frame, the header and the footer of the archive, and *)
(* of the header frame and the content frame of file i.                    *)
Unit(what, i) == [what |-> what, file |-> i]
ZeroFrame == <<Unit("ZeroBegin", 0), Unit("ZeroEnd", 0)>>
Prologue == ZeroFrame \o <<Unit("Pax", 0)>>
Header(i) == <<Unit("HeadBegin", i), Unit("HeadData", i), Unit("HeadEnd", i)>>

(* A directory, and a file of no size, have no content frame.              *)
HasContent(i) == ~AddList[i].dir /\ AddList[i].size # 0
Content(i) ==
  IF HasContent(i)
  THEN <<Unit("Begin", i)>> \o [c \in 1 .. AddList[i].size |-> Unit("Data", i)]
         \o <<Unit("End", i)>>
  ELSE <<>>
Footer == <<Unit("Footer", 0)>>

(* Without compression, beginnings and ends are written as nothing.        *)
Write(u) ==
  data' = IF Framed \/ u.what \in {"HeadData", "Data"} THEN Append(data, u) ELSE data

Init ==
  /\ kind \in Kinds
  /\ disk = "absent" /\ data = <<>> /\ made = 0 /\ reading = FALSE /\ owner = None
  /\ pc = [p \in Packers |-> "idle"] /\ next = [p \in Packers |-> 1]
  /\ todo = [p \in Packers |-> <<>>] /\ taken = [p \in Packers |-> <<>>]
  /\ mine = [p \in Packers |-> 0] /\ delete = [p \in Packers |-> FALSE]
  /\ result = [p \in Packers |-> "none"]

-----------------------------------------------------------------------------
(* pack_files ends; the packer object is still there.  A cancel is not an  *)
(* error to the host: it gets the same zero as for a success.              *)
Leave(p, r) == pc' = [pc EXCEPT ![p] = "leave"] /\ result' = [result EXCEPT ![p] = r]

(* plugin::pack_files: an archive that exists is not touched.              *)
Check(p) ==
  /\ pc[p] = "idle"
  /\ \/ Leave(p, "error")
     \/ disk # "present" /\ pc' = [pc EXCEPT ![p] = "create"] /\ UNCHANGED result
  /\ UNCHANGED <<kind, fileVars, reading, next, todo, taken, mine, delete>>

(* Mutant: the flag is left to the end of pack_files.                      *)
CreateArchiveKept(p) ==
  /\ pc[p] = "create"
  /\ \/ /\ Leave(p, "error")
        /\ UNCHANGED <<fileVars, todo, mine, delete>>
     \/ /\ owner = None /\ disk # "pending"
        /\ disk' = "present" /\ data' = <<>> /\ made' = made + 1 /\ owner' = p
        /\ mine' = [mine EXCEPT ![p] = made + 1]
        /\ todo' = [todo EXCEPT ![p] = IF Framed THEN Prologue ELSE <<>>]
        /\ pc' = [pc EXCEPT ![p] = "pack"]
        /\ UNCHANGED <<result, delete>>
  /\ UNCHANGED <<kind, reading, next, taken>>

(* CREATE_ALWAYS, and nobody else may write.                               *)
CreateArchive(p) ==
  /\ pc[p] = "create"
  /\ \/ /\ Leave(p, "error")
        /\ UNCHANGED <<fileVars, todo, mine, delete>>
     \/ /\ owner = None /\ disk # "pending"
        /\ disk' = "present" /\ data' = <<>> /\ made' = made + 1 /\ owner' = p
        /\ mine' = [mine EXCEPT ![p] = made + 1]
        /\ delete' = [delete EXCEPT ![p] = TRUE]
        /\ todo' = [todo EXCEPT ![p] = IF Framed THEN Prologue ELSE <<>>]
        /\ pc' = [pc EXCEPT ![p] = "pack"]
        /\ UNCHANGED result
  /\ UNCHANGED <<kind, reading, next, taken>>

(* Mutant: the name that ends the list is taken for one more file.         *)
SkipFileAfter(p) ==
  /\ pc[p] = "pack" /\ todo[p] = <<>>
  /\ next' = [next EXCEPT ![p] = @ + 1]
  /\ UNCHANGED <<pc, result>> \/ Leave(p, "cancel")
  /\ UNCHANGED <<kind, fileVars, reading, todo, taken, mine, delete>>

(* The next file of the list.  One that cannot be found is left out, one   *)
(* that cannot be read is too, and the host, told of it, may cancel.       *)
SkipFile(p) ==
  /\ pc[p] = "pack" /\ todo[p] = <<>> /\ next[p] <= Len(AddList)
  /\ next' = [next EXCEPT ![p] = @ + 1]
  /\ UNCHANGED <<pc, result>> \/ Leave(p, "cancel")
  /\ UNCHANGED <<kind, fileVars, reading, todo, taken, mine, delete>>

TakeFile(p) ==
  /\ pc[p] = "pack" /\ todo[p] = <<>> /\ next[p] <= Len(AddList)
  /\ next' = [next EXCEPT ![p] = @ + 1]
  /\ todo' = [todo EXCEPT ![p] = Header(next[p]) \o Content(next[p])]
  /\ taken' = [taken EXCEPT ![p] = Append(@, next[p])]
  /\ UNCHANGED <<kind, fileVars, reading, pc, mine, delete, result>>

(* The host is told of every unit of a content frame.                      *)
Told(u) == u.what \in {"Begin", "Data", "End"}

WriteUnit(p) ==
  /\ pc[p] = "pack" /\ todo[p] # <<>>
  /\ Write(Head(todo[p]))
  /\ todo' = [todo EXCEPT ![p] = Tail(@)]
  /\ UNCHANGED <<pc, result>> \/ (Told(Head(todo[p])) /\ Leave(p, "cancel"))
  /\ UNCHANGED <<kind, disk, made, owner, reading, next, taken, mine, delete>>

(* A file that cannot be read or written, or memory that is not there.     *)
Fail(p) ==
  /\ pc[p] = "pack"
  /\ delete' = [delete EXCEPT ![p] = TRUE]
  /\ Leave(p, "error")
  /\ UNCHANGED <<kind, fileVars, reading, next, todo, taken, mine>>

(* Mutant: the archive ends after the last file.                           *)
FinishBare(p) ==
  /\ pc[p] = "pack" /\ todo[p] = <<>> /\ next[p] > Len(AddList)
  /\ delete' = [delete EXCEPT ![p] = FALSE]
  /\ Leave(p, "ok")
  /\ UNCHANGED <<kind, fileVars, reading, next, todo, taken, mine>>

(* All is packed.                                                          *)
Finish(p) ==
  /\ pc[p] = "pack" /\ todo[p] = <<>> /\ next[p] > Len(AddList)
  /\ Write(Head(Footer))
  /\ delete' = [delete EXCEPT ![p] = FALSE]
  /\ Leave(p, "ok")
  /\ UNCHANGED <<kind, disk, made, owner, reading, next, todo, taken, mine>>

(* The packer object is deleted, and the host gets the result.             *)
Close(p) ==
  /\ pc[p] = "leave" /\ pc' = [pc EXCEPT ![p] = "done"]
  /\ IF owner = p
     THEN /\ owner' = None
          /\ disk' = IF ~delete[p] THEN disk ELSE IF reading THEN "pending" ELSE "absent"
          /\ delete' = [delete EXCEPT ![p] = FALSE]
     ELSE UNCHANGED <<owner, disk, delete>>
  /\ UNCHANGED <<kind, data, made, reading, next, todo, taken, mine, result>>

(* The process is killed.  The system closes what it had open.             *)
Kill ==
  /\ pc' = [p \in Packers |-> IF pc[p] \in {"idle", "done"} THEN pc[p] ELSE "killed"]
  /\ pc' # pc
  /\ owner' = None /\ reading' = FALSE
  /\ disk' = IF disk = "pending" THEN "absent" ELSE disk
  /\ UNCHANGED <<kind, data, made, next, todo, taken, mine, delete, result>>

Pack(p) ==
  \/ Check(p) \/ CreateArchive(p) \/ SkipFile(p) \/ TakeFile(p)
  \/ WriteUnit(p) \/ Fail(p) \/ Finish(p) \/ Close(p)

=============================================================================
