------------------------------ MODULE Extract -------------------------------
(***************************************************************************)
(* What the host does with an open archive: it lists the items and         *)
(* extracts some of them (archive::list and archive::extract, with one     *)
(* extractor for each kind of archive), while another thread may find that *)
(* the archive has changed and make its cache a zombie.                    *)
(*                                                                         *)
(* Data is counted in chunks, of one buffer each.  An item says how much   *)
(* data it should have, whether it is packed with anything behind its      *)
(* header, and how much of its data the archive really has.                *)
(***************************************************************************)
EXTENDS Integers, Sequences

CONSTANTS
  Items,  \* the items of the cache, in order: [dir, hidden, size, packed, room]
  Length  \* length of the archive, as an LZ4 or Zstandard stream

ASSUME ItemsAssumption ==
  /\ Items \in Seq([dir : BOOLEAN, hidden : BOOLEAN, size : Nat, packed : BOOLEAN, room : Nat])
  /\ \A i \in 1 .. Len(Items) : Items[i].packed \/ Items[i].room = 0
  /\ Length \in Nat

VARIABLES
  kind,       \* type of the archive
  openMode,   \* m_open_mode
  status,     \* m_cache->get_status()
  cursor,     \* m_cenum; 0 before the first item
  curDir,     \* m_cur_dir, 0 for NULL
  curFile,    \* m_cur_file, 0 for NULL
  dstDir,     \* m_dst_dir is known
  deleteOut,  \* m_delete_out_file
  pc,         \* where in extract
  out,        \* the output file of the last call
  item,       \* the item that is written to it
  written,    \* chunks written to it; not counted for a native stream
  pos,        \* chunks read of a native stream
  result,     \* what the last call returned
  listed      \* the item the last call of list showed, 0 for none

archive == <<kind, openMode>>
cursors == <<cursor, curDir, dstDir, listed>>
output == <<deleteOut, out, item, written, pos>>
vars == <<archive, status, cursors, curFile, output, pc, result>>

Kinds == {"Pax", "PaxLz4", "PaxZstd", "Lz4", "Zstd"}
Native == kind \in {"Lz4", "Zstd"}

E_END_ARCHIVE == 10
E_NO_MEMORY == 11
E_EOPEN == 15
E_ECREATE == 16
E_EREAD == 18
E_EWRITE == 19
E_NO_FILES == 22
E_NOT_SUPPORTED == 24

(* hr | E_EREAD; E_EREAD is 16 + 2.                                        *)
OrRead(hr) ==
  hr + (IF (hr \div 16) % 2 = 0 THEN 16 ELSE 0) + (IF (hr \div 2) % 2 = 0 THEN 2 ELSE 0)

Smaller(a, b) == IF a < b THEN a ELSE b

(* What there is to write for an item, in an archive of items.             *)
Whole(i) == Smaller(Items[i].size, Items[i].room)

Init ==
  /\ kind \in Kinds /\ openMode \in {"list", "extract"}
  /\ status = "ready"
  /\ cursor = 0 /\ curDir = 0 /\ curFile = 0 /\ dstDir = FALSE /\ listed = 0
  /\ deleteOut = FALSE /\ out = "none" /\ item = 0 /\ written = 0 /\ pos = 0
  /\ pc = "idle" /\ result = 0

(* Another thread opens the archive, which has changed on the disk.        *)
MarkStale ==
  /\ status = "ready" /\ status' = "zombie"
  /\ UNCHANGED <<archive, cursors, curFile, output, pc, result>>

-----------------------------------------------------------------------------
(* archive::list.  Hidden items are deleted ones, and those whose name is  *)
(* too long for the host.                                                  *)
Following == {i \in cursor + 1 .. Len(Items) : ~Items[i].hidden}
IsNext(i) == \A j \in Following : i <= j

ShowItem(i) ==
  /\ cursor' = i /\ listed' = i /\ result' = 0
  /\ curDir' = IF openMode = "extract" /\ Items[i].dir THEN i ELSE curDir
  /\ curFile' = IF openMode = "extract" /\ ~Items[i].dir THEN i ELSE 0
  /\ UNCHANGED dstDir

(* Mutant: the end of the list leaves the last file current.               *)
EndListKeepsFile ==
  /\ cursor' = 0 /\ dstDir' = FALSE /\ listed' = 0 /\ result' = E_END_ARCHIVE
  /\ UNCHANGED <<curDir, curFile>>

EndList ==
  /\ cursor' = 0 /\ dstDir' = FALSE /\ listed' = 0 /\ result' = E_END_ARCHIVE
  /\ curFile' = 0
  /\ UNCHANGED curDir

List ==
  /\ pc = "idle"
  /\ \/ status = "ready" /\ \E i \in Following : IsNext(i) /\ ShowItem(i)
     \/ status = "ready" /\ Following = {} /\ EndList
     \/ /\ status # "ready"
        /\ listed' = 0 /\ result' = E_END_ARCHIVE /\ curFile' = 0
        /\ UNCHANGED <<cursor, curDir, dstDir>>
  /\ out' = "none"
  /\ UNCHANGED <<archive, status, deleteOut, item, written, pos, pc>>

-----------------------------------------------------------------------------
(* archive::extract.                                                       *)

(* Mutant: the flag alone decides.                                         *)
LeaveByFlag(hr, file, del) ==
  /\ out' = IF file # "open" THEN "none" ELSE IF del THEN "deleted" ELSE "kept"
  /\ deleteOut' = del
  /\ curFile' = 0 /\ result' = hr /\ pc' = "idle"

(* The end of extract: an error deletes the output file, whatever the flag *)
(* says.                                                                   *)
Leave(hr, file, del) ==
  /\ out' = IF file # "open" THEN "none" ELSE IF hr # 0 \/ del THEN "deleted" ELSE "kept"
  /\ deleteOut' = (hr # 0 \/ del)
  /\ curFile' = 0 /\ result' = hr /\ pc' = "idle"

(* PK_SKIP.  A directory the host has made gets its time and attributes.   *)
Skip ==
  /\ pc = "idle"
  /\ curDir' = IF dstDir THEN 0 ELSE curDir
  /\ Leave(0, "none", FALSE)
  /\ UNCHANGED <<archive, status, cursor, dstDir, listed, item, written, pos>>

(* PK_EXTRACT and PK_TEST, up to the choice of the extractor.              *)
ExtractBegin ==
  /\ pc = "idle"
  /\ dstDir' \in (IF curFile # 0 THEN {dstDir, TRUE} ELSE {dstDir})
  /\ \/ \E hr \in {E_NOT_SUPPORTED, E_EOPEN} : Leave(hr, "none", FALSE)
     \/ curFile = 0 /\ Leave(E_NO_FILES, "none", FALSE)
     \/ curFile # 0 /\ \E hr \in {E_ECREATE, E_NO_MEMORY} : Leave(hr, "none", FALSE)
     \/ curFile # 0 /\ status # "ready" /\ Leave(E_EOPEN, "none", FALSE)
     \/ /\ curFile # 0 /\ status = "ready"
        /\ pc' = "seek" /\ deleteOut' = FALSE /\ out' = "none"
        /\ UNCHANGED <<curFile, result>>
  /\ UNCHANGED <<archive, status, cursor, curDir, listed, item, written, pos>>

(* The extractors.  First the position in the archive ...                  *)
Seek ==
  /\ pc = "seek"
  /\ \/ Leave(OrRead(E_EOPEN), "none", deleteOut)
     \/ /\ kind = "Pax" => Items[curFile].room > 0
        /\ pc' = "create"
        /\ UNCHANGED <<curFile, deleteOut, out, result>>
  /\ UNCHANGED <<archive, status, cursors, item, written, pos>>

(* Mutant: an output file is kept unless something fails.                  *)
MayDeleteNever == FALSE

(* A native stream is kept as far as it goes.                              *)
MayDelete == ~Native

(* There is nothing to decode: the item is empty, or all that is packed of *)
(* it is its header (pack_size is hdr_p_size).                             *)
NoContent(i) == Items[i].size = 0 \/ ~Items[i].packed

(* ... then the output file.  An item without content is done at once,     *)
(* unless the archive is a plain PAX file.                                 *)
CreateOut ==
  /\ pc = "create"
  /\ \/ /\ Leave(OrRead(E_ECREATE), "none", deleteOut)
        /\ UNCHANGED <<item, written, pos>>
     \/ /\ item' = curFile /\ written' = 0 /\ pos' = 0
        /\ IF kind \in {"PaxLz4", "PaxZstd"} /\ NoContent(curFile)
           THEN Leave(0, "open", FALSE)
           ELSE /\ out' = "open" /\ deleteOut' = MayDelete /\ pc' = "tell"
                /\ UNCHANGED <<curFile, result>>
  /\ UNCHANGED <<archive, status, cursors>>

(* The host may cancel whenever it is told of the progress.                *)
TellNew ==
  /\ pc = "tell"
  /\ \/ Leave(0, "open", deleteOut)
     \/ /\ pc' = IF Native THEN "frames" ELSE "copy"
        /\ UNCHANGED <<curFile, deleteOut, out, result>>
  /\ UNCHANGED <<archive, status, cursors, item, written, pos>>

(* One chunk.  A frame can turn out bad where its data ends early, too.    *)
Copy ==
  /\ pc = "copy"
  /\ \/ /\ written < Whole(item) \/ (kind # "Pax" /\ written < Items[item].size)
        /\ Leave(OrRead(E_EREAD), "open", deleteOut)
        /\ UNCHANGED written
     \/ /\ written < Whole(item)
        /\ Leave(OrRead(E_EWRITE), "open", deleteOut)
        /\ UNCHANGED written
     \/ /\ written < Whole(item) /\ written' = written + 1
        /\ \/ UNCHANGED <<pc, curFile, deleteOut, out, result>>
           \/ Leave(0, "open", deleteOut)
  /\ UNCHANGED <<archive, status, cursors, item, pos>>

(* All is written; now even a cancel keeps the file.                       *)
Complete ==
  /\ pc = "copy" /\ written = Whole(item)
  /\ Leave(0, "open", FALSE)
  /\ UNCHANGED <<archive, status, cursors, item, written, pos>>

(* Mutant: where a stream ends, more is given back than was read ahead.    *)
FrameEndsAgain == {p \in 0 .. Length : p >= pos - 1}

(* Mutant: the same, without a look at where the archive begins.           *)
FrameEndsBefore == pos - 1 .. Length

(* Where the next frame can begin.  A skippable frame may claim to reach   *)
(* beyond the end of the archive.                                          *)
FrameEnds == IF pos < Length THEN pos + 1 .. Length + 1 ELSE {}

(* A native stream: one frame, of any format, or what follows the last.    *)
(* Only a decoder that cannot be set up is an error.  What is written is   *)
(* not counted.                                                            *)
NativeFrame ==
  /\ pc = "frames"
  /\ \/ Leave(0, "open", FALSE) /\ UNCHANGED pos
     \/ Leave(OrRead(E_EREAD), "open", deleteOut) /\ UNCHANGED pos
     \/ /\ pos' \in FrameEnds
        /\ \/ UNCHANGED <<pc, curFile, deleteOut, out, result>>
           \/ Leave(0, "open", deleteOut)
  /\ UNCHANGED <<archive, status, cursors, item, written>>

-----------------------------------------------------------------------------
InExtract == Seek \/ CreateOut \/ TellNew \/ Copy \/ Complete \/ NativeFrame
Next == MarkStale \/ List \/ Skip \/ ExtractBegin \/ InExtract

SafetySpec == Init /\ [][Next]_vars
Spec == SafetySpec /\ WF_vars(InExtract)

-----------------------------------------------------------------------------
(* The state is well formed.                                               *)
Index == 0 .. Len(Items)
TypeOK ==
  /\ kind \in Kinds /\ openMode \in {"list", "extract"}
  /\ status \in {"ready", "zombie"}
  /\ cursor \in Index /\ curDir \in Index /\ curFile \in Index
  /\ item \in Index /\ listed \in Index
  /\ dstDir \in BOOLEAN /\ deleteOut \in BOOLEAN
  /\ pc \in {"idle", "seek", "create", "tell", "copy", "frames"}
  /\ out \in {"none", "open", "kept", "deleted"}
  /\ written \in Nat /\ pos \in Nat /\ result \in Nat

(* An output file of an archive of items that is not deleted is whole:     *)
(* errors and cancels at any moment leave no truncated file.               *)
KeptIsWhole ==
  out = "kept" /\ ~Native => item # 0 /\ written = Whole(item)

(* The host is told of an error only if there is no output file, and none  *)
(* is open when extract has returned.                                      *)
ErrorLeavesNothing ==
  pc = "idle" => out # "open" /\ (result # 0 => out # "kept")

(* What is extracted is the file the host was shown last, once: not one    *)
(* listed before, nor one extracted before.                                *)
ExtractsListed ==
  pc # "idle" => curFile = listed /\ curFile # 0 /\ ~Items[curFile].dir

(* Every extract returns.                                                  *)
CallReturns == pc # "idle" ~> pc = "idle"

=============================================================================
