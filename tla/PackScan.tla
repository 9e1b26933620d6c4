------------------------------ MODULE PackScan ------------------------------
(***************************************************************************)
(* What is packed, read back: the detection of the type of an archive      *)
(* (arcfile::update_type) and the scanners of cache::init, while packers   *)
(* work on the same file.                                                  *)
(***************************************************************************)
EXTENDS Packer, SequencesExt

VARIABLES
  scan,    \* where in the scan: "idle", "type", "open", "items", "done"
  limit,   \* size of the file when the scan began
  pos,     \* how far it has read
  listed,  \* the items of the cache: [file, at], where at is the end of the header
  shown,   \* what the scan came to: "none", "items", "single", "error";
           \* while the file is to be opened, "single" for a stream of one item
  broken,  \* a read or an allocation of this scan has failed
  seen     \* which creation of the file the scan began with, and whether it
           \* was complete

scanVars == <<scan, limit, pos, listed, shown, broken, seen>>
vars == <<kind, fileVars, reading, packVars, scanVars>>

(* The packer that created the file there is.                              *)
Maker(p) == mine[p] = made

(* A packer that has finished has made the file complete.                  *)
Completed == \E p \in Packers : result[p] = "ok" /\ Maker(p)

InitScan ==
  /\ Init
  /\ scan = "idle" /\ limit = 0 /\ pos = 0 /\ listed = <<>>
  /\ shown = "none" /\ broken = FALSE /\ seen = [made |-> 0, complete |-> FALSE]

(* arcfile::init: the size comes first.                                    *)
ScanBegin ==
  /\ scan \in {"idle", "done"} /\ disk = "present"
  /\ scan' = "type" /\ reading' = TRUE
  /\ limit' = Len(data) /\ pos' = 0 /\ listed' = <<>>
  /\ shown' = "none" /\ broken' = FALSE
  /\ seen' = [made |-> made, complete |-> Completed]
  /\ UNCHANGED <<kind, fileVars, packVars>>

(* The file is closed.                                                     *)
LetGo == reading' = FALSE /\ disk' = IF disk = "pending" THEN "absent" ELSE disk

ScanEnd(what) ==
  /\ scan' = "done" /\ shown' = what /\ LetGo
  /\ listed' = IF what = "items" THEN listed ELSE <<>>

(* What was read will not do, or could not be read.                        *)
FailsIf(bad) == broken' \in IF bad THEN BOOLEAN ELSE {TRUE}

-----------------------------------------------------------------------------
Has(n, what) == n \in 1 .. Len(data) /\ data[n].what = what

(* A file found empty is measured once more.                               *)
Size == IF limit = 0 THEN Len(data) ELSE limit

(* arcfile::update_type looks at the beginning of the file, as far as its  *)
(* size goes.  One frame without data and the frame of PAXZ after it make  *)
(* an archive; without compression, the header of a file does.             *)
IsFrame == Size >= 2 /\ Has(1, "ZeroBegin") /\ Has(2, "ZeroEnd")
IsArchive ==
  IF Framed THEN IsFrame /\ Size >= 3 /\ Has(3, "Pax") ELSE Size >= 1 /\ Has(1, "HeadData")

ScanType ==
  /\ scan = "type" /\ limit' = Size
  /\ \/ /\ IsArchive \/ (Framed /\ IsFrame)
        /\ scan' = "open" /\ shown' = (IF IsArchive THEN "none" ELSE "single")
        /\ LetGo /\ UNCHANGED <<listed, broken>>
     \/ FailsIf(IF Framed THEN ~IsFrame ELSE ~IsArchive) /\ ScanEnd("error")
  /\ UNCHANGED <<kind, data, made, owner, packVars, pos, seen>>

(* A stream of one item.  For its size get_lz4_content_size reads more of  *)
(* an LZ4 file than the first frame, which is shorter than the longest     *)
(* header of a frame.                                                      *)
IsStream == Framed /\ (kind = "PaxLz4" => Len(data) >= 3)

(* cache::init opens the file again, by its name.                          *)
ScanOpen ==
  /\ scan = "open"
  /\ \/ /\ disk = "present" /\ shown = "none" /\ reading' = TRUE
        /\ scan' = "items" /\ pos' = (IF Framed THEN 3 ELSE 0)
        /\ UNCHANGED <<disk, listed, shown, broken>>
     \/ /\ disk = "present" /\ shown = "single" /\ IsStream
        /\ ScanEnd("single") /\ UNCHANGED <<pos, broken>>
     \/ FailsIf(shown = "single" /\ ~IsStream) /\ ScanEnd("error") /\ UNCHANGED pos
  /\ UNCHANGED <<kind, data, made, owner, packVars, limit, seen>>

-----------------------------------------------------------------------------
(* The scanners.  A header frame ...                                       *)
WholeHeader(n) == Has(n + 1, "HeadBegin") /\ Has(n + 2, "HeadData") /\ Has(n + 3, "HeadEnd")

(* Mutant: the first block of a content is taken for all of it.            *)
ContentEndsFirst(n) == IF Has(n + 1, "Begin") /\ Has(n + 2, "Data") THEN {n + 2} ELSE {}

(* ... and where the content frame after n ends, if it does: its blocks    *)
(* are followed up to the end mark.                                        *)
ContentEnds(n) ==
  {m \in n + 2 .. Len(data) :
     /\ Has(n + 1, "Begin") /\ Has(m, "End")
     /\ \A k \in n + 2 .. m - 1 : Has(k, "Data")}

(* The next item can be read.  Only the LZ4 scanner compares with the size *)
(* of the file, and not where it follows blocks; the PAX scanner does not  *)
(* look at contents.                                                       *)
Readable ==
  IF kind = "Pax" THEN Has(pos + 1, "HeadData")
  ELSE /\ WholeHeader(pos)
       /\ kind = "PaxLz4" => pos + 3 <= limit
       /\ HasContent(data[pos + 1].file) =>
            (kind = "PaxLz4" => pos + 5 <= limit) /\ ContentEnds(pos + 3) # {}

(* What there is after it.                                                 *)
After ==
  LET i == data[pos + 1].file
  IN  IF kind = "Pax" THEN {pos + 1 + (IF HasContent(i) THEN AddList[i].size ELSE 0)}
      ELSE IF HasContent(i) THEN ContentEnds(pos + 3) ELSE {pos + 3}

(* Mutant: the end of the file ends any archive.                           *)
AtEndOfFile == pos >= Len(data)

(* What is taken for the end.  The LZ4 scanner stops where less is left    *)
(* than a header and its first block, and at whatever is not a frame; the  *)
(* Zstandard scanner only at the footer.                                   *)
AtEnd ==
  CASE kind = "Pax" -> pos >= limit
    [] kind = "PaxLz4" -> pos + 2 > limit \/ (pos < Len(data) /\ ~Has(pos + 1, "HeadBegin"))
    [] kind = "PaxZstd" -> Has(pos + 1, "Footer")

ScanItem ==
  /\ scan = "items" /\ ~AtEnd /\ Readable
  /\ pos' \in After
  /\ listed' = Append(listed, [file |-> data[pos + 1].file, at |-> pos + (IF Framed THEN 3 ELSE 1)])
  /\ UNCHANGED <<kind, fileVars, reading, packVars, scan, limit, shown, broken, seen>>

(* Contents of zeros, met for a header in an archive replaced meanwhile,   *)
(* end it too.                                                             *)
ScanFinish ==
  /\ scan = "items" /\ (AtEnd \/ (kind = "Pax" /\ Has(pos + 1, "Data")))
  /\ ScanEnd("items")
  /\ UNCHANGED <<kind, data, made, owner, packVars, limit, pos, broken, seen>>

(* A framed archive that cannot be read is taken as a stream of one item.  *)
ScanFail ==
  /\ scan = "items"
  /\ FailsIf(~AtEnd /\ ~Readable)
  /\ \E what \in {"single", "error"} : (what = "single" => IsStream) /\ ScanEnd(what)
  /\ UNCHANGED <<kind, data, made, owner, packVars, limit, pos, seen>>

KillAll ==
  /\ Kill
  /\ scan' = "idle" /\ limit' = 0 /\ pos' = 0 /\ listed' = <<>>
  /\ shown' = "none" /\ broken' = FALSE /\ seen' = [made |-> 0, complete |-> FALSE]

Next ==
  \/ \E p \in Packers : Pack(p) /\ UNCHANGED scanVars
  \/ ScanBegin \/ ScanType \/ ScanOpen \/ ScanItem \/ ScanFinish \/ ScanFail
  \/ KillAll

Spec == InitScan /\ [][Next]_vars

-----------------------------------------------------------------------------
(* The state is well formed; a packer creates the archive once.            *)
TypeOK ==
  /\ kind \in Kinds /\ disk \in {"absent", "present", "pending"} /\ reading \in BOOLEAN
  /\ owner \in Packers \cup {None} /\ made \in 0 .. Cardinality(Packers)
  /\ \A n \in 1 .. Len(data) : data[n].file \in 0 .. Len(AddList)
  /\ \A p \in Packers :
       /\ pc[p] \in {"idle", "create", "pack", "leave", "done", "killed"}
       /\ next[p] \in 1 .. Len(AddList) + 1 /\ mine[p] \in 0 .. made
       /\ delete[p] \in BOOLEAN /\ result[p] \in {"none", "ok", "error", "cancel"}
  /\ scan \in {"idle", "type", "open", "items", "done"} /\ limit \in Nat /\ pos \in Nat
  /\ shown \in {"none", "items", "single", "error"} /\ broken \in BOOLEAN

(* A packing that failed or was cancelled leaves no archive behind.        *)
NoDebris ==
  \A p \in Packers :
    pc[p] = "done" /\ result[p] # "ok" /\ Maker(p) /\ made > 0 => disk # "present"

(* The file a scan has read is the one it began with.                      *)
Undisturbed == scan = "done" /\ seen.made = made

Files(items) == [n \in 1 .. Len(items) |-> items[n].file]

(* An archive that was complete when the scan began is shown with exactly  *)
(* the files that were packed, in their order, unless a read failed.       *)
CompleteIsListed ==
  Undisturbed /\ seen.complete /\ ~broken =>
    \A p \in Packers :
      Maker(p) /\ (Framed \/ taken[p] # <<>>) => shown = "items" /\ Files(listed) = taken[p]

(* A PAXZ archive that shows its items shows all of them: one that is      *)
(* being written, or whose packer was killed, is never taken for complete. *)
PaxzAllOrNothing ==
  Undisturbed /\ kind = "PaxZstd" /\ shown = "items" =>
    \A p \in Packers : Maker(p) => Files(listed) = taken[p] /\ next[p] > Len(AddList)

(* At any moment, what a compressed archive shows is the beginning of what *)
(* is packed, and every item has all of its content.                       *)
ListedIsWhole ==
  Undisturbed /\ Framed /\ shown = "items" =>
    /\ \A p \in Packers : Maker(p) => IsPrefix(Files(listed), taken[p])
    /\ \A i \in Range(Files(listed)) : HasContent(i) => \E n \in 1 .. Len(data) : data[n] = Unit("End", i)

(* Whatever is packed can be unpacked: the position of every file shown    *)
(* lies in the archive, where archive::extract_pax demands it.             *)
PackedExtracts ==
  Undisturbed /\ seen.complete /\ shown = "items" /\ kind = "Pax" =>
    \A n \in 1 .. Len(listed) : ~AddList[listed[n].file].dir => listed[n].at < limit

=============================================================================
