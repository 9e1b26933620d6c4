------------------------------ MODULE PaxIndex ------------------------------
(***************************************************************************)
(* The index of an archive without compression: headers and contents one   *)
(* after the other, as packer::pack_files writes them, read back by        *)
(* cache::scan_pax_file and add_pax_info into the item store, which is     *)
(* then enumerated.  The archive may meanwhile have been cut or damaged.   *)
(***************************************************************************)
EXTENDS PaxHeader, ItemStore

CONSTANTS
  Files,      \* files a host may pack
  Saves,      \* configurations: which times and which attributes are saved
  MaxFiles,   \* a bound of the model: files in the archive
  NsecJunk,   \* what an uninitialized fraction may hold
  CutAt       \* where, from the beginning of a header, an archive may be cut

(* The longest name, in UTF-8: of UNICODE_STRING_MAX_CHARS characters,     *)
(* with "./" and "/".                                                      *)
LongestName == 3 * 32767 + 3

ASSUME FilesAssumption ==
  /\ \A f \in Files :
       /\ f.name \in [id : STRING, len : 1 .. LongestName, wide : 3 .. MaxChars + 2]
       /\ f.dir \in BOOLEAN /\ Writable(f.size) /\ f.size < NoTime /\ f.attr \subseteq DOMAIN FlagLen
       /\ \A t \in {f.mtime, f.atime, f.ctime} : t \in 0 .. NoTime
  /\ \A s \in Saves : s.attr \subseteq Saveable
  /\ CutAt \subseteq Nat /\ MaxFiles \in Nat

VARIABLES
  saves,     \* the configuration it is packed under
  archive,   \* the headers: [file, head, at, hdr], at and for hdr bytes
  size,      \* of the archive
  zeros,     \* it ends with two blocks of zeros
  damage,    \* headers of which a checksum is wrong
  whole,     \* it was not cut
  phase,     \* "pack", "scan", "end", "error"
  readSize,  \* read_size: how far the scan is
  why        \* why the last scan ended, if with an error

archiveVars == <<saves, archive, size, zeros, damage, whole>>
vars == <<archiveVars, phase, readSize, why, storeVars>>

Init ==
  /\ saves \in Saves /\ archive = <<>> /\ size = 0 /\ zeros = FALSE
  /\ damage = {} /\ whole = TRUE
  /\ phase = "pack" /\ readSize = 0 /\ why = "none"
  /\ StoreInit

-----------------------------------------------------------------------------
(* A file is packed: its header, and its content in whole blocks.          *)
PackFile(f) ==
  /\ phase = "pack" /\ Len(archive) < MaxFiles
  /\ LET head == CreateHeader(f, saves)
     IN  /\ archive' = Append(archive, [file |-> f, head |-> head, at |-> size,
                                        hdr |-> WrittenSize(head)])
         /\ size' = size + WrittenSize(head) + (IF f.dir THEN 0 ELSE Round(f.size))
  /\ UNCHANGED <<saves, zeros, damage, whole, phase, readSize, why, storeVars>>

(* Something may have happened to the archive when it is opened: another   *)
(* program ended it with zeros, a part is missing, or a header is wrong.   *)
Open ==
  /\ phase = "pack" /\ archive # <<>> /\ phase' = "scan"
  /\ \/ UNCHANGED <<size, zeros, damage, whole>>
     \/ zeros' = TRUE /\ size' = size + 2 * BlockSize /\ UNCHANGED <<damage, whole>>
     \/ \E n \in 1 .. Len(archive), k \in CutAt :
          /\ archive[n].at + k < size
          /\ size' = archive[n].at + k /\ whole' = FALSE
          /\ UNCHANGED <<zeros, damage>>
     \/ \E n \in 1 .. Len(archive) : damage' = {n} /\ UNCHANGED <<size, zeros, whole>>
  /\ UNCHANGED <<saves, archive, readSize, why, storeVars>>

-----------------------------------------------------------------------------
(* The header the scan is at, if there is one.                             *)
Here == {n \in 1 .. Len(archive) : archive[n].at = readSize}
Left == size - readSize

(* scan_pax_file stops where there is less than a block, or one of zeros,  *)
(* but never at the beginning: a file that does not begin with a block of  *)
(* a header is not known as an archive (arcfile::update_type), and one     *)
(* without a byte is not even opened (cache::init).                        *)
AtEnd == readSize > 0 /\ (Left < BlockSize \/ (zeros /\ Left = 2 * BlockSize))

(* add_pax_info takes "./" off the name, and what is left is listed with   *)
(* the total of header and content that the scanner computed before the    *)
(* records were parsed.                                                    *)
CacheItem(h, total, junk) ==
  LET info == ParseHeader(h, junk)
  IN  [chars |-> info.name.wide - 2, name |-> info.name.id, data_size |-> info.size,
       pack_size |-> total, attr |-> info.attr, ctime |-> info.ctime, mtime |-> info.mtime,
       pos |-> readSize, hdr_size |-> HeaderSize(h)]

(* Past the content.  If that is where the file ends, or would have ended, *)
(* the scan does.                                                          *)
SkipContent(n) ==
  LET h == archive[n].head
      content == ParseHeader(h, [mtime |-> 0, ctime |-> 0]).size
      after == readSize + HeaderSize(h) + Round(content)
  IN  IF content # 0 /\ after >= size THEN readSize' = size /\ phase' = "end"
      ELSE readSize' = after /\ UNCHANGED phase

Sound(n) == n \notin damage /\ Left >= HeaderSize(archive[n].head) /\ Readable(archive[n].head)

(* One turn of the loop: a header is read, checked and parsed, its file    *)
(* added, its content skipped.                                             *)
ScanHeader ==
  /\ phase = "scan" /\ ~AtEnd
  /\ \E n \in Here, junk \in [{"mtime", "ctime"} -> NsecJunk] :
       /\ Sound(n)
       /\ LET h == archive[n].head
          IN  AddFile(CacheItem(h, HeaderSize(h) + Round(Fields(h).size), junk))
       /\ SkipContent(n)
  /\ UNCHANGED <<archiveVars, why>>

ScanEnd ==
  /\ phase = "scan" /\ AtEnd /\ phase' = "end"
  /\ UNCHANGED <<archiveVars, readSize, why, storeVars>>

Fail(reason) ==
  phase' = "error" /\ why' = reason /\ UNCHANGED <<archiveVars, readSize, storeVars>>

(* The file cannot be read, or there is no memory for a block.             *)
ScanFault ==
  /\ phase = "scan"
  /\ \/ Fail("read")
     \/ /\ ~AtEnd
        /\ \E n \in Here : Sound(n) /\ AddFails([chars |-> archive[n].head.name.wide - 2])
        /\ Fail("memory")

(* What is there is not the header of a file, or not all of it: of the     *)
(* first, update_type or the scanner finds that, of others the scanner.    *)
ScanRefuses ==
  /\ phase = "scan" /\ ~AtEnd /\ \A n \in Here : ~Sound(n)
  /\ Fail(IF \E n \in Here : n \in damage \/ Left < HeaderSize(archive[n].head)
          THEN "broken" ELSE "format")

(* The archive is opened once more: init starts with a clear.              *)
Again ==
  /\ phase = "error" /\ phase' = "scan" /\ readSize' = 0 /\ why' = "none"
  /\ Clear
  /\ UNCHANGED archiveVars

(* The index is published, and enumerations begin.                         *)
Ready == phase = "end" /\ Publish /\ UNCHANGED <<archiveVars, phase, readSize, why>>

Enumerate(r) == (GetNext(r) \/ Reset(r)) /\ UNCHANGED <<archiveVars, phase, readSize, why>>

Next ==
  \/ \E f \in Files : PackFile(f)
  \/ Open \/ ScanHeader \/ ScanEnd \/ ScanFault \/ ScanRefuses \/ Again \/ Ready
  \/ \E r \in Readers : Enumerate(r)

Spec == Init /\ [][Next]_vars

-----------------------------------------------------------------------------
(* Files are listed under the names they were packed with, in that order,  *)
(* none twice and none left out: a scan that ends without an error lists   *)
(* all of an archive from which nothing was cut, and the first of one that *)
(* was (wcx_cache.cpp:380 ends a scan at whatever is shorter than a block).*)
ListedInOrder ==
  /\ Len(log) <= Len(archive)
  /\ \A n \in 1 .. Len(log) :
       LET item == Listed[n]  f == archive[n].file
       IN  /\ item.name = f.name.id /\ item.chars = f.name.wide - 2
           /\ "directory" \in item.attr <=> f.dir
  /\ phase = "end" /\ whole => Len(log) = Len(archive)

(* What extract needs of an item: how long the content is and, from the    *)
(* place and the size of the header, where it begins.  The total is right  *)
(* for a file that the size field can hold.                                *)
SizesAndPlaces ==
  \A n \in 1 .. Len(log) :
    LET item == Listed[n]  f == archive[n].file
    IN  /\ item.data_size = (IF f.dir THEN 0 ELSE f.size)
        /\ item.pos = archive[n].at /\ item.hdr_size = archive[n].hdr
        /\ f.dir \/ f.size <= OldSizeLimit =>
             item.pack_size = archive[n].hdr + Round(item.data_size)

(* An attribute that is saved is listed if the file had it, and one that   *)
(* is not saved is not; but "readonly" travels in the permissions and is   *)
(* kept whatever the configuration says (tar.cpp:386).                     *)
AttributesKept ==
  \A n \in 1 .. Len(log) :
    Listed[n].attr \cap Saveable = archive[n].file.attr \cap (saves.attr \cup {"readonly"})

(* A time of this epoch that is not a whole second is listed to the tick.  *)
Fractional(t) == t # NoTime /\ t > Epoch /\ (t - Epoch) % Tick # 0

FractionKept ==
  \A n \in 1 .. Len(log) :
    LET item == Listed[n]  f == archive[n].file
    IN  /\ Fractional(f.mtime) => item.mtime = f.mtime
        /\ Fractional(f.ctime) /\ "ctime" \in saves.time => item.ctime = f.ctime

(* The header of whatever was packed is accepted: records are parsed as    *)
(* they were written, and the scan finds every header.                     *)
HeadersAccepted == why # "format" /\ (why = "broken" => damage # {} \/ ~whole)

(* What is listed is the time the file had (wcx_cache.h:58).  It is not:   *)
(* the fraction of a whole second is not initialized (tar.cpp:747).        *)
TimesKept ==
  \A n \in 1 .. Len(log) :
    LET t == archive[n].file.mtime IN t # NoTime /\ t >= Epoch => Listed[n].mtime = t

=============================================================================
