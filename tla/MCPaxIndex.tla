----------------------------- MODULE MCPaxIndex -----------------------------
(***************************************************************************)
(* Up to three of six files, chosen for the borders of the code.  Scaled *)
(* are: the size field (4 octal digits for 11), the fraction of a second   *)
(* (2 digits for 7), 1970 (200 seconds after time zero) and the blocks of  *)
(* the item store (400 bytes for a megabyte).                              *)
(***************************************************************************)
EXTENDS PaxIndex

CONSTANTS r1, r2

MCReaders == {r1, r2}
MCEpoch == 200 * Tick
MCNoTime == 1000000
MCItems == {[chars |-> n] : n \in 1 .. MaxChars}

Name(id, len, wide) == [id |-> id, len |-> len, wide |-> wide]

(* "Exact": its records fill one block.  "Carry": counting the digits of   *)
(* the length of its path record makes the length a digit longer.          *)
(* "Hundred": the name fills the name field.  "Huge": the size field       *)
(* cannot hold its size.  "Plain": the system knows nothing of it.  With a *)
(* name of 120 and one of 8 bytes, two items end just where a block does.  *)
File(name, dir, bytes, attr, mtime, atime, ctime) ==
  [name |-> name, dir |-> dir, size |-> bytes, attr |-> attr, mtime |-> mtime,
   atime |-> atime, ctime |-> ctime]

MCFiles == {
  File(Name("Exact", 398, 134), FALSE, 4095, {"readonly", "hidden", "system", "archived"},
       MCEpoch + 12345, MCEpoch - 350, MCEpoch + 507),
  File(Name("Carry", 91, 60), FALSE, 512, {"archived"}, MCEpoch - 300, MCNoTime, MCEpoch + 50),
  File(Name("Hundred", 100, 100), FALSE, 0, {"readonly", "compressed"}, MCEpoch + 99, MCEpoch, MCNoTime),
  File(Name("Huge", 120, 120), FALSE, 5000, {}, MCEpoch + 500, MCNoTime, MCEpoch + 310),
  File(Name("Plain", 8, 8), FALSE, 513, {}, MCNoTime, MCNoTime, MCNoTime),
  File(Name("Dir", 6, 6), TRUE, 0, {"hidden"}, MCEpoch + 2001, MCEpoch + 2001, MCEpoch + 2001) }

MCSaves == {
  [time |-> {"atime", "ctime"}, attr |-> Saveable],
  [time |-> {}, attr |-> {"hidden"}] }

MCJunk == {0, 7}
MCCutAt == {0, 1, 512, 1535, 1536, 1600}

(* The files are what they are said to be.                                 *)
ASSUME \A f \in MCFiles :
  LET h == CreateHeader(f, [time |-> {"atime", "ctime"}, attr |-> Saveable])
  IN  /\ f.name.id = "Exact" => h.pax = BlockSize
      /\ f.name.id = "Carry" => LET len == KeyLen.path + f.name.len + 3
                                IN  Digits(len + Digits(len)) > Digits(len)

=============================================================================
