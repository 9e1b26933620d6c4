----------------------------- MODULE PaxHeader -----------------------------
(***************************************************************************)
(* The header of a file in a PAX archive: what pax_encode::create_header   *)
(* writes and what pax_decode makes of it.                                 *)
(*                                                                         *)
(* A file is a record of what the system tells of it.  Its name is         *)
(* [id, len, wide]: len bytes in UTF-8, of wide characters in UTF-16, with *)
(* the "./" in front and, for a directory, the "/" at the end.  A text is  *)
(* what it says and how long it is.                                        *)
(***************************************************************************)
EXTENDS Integers, SequencesExt, FiniteSetsExt

CONSTANTS
  BlockSize,     \* BLOCKSIZE, a tar block
  OldSizeLimit,  \* the largest value of the size field (8 ^ 11 - 1 in the code)
  TimeFieldEnd,  \* values of the mtime field end here (8 ^ 11)
  Tick,          \* WINDOWS_TICK, ticks of a second, 10 ^ FracDigits
  FracDigits,    \* digits behind the point of a time (7)
  Epoch,         \* the first second of 1970, in ticks
  NoTime,        \* _I64_MAX, a time that is not known; sizes are below it
  NameField      \* sizeof(posix_header::name)

Smaller(a, b) == IF a < b THEN a ELSE b
Round(size) == ((size + BlockSize - 1) \div BlockSize) * BlockSize

(* Numbers are written from their end.  A number after k divisions by ten, *)
(* at most as many as a number of 64 bits has digits.                      *)
MaxDigits == 20
Shift(n, k) ==
  LET rest[i \in 0 .. MaxDigits] == IF i = 0 THEN n ELSE rest[i - 1] \div 10
  IN  rest[k]

(* A number for which to_decimal64 has room.                               *)
Writable(n) == n \in Nat /\ Shift(n, MaxDigits) = 0

(* How long to_decimal makes a number: it stops when nothing is left.      *)
Digits(n) == Min({d \in 1 .. MaxDigits : Shift(n, d) = 0})

ASSUME HeaderAssumption ==
  /\ BlockSize \in Nat \ {0} /\ OldSizeLimit \in Nat /\ TimeFieldEnd \in Nat \ {0}
  /\ Tick \in Nat \ {0} /\ FracDigits \in 1 .. MaxDigits /\ Shift(Tick - 1, FracDigits) = 0
  /\ Epoch \in Nat /\ Writable(NoTime) /\ Epoch <= NoTime /\ NameField \in Nat \ {0}

-----------------------------------------------------------------------------
(* Times.  code_ns_fraction leaves out the zeros at the end, and the point *)
(* with them if nothing else is there.                                     *)
Fraction(ns) ==
  LET digit(i) == Shift(ns, FracDigits - i) % 10
  IN  IF ns = 0 THEN <<>>
      ELSE [i \in 1 .. Max({j \in 1 .. FracDigits : digit(j) # 0}) |-> digit(i)]

(* code_filetime divides towards zero.  Before 1970 what is left of a      *)
(* second is negative; as an unsigned number it is not below 10 ^ 9, and   *)
(* code_time drops it.                                                     *)
CodeTime(t) ==
  LET past == t - Epoch
      sec  == IF past < 0 THEN (-past) \div Tick ELSE past \div Tick
  IN  [minus |-> past < 0 /\ sec # 0, sec |-> sec,
       frac |-> IF past < 0 THEN <<>> ELSE Fraction(past % Tick)]

TimeLen(text) ==
  (IF text.minus THEN 1 ELSE 0) + Digits(text.sec)
  + (IF text.frac = <<>> THEN 0 ELSE 1 + Len(text.frac))

(* Mutant: the digits behind the point are taken for ticks as they are.    *)
DecodeTimeBare(text, junk) ==
  Epoch + (IF text.minus THEN -text.sec ELSE text.sec) * Tick
  + FoldLeft(LAMBDA v, d : 10 * v + d, 0, text.frac)

(* decode_time: digits that are not there are zeros.                       *)
Ticks(frac) ==
  LET value[i \in 0 .. FracDigits] ==
        IF i = 0 THEN 0 ELSE 10 * value[i - 1] + (IF i <= Len(frac) THEN frac[i] ELSE 0)
  IN  value[FracDigits]

(* decode_epoch_time.  Without a point decode_time sets no fraction, and   *)
(* what the variable held before is added.                                 *)
DecodeTime(text, junk) ==
  Epoch + (IF text.minus THEN -text.sec ELSE text.sec) * Tick
  + (IF text.frac = <<>> THEN junk ELSE Ticks(text.frac))

(* The mtime field, in seconds: none for a time before 1970 or not known,  *)
(* and only the digits there is room for.                                  *)
TimeField(t) ==
  IF t = NoTime \/ t <= Epoch THEN 0 ELSE ((t - Epoch) \div Tick) % TimeFieldEnd

-----------------------------------------------------------------------------
(* Records.  One begins with its own length, which counts the digits of    *)
(* that length.                                                            *)
KeyLen == [size |-> 4, flags |-> 13, mtime |-> 5, atime |-> 5, ctime |-> 5, path |-> 4]

(* Mutant: the digits are counted once.                                    *)
RecordSizeOnce(len) == len + Digits(len + 1)

(* The loop tries one digit, as many as the length with it has, and from   *)
(* there on one more each time.                                            *)
RecordSize(len) == len + Min({n \in Digits(len + 1) .. MaxDigits : Digits(len + n) = n})

Record(key, len, value) ==
  [key |-> key, len |-> KeyLen[key] + len + 3, size |-> RecordSize(KeyLen[key] + len + 3),
   value |-> value]

(* What the text of a record takes.                                        *)
TextLen(rec) == Digits(rec.size) + rec.len

(* add_attr writes the attributes it has words for.                        *)
FlagLen == [readonly |-> 9, hidden |-> 7, system |-> 7, archived |-> 9, compressed |-> 11]
Saveable == {"readonly", "hidden", "system", "archived"}
FlagsLen(attr) ==
  LET word(a) == IF a \in attr THEN FlagLen[a] ELSE 0
  IN  word("readonly") + word("hidden") + word("system") + word("archived") + word("compressed")

Flags(attr) == IF attr = {} THEN <<>> ELSE <<Record("flags", FlagsLen(attr) - 1, attr)>>

TimeRecord(key, t) ==
  IF t = NoTime THEN <<>> ELSE <<Record(key, TimeLen(CodeTime(t)), CodeTime(t))>>

SizeRecord(size) ==
  IF size >= OldSizeLimit THEN <<Record("size", Digits(size), size)>> ELSE <<>>

(* Mutant: a name that leaves no room for its zero is not given a record.  *)
PathRecordShort(name, before) ==
  IF name.len # name.wide \/ name.len > NameField \/ before = <<>>
  THEN <<Record("path", name.len, name)>> ELSE <<>>

(* A name that the field cannot hold has a record, and so has one where    *)
(* there would be none.                                                    *)
PathRecord(name, before) ==
  IF name.len # name.wide \/ name.len >= NameField \/ before = <<>>
  THEN <<Record("path", name.len, name)>> ELSE <<>>

(* The records of a file, under a configuration that saves some times and  *)
(* some attributes.                                                        *)
Records(f, saves) ==
  LET data == SizeRecord(f.size)
              \o Flags((f.attr \ Saveable) \cup (f.attr \cap saves.attr))
              \o TimeRecord("mtime", f.mtime)
              \o (IF "atime" \in saves.time THEN TimeRecord("atime", f.atime) ELSE <<>>)
              \o (IF "ctime" \in saves.time THEN TimeRecord("ctime", f.ctime) ELSE <<>>)
  IN  data \o PathRecord(f.name, data)

DataSize(recs) ==
  LET sum[n \in 0 .. Len(recs)] == IF n = 0 THEN 0 ELSE sum[n - 1] + TextLen(recs[n])
  IN  sum[Len(recs)]

(* The ustar name field, with its zero.                                    *)
Cut(name) == [name EXCEPT !.len = Smaller(@, NameField - 1), !.wide = Smaller(@, NameField - 1)]

(* create_header: a block for the extended header, its records, and the    *)
(* block of the file, whose fields keep what fits.                         *)
CreateHeader(f, saves) ==
  LET recs == Records(f, saves)
  IN  [recs |-> recs, pax |-> DataSize(recs), dir |-> f.dir, name |-> Cut(f.name),
       readonly |-> "readonly" \in f.attr, size |-> Smaller(f.size, OldSizeLimit),
       mtime |-> TimeField(f.mtime)]

(* get_used_size and the block of the file: at least a block of records.   *)
WrittenSize(h) == BlockSize + (IF Round(h.pax) < BlockSize THEN BlockSize ELSE Round(h.pax)) + BlockSize

-----------------------------------------------------------------------------
(* Mutant: a block more when the records fill theirs.                      *)
HeaderSizeMore(h) == 2 * BlockSize + (h.pax \div BlockSize + 1) * BlockSize

(* add_header: where the header says it ends.                              *)
HeaderSize(h) == 2 * BlockSize + Round(h.pax)

(* parse_pax_param refuses a size of _I64_MAX or more, except that of a    *)
(* directory, which it ignores.                                            *)
TooLarge(h, rec) == rec.key = "size" /\ ~h.dir /\ rec.value >= NoTime

(* add_header takes less than a megabyte of records.  parse_pax_header     *)
(* takes a record of a length of at most five digits that covers its       *)
(* keyword, and goes on where the length says; anything but the next       *)
(* record there is refused.                                                *)
HeaderLimit == 1024 * 1024
Readable(h) ==
  /\ h.pax > 0 /\ h.pax < HeaderLimit
  /\ \A i \in 1 .. Len(h.recs) :
       LET rec == h.recs[i]
       IN  Digits(rec.size) < 6 /\ rec.size = TextLen(rec) /\ ~TooLarge(h, rec)

(* parse_header: what the block of the file says.                          *)
Fields(h) ==
  [name |-> h.name, size |-> IF h.dir THEN 0 ELSE h.size,
   attr |-> (IF h.readonly THEN {"readonly"} ELSE {}) \cup {IF h.dir THEN "directory" ELSE "normal"},
   mtime |-> Epoch + h.mtime * Tick, ctime |-> Epoch + h.mtime * Tick]

(* Mutant: attributes replace those of the permissions.                    *)
ParamReplaces(info, rec, junk) ==
  CASE rec.key = "path" -> [info EXCEPT !.name = rec.value]
    [] rec.key = "size" -> [info EXCEPT !.size = rec.value]
    [] rec.key = "flags" -> [info EXCEPT !.attr = rec.value \cap Saveable]
    [] rec.key = "mtime" -> [info EXCEPT !.mtime = DecodeTime(rec.value, junk.mtime)]
    [] rec.key = "ctime" -> [info EXCEPT !.ctime = DecodeTime(rec.value, junk.ctime)]
    [] rec.key = "atime" -> info

(* parse_pax_param: a record overrides it; attributes are added.           *)
Param(info, rec, junk) ==
  CASE rec.key = "path" -> [info EXCEPT !.name = rec.value]
    [] rec.key = "size" -> IF "directory" \in info.attr THEN info
                           ELSE [info EXCEPT !.size = rec.value]
    [] rec.key = "flags" -> [info EXCEPT !.attr = @ \cup (rec.value \cap Saveable)]
    [] rec.key = "mtime" -> [info EXCEPT !.mtime = DecodeTime(rec.value, junk.mtime)]
    [] rec.key = "ctime" -> [info EXCEPT !.ctime = DecodeTime(rec.value, junk.ctime)]
    [] rec.key = "atime" -> info

(* What the decoder says of a file.  junk is what was in the variable for  *)
(* the fraction of each time.                                              *)
ParseHeader(h, junk) ==
  LET info[n \in 0 .. Len(h.recs)] ==
        IF n = 0 THEN Fields(h) ELSE Param(info[n - 1], h.recs[n], junk)
  IN  info[Len(h.recs)]

=============================================================================
