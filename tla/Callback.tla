------------------------------ MODULE Callback ------------------------------
(***************************************************************************)
(* How the plugin tells the host its progress while it packs or unpacks    *)
(* (wcx_callback.cpp, by writing): the host is called with the number of   *)
(* bytes since the last call, a signed 32-bit value, and only when half a  *)
(* second has passed, when tell_size_factor bytes have gathered, when a    *)
(* new file begins, or when the caller forces it.  One callback object     *)
(* lives through many files, finished, skipped, failed or cancelled.       *)
(***************************************************************************)
EXTENDS Integers

CONSTANTS
  Factor,    \* tell_size_factor
  IntMax,    \* INT_MAX
  Chunk,     \* most bytes between two calls of tell_process_data
  Word,      \* 2^64, where UINT64 wraps
  MaxTotal   \* bound on the bytes of all files

ASSUME SizesAssumption ==
  /\ Factor \in Nat \ {0} /\ IntMax \in Nat /\ Chunk \in Nat \ {0}
  /\ Word \in Nat /\ MaxTotal \in Nat
  /\ 2 * Factor <= IntMax /\ Chunk <= Factor /\ MaxTotal < Word

VARIABLES
  prevRead,  \* m_prev_read_size
  readSize,  \* m_read_size
  tellSize,  \* m_tell_size
  told,      \* sum of what the host was told
  step,      \* the difference told last, before it is cut to an int
  mode,      \* what the caller is doing: "idle", "data" or "skip"
  size,      \* size of the file it works on
  pos,       \* bytes of that file it has reported so far
  past       \* bytes it reported of the files before

counters == <<prevRead, readSize, tellSize, told, step>>
vars == <<counters, mode, size, pos, past>>

Init ==
  /\ prevRead = 0 /\ readSize = 0 /\ tellSize = 0
  /\ told = 0 /\ step = 0
  /\ mode = "idle" /\ size = 0 /\ pos = 0 /\ past = 0

Smaller(a, b) == IF a < b THEN a ELSE b

(* Mutant: counts the last file again with every new one.                  *)
NewFileKeepsSize == prevRead' = (prevRead + readSize) % Word /\ readSize' = readSize

(* size = 0 stands for a new file.                                         *)
NewFile == prevRead' = (prevRead + readSize) % Word /\ readSize' = 0

(* Mutant: takes the size of the file for the size of all files.           *)
RememberFile(n) == tellSize' = n

Remember(n) == tellSize' = (prevRead' + n) % Word

(* tell_process_data_by_writing(n, forced); Call is whether the host is    *)
(* called if there is something to tell.                                   *)
Tell(n, call) ==
  LET prev == IF n = 0 THEN (prevRead + readSize) % Word ELSE prevRead
      delta == (prev + n - tellSize) % Word
  IN  /\ IF n = 0 THEN NewFile
         ELSE prevRead' = prevRead /\ readSize' = IF delta = 0 THEN readSize ELSE n
      /\ IF delta # 0 /\ (call \/ n = 0 \/ delta >= Factor)
         THEN /\ step' = delta
              /\ told' = told + Smaller(delta, IntMax)
              /\ Remember(n)
         ELSE UNCHANGED <<step, told, tellSize>>

(* The host may answer psCancel: the caller gives the file up.             *)
GoOn(m) == mode' = m \/ (told' # told /\ mode' = "idle")

-----------------------------------------------------------------------------
(* An extractor or the packer begins a file.                               *)
BeginFile ==
  /\ mode = "idle"
  /\ \E n \in 0 .. MaxTotal : past + pos + n <= MaxTotal /\ size' = n
  /\ past' = past + pos /\ pos' = 0
  /\ Tell(0, FALSE)
  /\ GoOn("data")

(* It has copied some more.                                                *)
Data ==
  /\ mode = "data" /\ pos < size
  /\ \E k \in 1 .. Smaller(Chunk, size - pos), late \in BOOLEAN :
       pos' = pos + k /\ Tell(pos + k, late)
  /\ GoOn("data")
  /\ UNCHANGED <<size, past>>

(* It has reached the end, of a stream that can be shorter than its size.  *)
EndFile ==
  /\ mode = "data"
  /\ \E call \in BOOLEAN : Tell(pos, call)
  /\ mode' = "idle"
  /\ UNCHANGED <<size, pos, past>>

(* It could not read or write on.                                          *)
Fail ==
  /\ mode = "data" /\ mode' = "idle"
  /\ UNCHANGED <<counters, size, pos, past>>

(* tell_skip_file: the packer leaves a file out that it cannot read.       *)
BeginSkip ==
  /\ mode = "idle"
  /\ \E n \in 0 .. MaxTotal :
       /\ past + pos + n <= MaxTotal /\ size' = n
       /\ Tell(0, FALSE)
       /\ GoOn(IF n = 0 THEN "idle" ELSE "skip")
  /\ past' = past + pos /\ pos' = 0

(* Mutant: tells a skipped file in one step.                               *)
NextSkipWhole == size

(* The loop's size_factor steps.                                           *)
NextSkip == Smaller(pos + Factor, size)

Skip ==
  /\ mode = "skip"
  /\ pos' = NextSkip
  /\ \E call \in BOOLEAN : Tell(NextSkip, call)
  /\ GoOn(IF NextSkip = size THEN "idle" ELSE "skip")
  /\ UNCHANGED <<size, past>>

Next == BeginFile \/ Data \/ EndFile \/ Fail \/ BeginSkip \/ Skip

Spec == Init /\ [][Next]_vars

-----------------------------------------------------------------------------
(* The state is well formed; no counter wraps.                             *)
TypeOK ==
  /\ prevRead \in 0 .. MaxTotal /\ readSize \in 0 .. MaxTotal
  /\ tellSize \in 0 .. MaxTotal
  /\ told \in Nat /\ step \in Nat
  /\ mode \in {"idle", "data", "skip"}
  /\ size \in 0 .. MaxTotal /\ pos \in 0 .. MaxTotal /\ past \in 0 .. MaxTotal

(* The difference never has to be cut: the branch the code logs as         *)
(* "CRITICAL ERROR" is never taken, whatever files come in what order.     *)
DeltaFits == step <= IntMax

(* What the host has been told is never more than what was processed, in   *)
(* all files so far, and less than tell_size_factor short of it; nothing   *)
(* of an earlier file is still untold once a new one has begun.            *)
ToldKeepsUp ==
  /\ told <= past + pos /\ past + pos < told + Factor
  /\ mode # "idle" => past <= told

=============================================================================
