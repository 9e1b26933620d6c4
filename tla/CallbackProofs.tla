--------------------------- MODULE CallbackProofs ---------------------------
(* The accounting of Callback, proved for files of any sizes, and any      *)
(* constants that keep SizesAssumption.                                    *)
EXTENDS Callback, TLAPS

(* Arithmetic modulo Word changes nothing while the totals stay below it.  *)
LEMMA NoWrap == ASSUME NEW x \in 0 .. MaxTotal PROVE x % Word = x
<1>1. MaxTotal \in Nat /\ Word \in Nat /\ MaxTotal < Word
  BY SizesAssumption
<1>2. x \in Int /\ 0 <= x /\ x < Word
  BY <1>1
<1> QED
  BY <1>1, <1>2, SMTT(30)
-----------------------------------------------------------------------------
(* The inductive invariant.  What the callback counted is what the caller  *)
(* reported, and what it believes the host was told is what it was told.   *)
Accounting ==
  /\ prevRead = past /\ readSize = pos /\ told = tellSize
  /\ tellSize <= past + pos /\ past + pos < tellSize + Factor
  /\ mode # "idle" => past <= tellSize

(* A caller stays within its file, and the files within the bound.         *)
Room == pos <= size /\ past + size <= MaxTotal

IInv == TypeOK /\ Accounting /\ Room /\ DeltaFits

(* What one call to tell_process_data does, if it reports no less than the *)
(* call before and at most tell_size_factor more.  A new file leaves       *)
(* nothing of the earlier ones untold.                                     *)
LEMMA TellStep ==
  ASSUME IInv, NEW n \in 0 .. MaxTotal, NEW call \in BOOLEAN, Tell(n, call),
         NEW before \in 0 .. MaxTotal,
         before = IF n = 0 THEN past + pos ELSE past,
         past + pos <= before + n, before + n <= past + pos + Factor,
         before + n <= MaxTotal
  PROVE  /\ prevRead' = before /\ readSize' = n
         /\ tellSize' \in Nat /\ tellSize <= tellSize' /\ told' = tellSize'
         /\ tellSize' <= before + n /\ before + n < tellSize' + Factor
         /\ n = 0 => tellSize' = before
         /\ step' \in Nat /\ step' <= IntMax
<1> DEFINE total == before + n
<1> DEFINE delta == total - tellSize
<1>1. /\ past \in Nat /\ pos \in Nat /\ tellSize \in Nat /\ readSize \in Nat
      /\ prevRead \in Nat /\ told \in Nat /\ step \in Nat /\ step <= IntMax
      /\ prevRead = past /\ readSize = pos /\ told = tellSize
      /\ tellSize <= past + pos /\ past + pos < tellSize + Factor
  BY SizesAssumption DEF IInv, TypeOK, Accounting, DeltaFits
<1>2. /\ Factor \in Nat /\ Factor # 0 /\ IntMax \in Nat /\ MaxTotal \in Nat
      /\ Word \in Nat /\ 2 * Factor <= IntMax
  BY SizesAssumption
<1>3. n \in Nat /\ before \in Nat
  BY <1>2
<1>4. total \in 0 .. MaxTotal /\ delta \in 0 .. MaxTotal /\ before \in 0 .. MaxTotal
  BY <1>1, <1>2, <1>3
<1>5. total % Word = total /\ delta % Word = delta /\ before % Word = before
  BY <1>4, NoWrap
<1>6. delta < 2 * Factor /\ Smaller(delta, IntMax) = delta
  BY <1>1, <1>2, <1>3 DEF Smaller
<1>7. before = IF n = 0 THEN (prevRead + readSize) % Word ELSE prevRead
  <2>1. CASE n = 0
    <3>1. before = prevRead + readSize
      BY <1>1, <2>1
    <3> QED
      BY <1>5, <2>1, <3>1
  <2>2. CASE n # 0
    BY <1>1, <2>2
  <2> QED
    BY <2>1, <2>2
<1>8. (before + n - tellSize) % Word = delta
  BY <1>1, <1>2, <1>3, <1>5
<1>9. /\ IF n = 0 THEN NewFile
         ELSE prevRead' = prevRead /\ readSize' = IF delta = 0 THEN readSize ELSE n
      /\ IF delta # 0 /\ (call \/ n = 0 \/ delta >= Factor)
         THEN /\ step' = delta
              /\ told' = told + Smaller(delta, IntMax)
              /\ Remember(n)
         ELSE UNCHANGED <<step, told, tellSize>>
  <2> HIDE DEF delta
  <2> QED
    BY <1>7, <1>8 DEF Tell
<1>10. prevRead' = before /\ readSize' = n
  <2>1. CASE n = 0
    BY <1>7, <1>9, <2>1 DEF NewFile
  <2>2. CASE n # 0
    BY <1>1, <1>3, <1>9, <2>2
  <2> QED
    BY <2>1, <2>2
<1>11. CASE delta # 0 /\ (call \/ n = 0 \/ delta >= Factor)
  <2>1. tellSize' = (before + n) % Word
    BY <1>9, <1>10, <1>11 DEF Remember
  <2>2. tellSize' = total /\ step' = delta /\ told' = told + delta
    BY <1>5, <1>6, <1>9, <1>11, <2>1
  <2> QED
    BY <1>1, <1>2, <1>3, <1>6, <1>10, <2>2
<1>12. CASE ~(delta # 0 /\ (call \/ n = 0 \/ delta >= Factor))
  <2>1. tellSize' = tellSize /\ step' = step /\ told' = told
    BY <1>9, <1>12
  <2>2. delta < Factor /\ (n = 0 => delta = 0)
    BY <1>1, <1>2, <1>3, <1>12
  <2> QED
    BY <1>1, <1>2, <1>3, <1>10, <2>1, <2>2
<1> QED
  BY <1>11, <1>12

(* What an action has to show for the invariant to hold after it.          *)
LEMMA Kept ==
  ASSUME past' \in 0 .. MaxTotal, pos' \in 0 .. MaxTotal, size' \in 0 .. MaxTotal,
         mode' \in {"idle", "data", "skip"},
         prevRead' = past' /\ readSize' = pos' /\ told' = tellSize',
         tellSize' \in 0 .. MaxTotal,
         tellSize' <= past' + pos', past' + pos' < tellSize' + Factor,
         mode' # "idle" => past' <= tellSize',
         pos' <= size', past' + size' <= MaxTotal,
         step' \in Nat, step' <= IntMax
  PROVE  IInv'
<1>1. MaxTotal \in Nat
  BY SizesAssumption
<1>2. TypeOK'
  BY <1>1 DEF TypeOK
<1>3. Accounting' /\ Room' /\ DeltaFits'
  BY DEF Accounting, Room, DeltaFits
<1> QED
  BY <1>2, <1>3 DEF IInv

LEMMA InitIInv == Init => IInv
BY SizesAssumption DEF Init, IInv, TypeOK, Accounting, Room, DeltaFits

-----------------------------------------------------------------------------
(* A file begins, to be copied or to be skipped.                           *)
LEMMA BeginStep ==
  ASSUME IInv, NEW n \in 0 .. MaxTotal, past + pos + n <= MaxTotal, size' = n,
         past' = past + pos, pos' = 0, Tell(0, FALSE),
         mode' \in {"idle", "data", "skip"}
  PROVE  IInv'
<1>1. past \in Nat /\ pos \in Nat /\ MaxTotal \in Nat /\ Factor \in Nat
  BY SizesAssumption DEF IInv, TypeOK
<1>2. past + pos \in 0 .. MaxTotal /\ 0 \in 0 .. MaxTotal
  BY <1>1
<1> DEFINE before == past + pos
<1>3. /\ before = IF 0 = 0 THEN past + pos ELSE past
      /\ past + pos <= before + 0 /\ before + 0 <= past + pos + Factor
      /\ before + 0 <= MaxTotal
  BY <1>1, <1>2
<1>4. /\ prevRead' = before /\ readSize' = 0
      /\ tellSize' \in Nat /\ told' = tellSize'
      /\ tellSize' <= before + 0 /\ before + 0 < tellSize' + Factor
      /\ tellSize' = before
      /\ step' \in Nat /\ step' <= IntMax
  <2> HIDE DEF before
  <2> QED
    BY <1>2, <1>3, TellStep DEF before
<1>5. tellSize' \in 0 .. MaxTotal
  BY <1>2, <1>4
<1> QED
  BY <1>1, <1>2, <1>4, <1>5, Kept

(* A file goes on, or ends.                                                *)
LEMMA GoOnStep ==
  ASSUME IInv, NEW n \in 0 .. size, pos <= n, n <= pos + Factor,
         NEW call \in BOOLEAN, Tell(n, call), mode # "idle",
         pos' = n, size' = size, past' = past,
         mode' \in {"idle", "data", "skip"}
  PROVE  IInv'
<1>1. /\ past \in Nat /\ pos \in Nat /\ size \in Nat /\ tellSize \in Nat
      /\ MaxTotal \in Nat /\ Factor \in Nat
      /\ past + size <= MaxTotal /\ past <= tellSize
  BY SizesAssumption DEF IInv, TypeOK, Accounting, Room
<1>2. n \in 0 .. MaxTotal /\ past \in 0 .. MaxTotal /\ size \in 0 .. MaxTotal
  BY <1>1
<1>3. past = IF n = 0 THEN past + pos ELSE past
  BY <1>1
<1>4. /\ past + pos <= past + n /\ past + n <= past + pos + Factor
      /\ past + n <= MaxTotal
  BY <1>1
<1>5. /\ prevRead' = past /\ readSize' = n
      /\ tellSize' \in Nat /\ tellSize <= tellSize' /\ told' = tellSize'
      /\ tellSize' <= past + n /\ past + n < tellSize' + Factor
      /\ step' \in Nat /\ step' <= IntMax
  BY <1>2, <1>3, <1>4, TellStep
<1>6. past <= tellSize'
  BY <1>1, <1>5
<1>7. tellSize' \in 0 .. MaxTotal
  BY <1>1, <1>4, <1>5
<1> QED
  BY <1>1, <1>2, <1>5, <1>6, <1>7, Kept

LEMMA NextStep == IInv /\ [Next]_vars => IInv'
<1> SUFFICES ASSUME IInv, [Next]_vars PROVE IInv'
  OBVIOUS
<1>1. /\ past \in Nat /\ pos \in Nat /\ size \in Nat /\ pos <= size
      /\ Factor \in Nat /\ Factor # 0 /\ Chunk \in Nat /\ Chunk <= Factor
  BY SizesAssumption DEF IInv, TypeOK, Room
<1>2. CASE BeginFile
  <2>1. mode' \in {"idle", "data", "skip"}
    BY <1>2 DEF BeginFile, GoOn
  <2> QED
    BY <1>2, <2>1, BeginStep DEF BeginFile
<1>3. CASE Data
  <2>1. PICK k \in 1 .. Smaller(Chunk, size - pos), late \in BOOLEAN :
          pos' = pos + k /\ Tell(pos + k, late)
    BY <1>3 DEF Data
  <2>2. pos + k \in 0 .. size /\ pos <= pos + k /\ pos + k <= pos + Factor
    BY <1>1 DEF Smaller
  <2>3. mode # "idle" /\ mode' \in {"idle", "data", "skip"}
    BY <1>3 DEF Data, GoOn
  <2>4. size' = size /\ past' = past
    BY <1>3 DEF Data
  <2> QED
    BY <2>1, <2>2, <2>3, <2>4, GoOnStep
<1>4. CASE EndFile
  <2>1. PICK call \in BOOLEAN : Tell(pos, call)
    BY <1>4 DEF EndFile
  <2>2. pos \in 0 .. size /\ pos <= pos /\ pos <= pos + Factor
    BY <1>1
  <2>3. /\ mode # "idle" /\ mode' \in {"idle", "data", "skip"}
        /\ pos' = pos /\ size' = size /\ past' = past
    BY <1>4 DEF EndFile
  <2> QED
    BY <2>1, <2>2, <2>3, GoOnStep
<1>5. CASE Fail
  BY <1>5 DEF Fail, counters, IInv, TypeOK, Accounting, Room, DeltaFits
<1>6. CASE BeginSkip
  <2>1. PICK n \in 0 .. MaxTotal :
          /\ past + pos + n <= MaxTotal /\ size' = n
          /\ Tell(0, FALSE)
          /\ GoOn(IF n = 0 THEN "idle" ELSE "skip")
    BY <1>6 DEF BeginSkip
  <2>2. mode' \in {"idle", "data", "skip"}
    BY <2>1 DEF GoOn
  <2> QED
    BY <1>6, <2>1, <2>2, BeginStep DEF BeginSkip
<1>7. CASE Skip
  <2>1. PICK call \in BOOLEAN : Tell(NextSkip, call)
    BY <1>7 DEF Skip
  <2>2. NextSkip \in 0 .. size /\ pos <= NextSkip /\ NextSkip <= pos + Factor
    BY <1>1 DEF NextSkip, Smaller
  <2>3. /\ mode # "idle" /\ mode' \in {"idle", "data", "skip"}
        /\ pos' = NextSkip /\ size' = size /\ past' = past
    BY <1>7 DEF Skip, GoOn
  <2> QED
    BY <2>1, <2>2, <2>3, GoOnStep
<1>8. CASE UNCHANGED vars
  BY <1>8 DEF vars, counters, IInv, TypeOK, Accounting, Room, DeltaFits
<1> QED
  BY <1>2, <1>3, <1>4, <1>5, <1>6, <1>7, <1>8 DEF Next

-----------------------------------------------------------------------------
(* The invariant holds in every behaviour.                                 *)
THEOREM Invariance == Spec => []IInv
<1> QED
  BY InitIInv, NextStep, PTL DEF Spec

(* No counter of tell_process_data wraps, whatever the files.              *)
THEOREM TypeCorrect == Spec => []TypeOK
<1>1. IInv => TypeOK
  BY DEF IInv
<1> QED
  BY <1>1, Invariance, PTL

(* The clamp to INT_MAX in tell_process_data_by_writing is never reached.  *)
THEOREM NeverClamped == Spec => []DeltaFits
<1>1. IInv => DeltaFits
  BY DEF IInv
<1> QED
  BY <1>1, Invariance, PTL

(* The host is never told more than was processed, and lags behind by less *)
(* than tell_size_factor.                                                  *)
THEOREM HostKeepsUp == Spec => []ToldKeepsUp
<1>1. IInv => ToldKeepsUp
  BY SizesAssumption DEF IInv, TypeOK, Accounting, ToldKeepsUp
<1> QED
  BY <1>1, Invariance, PTL

=============================================================================
