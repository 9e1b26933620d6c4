--------------------------- MODULE ExtractProofs ----------------------------
(* What extract leaves behind, proved for archives of any items.           *)
EXTENDS Extract, TLAPS

(* The file extract works on is the one list has shown.                    *)
Shown == curFile # 0 => curFile = listed /\ ~Items[curFile].dir

(* Where a call is, and what it has in its hands there.                    *)
Stage ==
  /\ pc # "idle" => curFile # 0
  /\ pc = "idle" => out # "open"
  /\ pc \in {"seek", "create"} => out = "none"
  /\ pc \in {"tell", "copy", "frames"} =>
       out = "open" /\ item = curFile /\ deleteOut = ~Native
  /\ pc = "tell" => written = 0
  /\ pc = "copy" => ~Native /\ written <= Whole(item)
  /\ pc = "frames" => Native

IInv == TypeOK /\ Shown /\ Stage /\ KeptIsWhole /\ ErrorLeavesNothing

-----------------------------------------------------------------------------
LEMMA ElementType ==
  ASSUME NEW S, NEW s \in Seq(S), NEW i \in 1 .. Len(s)
  PROVE  s[i] \in S
<1> QED
  OBVIOUS

LEMMA Sizes ==
  /\ Len(Items) \in Nat
  /\ \A i \in 1 .. Len(Items) :
       /\ Whole(i) \in Nat /\ Items[i].dir \in BOOLEAN
       /\ NoContent(i) => Whole(i) = 0
<1>1. Len(Items) \in Nat
  BY ItemsAssumption
<1> SUFFICES ASSUME NEW i \in 1 .. Len(Items)
             PROVE  /\ Whole(i) \in Nat /\ Items[i].dir \in BOOLEAN
                    /\ NoContent(i) => Whole(i) = 0
  BY <1>1
<1> DEFINE Item == [dir : BOOLEAN, hidden : BOOLEAN, size : Nat, packed : BOOLEAN, room : Nat]
<1>2. Items[i] \in Item
  <2>1. Items \in Seq(Item)
    BY ItemsAssumption
  <2> HIDE DEF Item
  <2> QED
    BY <2>1, ElementType
<1>3. Items[i].size \in Nat /\ Items[i].room \in Nat /\ Items[i].dir \in BOOLEAN
  BY <1>2
<1>4. Items[i].packed \/ Items[i].room = 0
  BY ItemsAssumption
<1> QED
  BY <1>3, <1>4 DEF Whole, Smaller, NoContent

LEMMA Codes == \A hr \in Nat : OrRead(hr) \in Nat /\ (hr # 0 => OrRead(hr) # 0)
<1> SUFFICES ASSUME NEW hr \in Nat
             PROVE  OrRead(hr) \in Nat /\ (hr # 0 => OrRead(hr) # 0)
  OBVIOUS
<1>1. \E a, b \in Nat : OrRead(hr) = hr + a + b
  BY DEF OrRead
<1> QED
  BY <1>1

(* What leaving extract has to show: a file kept is whole, or native.      *)
LEMMA LeaveStep ==
  ASSUME IInv, NEW hr \in Nat, NEW file \in {"none", "open"}, NEW del \in BOOLEAN,
         Leave(hr, file, del), UNCHANGED <<archive, cursor, listed>>,
         status' \in {"ready", "zombie"}, curDir' \in Index, dstDir' \in BOOLEAN,
         item' \in Index, written' \in Nat, pos' \in Nat,
         file = "open" /\ hr = 0 /\ ~del /\ ~Native => item' # 0 /\ written' = Whole(item')
  PROVE  IInv'
<1>1. /\ out' \in {"none", "kept", "deleted"} /\ deleteOut' \in BOOLEAN
      /\ curFile' = 0 /\ result' = hr /\ pc' = "idle"
      /\ out' = "kept" => file = "open" /\ hr = 0 /\ ~del
  BY DEF Leave
<1>2. Native' = Native
  BY DEF archive, Native
<1>3. 0 \in Index
  BY Sizes DEF Index
<1>4. TypeOK'
  BY <1>1, <1>3 DEF IInv, TypeOK, archive, Index
<1>5. Shown' /\ Stage'
  BY <1>1 DEF Shown, Stage
<1>6. KeptIsWhole' /\ ErrorLeavesNothing'
  BY <1>1, <1>2 DEF KeptIsWhole, ErrorLeavesNothing, Whole
<1> QED
  BY <1>4, <1>5, <1>6 DEF IInv

LEMMA InitIInv == Init => IInv
<1> SUFFICES ASSUME Init PROVE IInv
  OBVIOUS
<1>1. 0 \in Index
  BY Sizes DEF Index
<1> QED
  BY <1>1 DEF Init, IInv, TypeOK, Shown, Stage, KeptIsWhole, ErrorLeavesNothing, Kinds

-----------------------------------------------------------------------------
(* One lemma per action.                                                   *)
LEMMA ListStep == IInv /\ List => IInv'
<1> SUFFICES ASSUME IInv, List PROVE IInv'
  OBVIOUS
<1>1. /\ pc = "idle" /\ pc' = "idle" /\ out' = "none"
      /\ UNCHANGED <<archive, status, deleteOut, item, written, pos>>
  BY DEF List
<1>2. /\ cursor' \in Index /\ curDir' \in Index /\ curFile' \in Index
      /\ listed' \in Index /\ dstDir' \in BOOLEAN /\ result' \in Nat
      /\ Shown'
  <2>1. CASE \E i \in Following : IsNext(i) /\ ShowItem(i)
    <3>1. PICK i \in Following : ShowItem(i)
      BY <2>1
    <3>2. i \in 1 .. Len(Items) /\ i \in Index
      BY Sizes DEF Following, IInv, TypeOK, Index
    <3>3. 0 \in Index /\ Items[i].dir \in BOOLEAN
      BY <3>2, Sizes DEF Index
    <3> QED
      BY <3>1, <3>2, <3>3 DEF ShowItem, Shown, IInv, TypeOK
  <2>2. CASE EndList
    <3>1. 0 \in Index /\ curDir \in Index
      BY Sizes DEF Index, IInv, TypeOK
    <3>2. /\ cursor' = 0 /\ dstDir' = FALSE /\ listed' = 0 /\ result' = 10
          /\ curFile' = 0 /\ curDir' = curDir
      BY <2>2 DEF EndList, E_END_ARCHIVE
    <3> QED
      BY <3>1, <3>2 DEF Shown
  <2>3. CASE /\ listed' = 0 /\ result' = E_END_ARCHIVE /\ curFile' = 0
             /\ UNCHANGED <<cursor, curDir, dstDir>>
    BY <2>3, Sizes DEF Shown, IInv, TypeOK, Index, E_END_ARCHIVE
  <2> QED
    BY <2>1, <2>2, <2>3 DEF List
<1>3. TypeOK'
  BY <1>1, <1>2 DEF IInv, TypeOK, archive, Index
<1>4. Stage' /\ KeptIsWhole' /\ ErrorLeavesNothing'
  BY <1>1 DEF Stage, KeptIsWhole, ErrorLeavesNothing
<1> QED
  BY <1>2, <1>3, <1>4 DEF IInv

LEMMA SkipStep == IInv /\ Skip => IInv'
<1> SUFFICES ASSUME IInv, Skip PROVE IInv'
  OBVIOUS
<1>1. curDir' \in Index
  BY Sizes DEF Skip, IInv, TypeOK, Index
<1> QED
  BY <1>1, LeaveStep DEF Skip, IInv, TypeOK

LEMMA BeginStep == IInv /\ ExtractBegin => IInv'
<1> SUFFICES ASSUME IInv, ExtractBegin PROVE IInv'
  OBVIOUS
<1>1. /\ dstDir' \in BOOLEAN
      /\ UNCHANGED <<archive, status, cursor, curDir, listed, item, written, pos>>
  BY DEF ExtractBegin, IInv, TypeOK
<1>2. CASE \E hr \in Nat : Leave(hr, "none", FALSE)
  BY <1>1, <1>2, LeaveStep DEF IInv, TypeOK
<1>3. CASE /\ curFile # 0 /\ status = "ready"
           /\ pc' = "seek" /\ deleteOut' = FALSE /\ out' = "none"
           /\ UNCHANGED <<curFile, result>>
  <2>1. TypeOK'
    BY <1>1, <1>3 DEF IInv, TypeOK, archive, Index
  <2>2. Shown' /\ Stage' /\ KeptIsWhole' /\ ErrorLeavesNothing'
    BY <1>1, <1>3 DEF IInv, Shown, Stage, KeptIsWhole, ErrorLeavesNothing
  <2> QED
    BY <2>1, <2>2 DEF IInv
<1> QED
  BY <1>2, <1>3 DEF ExtractBegin, E_NOT_SUPPORTED, E_EOPEN, E_NO_FILES, E_ECREATE, E_NO_MEMORY

(* A step inside extract that leaves neither the call nor the file.        *)
LEMMA GoOnStep ==
  ASSUME IInv, curFile # 0, UNCHANGED <<archive, status, cursors, curFile, result>>,
         pc' \in {"create", "tell", "copy", "frames"}, out' \in {"none", "open"},
         deleteOut' \in BOOLEAN, item' \in Index, written' \in Nat, pos' \in Nat,
         pc' = "create" => out' = "none",
         pc' # "create" => out' = "open" /\ item' = curFile /\ deleteOut' = ~Native,
         pc' = "tell" => written' = 0,
         pc' = "copy" => ~Native /\ written' <= Whole(item'),
         pc' = "frames" => Native
  PROVE  IInv'
<1>1. Native' = Native
  BY DEF archive, Native
<1>2. TypeOK'
  BY DEF IInv, TypeOK, archive, cursors, Index
<1>3. Shown'
  BY DEF IInv, Shown, cursors
<1>4. Stage'
  BY <1>1 DEF Stage, Whole
<1>5. KeptIsWhole' /\ ErrorLeavesNothing'
  BY DEF KeptIsWhole, ErrorLeavesNothing
<1> QED
  BY <1>2, <1>3, <1>4, <1>5 DEF IInv

LEMMA InExtractStep == IInv /\ InExtract => IInv'
<1> SUFFICES ASSUME IInv, InExtract PROVE IInv'
  OBVIOUS
<1>1. /\ curFile # 0 /\ curFile \in Index /\ curFile \in 1 .. Len(Items)
      /\ UNCHANGED <<archive, status, cursors>>
      /\ status \in {"ready", "zombie"} /\ dstDir \in BOOLEAN /\ curDir \in Index
      /\ item \in Index /\ written \in Nat /\ pos \in Nat /\ deleteOut \in BOOLEAN
      /\ Native \in BOOLEAN
  <2>1. curFile # 0 /\ UNCHANGED <<archive, status, cursors>>
    BY DEF InExtract, Seek, CreateOut, TellNew, Copy, Complete, NativeFrame, IInv, Stage
  <2>2. curFile \in 1 .. Len(Items)
    BY <2>1, Sizes DEF IInv, TypeOK, Index
  <2> QED
    BY <2>1, <2>2 DEF IInv, TypeOK, Native
<1>2. status' \in {"ready", "zombie"} /\ dstDir' \in BOOLEAN /\ curDir' \in Index
  BY <1>1 DEF cursors
<1>3. UNCHANGED <<archive, cursor, listed>>
  BY <1>1 DEF cursors
<1>4. \A hr \in {E_EOPEN, E_ECREATE, E_EREAD, E_EWRITE} :
        OrRead(hr) \in Nat /\ OrRead(hr) # 0
  BY Codes DEF E_EOPEN, E_ECREATE, E_EREAD, E_EWRITE
<1>5. ASSUME NEW hr \in Nat, hr # 0, NEW file \in {"none", "open"}, NEW del \in BOOLEAN,
             Leave(hr, file, del), item' \in Index, written' \in Nat, pos' \in Nat
      PROVE  IInv'
  BY <1>2, <1>3, <1>5, LeaveStep
<1>6. ASSUME Leave(0, "open", deleteOut), item' = item, written' \in Nat, pos' \in Nat,
             deleteOut = ~Native
      PROVE  IInv'
  BY <1>1, <1>2, <1>3, <1>6, LeaveStep
<1>7. CASE Seek
  <2>1. CASE Leave(OrRead(E_EOPEN), "none", deleteOut)
    BY <1>1, <1>4, <1>5, <1>7, <2>1 DEF Seek
  <2>2. CASE pc' = "create" /\ UNCHANGED <<curFile, deleteOut, out, result>>
    <3>1. out' = "none"
      BY <1>7, <2>2 DEF Seek, IInv, Stage
    <3> QED
      BY <1>1, <1>7, <2>2, <3>1, GoOnStep DEF Seek
  <2> QED
    BY <1>7, <2>1, <2>2 DEF Seek
<1>8. CASE CreateOut
  <2>1. CASE Leave(OrRead(E_ECREATE), "none", deleteOut) /\ UNCHANGED <<item, written, pos>>
    BY <1>1, <1>4, <1>5, <2>1
  <2>2. CASE /\ item' = curFile /\ written' = 0 /\ pos' = 0
             /\ NoContent(curFile) /\ Leave(0, "open", FALSE)
    <3>0. Whole(curFile) = 0
      BY <1>1, <2>2, Sizes
    <3>1. /\ item' \in Index /\ written' \in Nat /\ pos' \in Nat
          /\ item' # 0 /\ written' = Whole(item')
      BY <1>1, <2>2, <3>0 DEF Whole
    <3>2. Leave(0, "open", FALSE)
      BY <2>2
    <3> QED
      BY <1>2, <1>3, <3>1, <3>2, LeaveStep
  <2>3. CASE /\ item' = curFile /\ written' = 0 /\ pos' = 0
             /\ out' = "open" /\ deleteOut' = MayDelete /\ pc' = "tell"
             /\ UNCHANGED <<curFile, result>>
    BY <1>1, <2>3, GoOnStep DEF MayDelete
  <2> QED
    BY <1>8, <2>1, <2>2, <2>3 DEF CreateOut
<1>9. CASE TellNew
  <2>1. /\ out = "open" /\ item = curFile /\ deleteOut = ~Native /\ written = 0
        /\ UNCHANGED <<item, written, pos>>
    BY <1>9 DEF TellNew, IInv, Stage
  <2>2. CASE Leave(0, "open", deleteOut)
    BY <1>1, <1>6, <2>1, <2>2
  <2>3. CASE /\ pc' = IF Native THEN "frames" ELSE "copy"
             /\ UNCHANGED <<curFile, deleteOut, out, result>>
    <3>1. Whole(item') = Whole(item) /\ Whole(item) \in Nat
      BY <1>1, <2>1, Sizes DEF Whole
    <3> QED
      BY <1>1, <2>1, <2>3, <3>1, GoOnStep
  <2> QED
    BY <1>9, <2>2, <2>3 DEF TellNew
<1>10. CASE Copy
  <2>1. /\ out = "open" /\ item = curFile /\ deleteOut = ~Native /\ ~Native
        /\ UNCHANGED <<item, pos>> /\ Whole(item) \in Nat /\ Whole(item') = Whole(item)
    BY <1>1, <1>10, Sizes DEF Copy, IInv, Stage, Whole
  <2>2. CASE \E hr \in {E_EREAD, E_EWRITE} :
               Leave(OrRead(hr), "open", deleteOut) /\ UNCHANGED written
    BY <1>1, <1>4, <1>5, <2>1, <2>2
  <2>3. CASE /\ written < Whole(item) /\ written' = written + 1
             /\ UNCHANGED <<pc, curFile, deleteOut, out, result>>
    <3>1. pc' = "copy" /\ written' \in Nat /\ written' <= Whole(item')
      BY <1>1, <1>10, <2>1, <2>3 DEF Copy
    <3> QED
      BY <1>1, <2>1, <2>3, <3>1, GoOnStep
  <2>4. CASE written' = written + 1 /\ Leave(0, "open", deleteOut)
    BY <1>1, <1>6, <2>1, <2>4
  <2> QED
    BY <1>10, <2>2, <2>3, <2>4 DEF Copy
<1>11. CASE Complete
  <2>1. /\ item = curFile /\ item # 0 /\ Leave(0, "open", FALSE)
        /\ UNCHANGED <<item, written, pos>> /\ written' = Whole(item')
    BY <1>1, <1>11 DEF Complete, IInv, Stage, Whole
  <2> QED
    BY <1>1, <1>2, <1>3, <2>1, LeaveStep
<1>12. CASE NativeFrame
  <2>1. /\ out = "open" /\ item = curFile /\ deleteOut = ~Native /\ Native
        /\ UNCHANGED <<item, written>>
    BY <1>12 DEF NativeFrame, IInv, Stage
  <2>2. CASE Leave(0, "open", FALSE) /\ UNCHANGED pos
    BY <1>1, <1>2, <1>3, <2>1, <2>2, LeaveStep
  <2>3. CASE Leave(OrRead(E_EREAD), "open", deleteOut) /\ UNCHANGED pos
    BY <1>1, <1>4, <1>5, <2>1, <2>3
  <2>4. CASE pos' \in FrameEnds
    <3>1. pos' \in Nat /\ written' \in Nat
      BY <1>1, <2>1, <2>4, ItemsAssumption DEF FrameEnds
    <3>2. CASE UNCHANGED <<pc, curFile, deleteOut, out, result>>
      <4>1. pc' = "frames"
        BY <1>12, <3>2 DEF NativeFrame
      <4> QED
        BY <1>1, <2>1, <3>1, <3>2, <4>1, GoOnStep
    <3>3. CASE Leave(0, "open", deleteOut)
      BY <1>1, <1>6, <2>1, <3>1, <3>3
    <3> QED
      BY <1>12, <2>4, <3>2, <3>3, <2>2, <2>3 DEF NativeFrame
  <2> QED
    BY <1>12, <2>2, <2>3, <2>4 DEF NativeFrame
<1> QED
  BY <1>7, <1>8, <1>9, <1>10, <1>11, <1>12 DEF InExtract

LEMMA NextStep == IInv /\ [Next]_vars => IInv'
<1> SUFFICES ASSUME IInv, [Next]_vars PROVE IInv'
  OBVIOUS
<1>1. CASE MarkStale \/ UNCHANGED vars
  <2>1. UNCHANGED <<archive, cursors, curFile, output, pc, result>>
    BY <1>1 DEF MarkStale, vars
  <2>2. status' \in {"ready", "zombie"}
    BY <1>1 DEF MarkStale, vars, IInv, TypeOK
  <2>3. TypeOK'
    BY <2>1, <2>2 DEF IInv, TypeOK, archive, cursors, output, Index
  <2>4. Native' = Native /\ Whole(item') = Whole(item)
    BY <2>1 DEF archive, output, Native, Whole
  <2>5. Shown' /\ Stage'
    BY <2>1, <2>4 DEF IInv, Shown, Stage, cursors, output, Whole
  <2>6. KeptIsWhole' /\ ErrorLeavesNothing'
    BY <2>1, <2>4 DEF IInv, KeptIsWhole, ErrorLeavesNothing, output, Whole
  <2> QED
    BY <2>3, <2>5, <2>6 DEF IInv
<1> QED
  BY <1>1, ListStep, SkipStep, BeginStep, InExtractStep DEF Next

-----------------------------------------------------------------------------
(* The invariant holds in every behaviour.                                 *)
THEOREM Invariance == SafetySpec => []IInv
<1> QED
  BY InitIInv, NextStep, PTL DEF SafetySpec

(* The state stays well formed.                                            *)
THEOREM TypeCorrect == SafetySpec => []TypeOK
<1>1. IInv => TypeOK
  BY DEF IInv
<1> QED
  BY <1>1, Invariance, PTL

(* No error and no cancel leaves a truncated file of an archive of items.  *)
THEOREM NoTruncatedFile == SafetySpec => []KeptIsWhole
<1>1. IInv => KeptIsWhole
  BY DEF IInv
<1> QED
  BY <1>1, Invariance, PTL

(* An extract that fails leaves no file, and none stays open.              *)
THEOREM FailureCleansUp == SafetySpec => []ErrorLeavesNothing
<1>1. IInv => ErrorLeavesNothing
  BY DEF IInv
<1> QED
  BY <1>1, Invariance, PTL

(* Only the file listed last is ever extracted.                            *)
THEOREM OnlyListed == SafetySpec => []ExtractsListed
<1>1. IInv => ExtractsListed
  BY DEF IInv, Shown, Stage, ExtractsListed
<1> QED
  BY <1>1, Invariance, PTL

=============================================================================
