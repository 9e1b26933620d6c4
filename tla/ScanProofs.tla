----------------------------- MODULE ScanProofs -----------------------------
(* A packing that failed or was cancelled leaves no archive behind, and    *)
(* what a scan shows of an archive that is being packed, was packed, or    *)
(* was left by a killed process: proved for any number of packers, any     *)
(* list of files, and opens that read the archive at any moment.           *)
EXTENDS PackScan, SequenceTheorems, FiniteSetTheorems, TLAPS

(* What the proof needs of the types.                                      *)
Shape ==
  /\ made \in Nat /\ disk \in {"absent", "present", "pending"}
  /\ owner \in Packers \cup {None}
  /\ mine \in [Packers -> Nat] /\ delete \in [Packers -> BOOLEAN]
  /\ pc \in [Packers -> {"idle", "create", "pack", "leave", "done", "killed"}]
  /\ result \in [Packers -> {"none", "ok", "error", "cancel"}]

(* The creations are counted, and nobody's is before he packs.             *)
Creations ==
  \A p \in Packers :
    mine[p] <= made /\ (pc[p] \in {"idle", "create"} => mine[p] = 0)

(* Who has created the file and is not done yet has it open, and nobody    *)
(* else: it is the last creation, it is there, and the flag says what is   *)
(* to become of it.                                                        *)
OwnerInv ==
  \A p \in Packers :
    /\ pc[p] = "pack" => owner = p /\ mine[p] > 0 /\ delete[p]
    /\ pc[p] = "leave" /\ mine[p] > 0 => owner = p
    /\ owner = p =>
         /\ pc[p] \in {"pack", "leave"} /\ mine[p] = made /\ disk = "present"
         /\ pc[p] = "leave" => (delete[p] <=> result[p] # "ok")

IInv == Shape /\ Creations /\ OwnerInv /\ NoDebris

-----------------------------------------------------------------------------
LEMMA InitInv == InitScan => IInv
<1> SUFFICES ASSUME InitScan PROVE IInv
  OBVIOUS
<1>1. Shape
  BY DEF InitScan, Init, Shape
<1>2. Creations
  <2>1. made = 0 /\ mine = [p \in Packers |-> 0]
    BY DEF InitScan, Init
  <2>2. \A p \in Packers : mine[p] = 0
    BY <2>1
  <2>3. made \in Nat /\ 0 <= made
    BY <2>1
  <2>4. \A p \in Packers : mine[p] <= made
    BY <2>2, <2>3
  <2> QED
    BY <2>2, <2>4, Zenon DEF Creations
<1>3. OwnerInv
  BY PackAssumption DEF InitScan, Init, OwnerInv
<1>4. NoDebris
  BY DEF InitScan, Init, NoDebris
<1> QED
  BY <1>1, <1>2, <1>3, <1>4 DEF IInv

(* A step of no packer: the file stays, or goes when it was already        *)
(* deleted.                                                                *)
LEMMA OthersStep ==
  ASSUME IInv, UNCHANGED <<made, owner, packVars>>,
         disk' = disk \/ (disk = "pending" /\ disk' = "absent")
  PROVE  IInv'
<1> USE DEF packVars
<1>1. Shape'
  BY DEF IInv, Shape
<1>2. Creations'
  BY DEF IInv, Creations
<1>3. OwnerInv'
  BY DEF IInv, OwnerInv
<1>4. NoDebris'
  BY DEF IInv, NoDebris, Maker
<1> QED
  BY <1>1, <1>2, <1>3, <1>4 DEF IInv

LEMMA ScanStep ==
  ASSUME IInv,
         \/ ScanBegin \/ ScanType \/ ScanOpen \/ ScanItem \/ ScanFinish \/ ScanFail
  PROVE  IInv'
<1>1. UNCHANGED <<made, owner, packVars>>
  BY DEF ScanBegin, ScanType, ScanOpen, ScanItem, ScanFinish, ScanFail, fileVars
<1>2. disk' = disk \/ (disk = "pending" /\ disk' = "absent")
  BY DEF ScanBegin, ScanType, ScanOpen, ScanItem, ScanFinish, ScanFail, ScanEnd, LetGo, fileVars
<1> QED
  BY <1>1, <1>2, OthersStep

LEMMA KillStep == ASSUME IInv, KillAll PROVE IInv'
<1>1. /\ \A q \in Packers : pc'[q] = IF pc[q] \in {"idle", "done"} THEN pc[q] ELSE "killed"
      /\ pc' \in [Packers -> {"idle", "create", "pack", "leave", "done", "killed"}]
      /\ owner' = None /\ UNCHANGED <<made, mine, delete, result>>
      /\ disk' = IF disk = "pending" THEN "absent" ELSE disk
  BY DEF KillAll, Kill, IInv, Shape
<1>2. Shape'
  BY <1>1 DEF IInv, Shape
<1>3. Creations'
  BY <1>1 DEF IInv, Creations, Shape
<1>4. OwnerInv'
  BY <1>1, PackAssumption DEF IInv, OwnerInv, Shape
<1>5. NoDebris'
  BY <1>1 DEF IInv, NoDebris, Maker, Shape
<1> QED
  BY <1>2, <1>3, <1>4, <1>5 DEF IInv

(* A step within pack_files that leaves the flag as it is.                 *)
LEMMA PackingStep ==
  ASSUME IInv, NEW p \in Packers, pc[p] = "pack",
         UNCHANGED <<disk, made, owner, mine>>,
         \/ UNCHANGED <<pc, result, delete>>
         \/ /\ pc' = [pc EXCEPT ![p] = "leave"]
            /\ \E r \in {"ok", "error", "cancel"} :
                 /\ result' = [result EXCEPT ![p] = r]
                 /\ delete' = [delete EXCEPT ![p] = (r # "ok")]
  PROVE  IInv'
<1>1. Shape'
  BY DEF IInv, Shape
<1>2. Creations'
  BY DEF IInv, Creations, Shape
<1>3. owner = p /\ mine[p] > 0 /\ delete[p]
  BY DEF IInv, OwnerInv
<1>4. OwnerInv'
  BY <1>3 DEF IInv, OwnerInv, Shape
<1>5. NoDebris'
  BY DEF IInv, NoDebris, Maker, Shape
<1> QED
  BY <1>1, <1>2, <1>4, <1>5 DEF IInv

LEMMA CheckStep == ASSUME IInv, NEW p \in Packers, Check(p) PROVE IInv'
<1>1. /\ pc[p] = "idle" /\ UNCHANGED <<disk, made, owner, mine, delete>>
      /\ \/ /\ pc' = [pc EXCEPT ![p] = "leave"] /\ result' = [result EXCEPT ![p] = "error"]
         \/ pc' = [pc EXCEPT ![p] = "create"] /\ result' = result
  BY DEF Check, Leave, fileVars
<1>2. Shape'
  BY <1>1 DEF IInv, Shape
<1>3. mine[p] = 0 /\ owner # p
  BY <1>1 DEF IInv, Creations, OwnerInv
<1>4. Creations'
  BY <1>1, <1>3 DEF IInv, Creations, Shape
<1>5. OwnerInv'
  BY <1>1, <1>3 DEF IInv, OwnerInv, Shape
<1>6. NoDebris'
  BY <1>1 DEF IInv, NoDebris, Maker, Shape
<1> QED
  BY <1>2, <1>4, <1>5, <1>6 DEF IInv

LEMMA CreateStep == ASSUME IInv, NEW p \in Packers, CreateArchive(p) PROVE IInv'
<1>1. pc[p] = "create" /\ mine[p] = 0 /\ owner # p
  BY DEF CreateArchive, IInv, Creations, OwnerInv
<1>2. CASE /\ Leave(p, "error") /\ UNCHANGED <<fileVars, todo, mine, delete>>
  <2>1. /\ pc' = [pc EXCEPT ![p] = "leave"] /\ result' = [result EXCEPT ![p] = "error"]
        /\ UNCHANGED <<disk, made, owner, mine, delete>>
    BY <1>2 DEF Leave, fileVars
  <2>2. Shape'
    BY <2>1 DEF IInv, Shape
  <2>3. Creations'
    BY <1>1, <2>1 DEF IInv, Creations, Shape
  <2>4. OwnerInv'
    BY <1>1, <2>1 DEF IInv, OwnerInv, Shape
  <2>5. NoDebris'
    BY <2>1 DEF IInv, NoDebris, Maker, Shape
  <2> QED
    BY <2>2, <2>3, <2>4, <2>5 DEF IInv
<1>3. CASE ~(Leave(p, "error") /\ UNCHANGED <<fileVars, todo, mine, delete>>)
  <2>1. /\ owner = None /\ disk' = "present" /\ made' = made + 1 /\ owner' = p
        /\ mine' = [mine EXCEPT ![p] = made + 1] /\ delete' = [delete EXCEPT ![p] = TRUE]
        /\ pc' = [pc EXCEPT ![p] = "pack"] /\ result' = result
    BY <1>3 DEF CreateArchive
  <2>2. Shape'
    BY <2>1 DEF IInv, Shape
  <2>3. Creations'
    BY <2>1 DEF IInv, Creations, Shape
  <2>4. ASSUME NEW q \in Packers, q # p
        PROVE  pc[q] # "pack" /\ (pc[q] = "leave" => mine[q] = 0) /\ mine'[q] < made'
    BY <2>1, <2>4, PackAssumption DEF IInv, OwnerInv, Creations, Shape
  <2>5. OwnerInv'
    BY <2>1, <2>4 DEF IInv, OwnerInv, Shape
  <2>6. NoDebris'
    BY <2>1, <2>4 DEF NoDebris, Maker, IInv, Shape
  <2> QED
    BY <2>2, <2>3, <2>5, <2>6 DEF IInv
<1> QED
  BY <1>2, <1>3

(* The object of the packer deletes the file if the flag says so.          *)
LEMMA CloseStep == ASSUME IInv, NEW p \in Packers, Close(p) PROVE IInv'
<1>1. /\ pc[p] = "leave" /\ pc' = [pc EXCEPT ![p] = "done"]
      /\ UNCHANGED <<made, mine, result>>
  BY DEF Close
<1>2. CASE owner = p
  <2>1. /\ owner' = None /\ delete' = [delete EXCEPT ![p] = FALSE]
        /\ disk' = IF ~delete[p] THEN disk ELSE IF reading THEN "pending" ELSE "absent"
    BY <1>2 DEF Close
  <2>2. delete[p] <=> result[p] # "ok"
    BY <1>1, <1>2 DEF IInv, OwnerInv
  <2>3. Shape'
    BY <1>1, <2>1 DEF IInv, Shape
  <2>4. Creations'
    BY <1>1 DEF IInv, Creations, Shape
  <2>5. OwnerInv'
    BY <1>1, <1>2, <2>1, PackAssumption DEF IInv, OwnerInv, Shape
  <2>6. NoDebris'
    BY <1>1, <2>1, <2>2 DEF IInv, NoDebris, Maker, Shape
  <2> QED
    BY <2>3, <2>4, <2>5, <2>6 DEF IInv
<1>3. CASE owner # p
  <2>1. UNCHANGED <<owner, disk, delete>> /\ mine[p] = 0
    BY <1>1, <1>3 DEF Close, IInv, OwnerInv, Shape
  <2>2. Shape'
    BY <1>1, <2>1 DEF IInv, Shape
  <2>3. Creations'
    BY <1>1 DEF IInv, Creations, Shape
  <2>4. OwnerInv'
    BY <1>1, <1>3, <2>1 DEF IInv, OwnerInv, Shape
  <2>5. NoDebris'
    BY <1>1, <2>1 DEF IInv, NoDebris, Maker, Shape
  <2> QED
    BY <2>2, <2>3, <2>4, <2>5 DEF IInv
<1> QED
  BY <1>2, <1>3

LEMMA PackStep == ASSUME IInv, NEW p \in Packers, Pack(p) PROVE IInv'
<1>1. CASE Check(p)
  BY <1>1, CheckStep
<1>2. CASE CreateArchive(p)
  BY <1>2, CreateStep
<1>3. CASE SkipFile(p) \/ TakeFile(p) \/ WriteUnit(p)
  <2>1. pc[p] = "pack" /\ UNCHANGED <<disk, made, owner, mine, delete>>
    BY <1>3 DEF SkipFile, TakeFile, WriteUnit, fileVars
  <2>2. \/ UNCHANGED <<pc, result>>
        \/ pc' = [pc EXCEPT ![p] = "leave"] /\ result' = [result EXCEPT ![p] = "cancel"]
    BY <1>3 DEF SkipFile, TakeFile, WriteUnit, Leave
  <2>3. delete' = [delete EXCEPT ![p] = TRUE]
    BY <2>1 DEF IInv, OwnerInv, Shape
  <2> QED
    BY <2>1, <2>2, <2>3, PackingStep
<1>4. CASE Fail(p)
  <2>1. /\ pc[p] = "pack" /\ UNCHANGED <<disk, made, owner, mine>>
        /\ pc' = [pc EXCEPT ![p] = "leave"] /\ result' = [result EXCEPT ![p] = "error"]
        /\ delete' = [delete EXCEPT ![p] = TRUE]
    BY <1>4 DEF Fail, Leave, fileVars
  <2> QED
    BY <2>1, PackingStep
<1>5. CASE Finish(p)
  <2>1. /\ pc[p] = "pack" /\ UNCHANGED <<disk, made, owner, mine>>
        /\ pc' = [pc EXCEPT ![p] = "leave"] /\ result' = [result EXCEPT ![p] = "ok"]
        /\ delete' = [delete EXCEPT ![p] = FALSE]
    BY <1>5 DEF Finish, Leave
  <2> QED
    BY <2>1, PackingStep
<1>6. CASE Close(p)
  BY <1>6, CloseStep
<1> QED
  BY <1>1, <1>2, <1>3, <1>4, <1>5, <1>6 DEF Pack

LEMMA NextStep == IInv /\ [Next]_vars => IInv'
<1> SUFFICES ASSUME IInv, [Next]_vars PROVE IInv'
  OBVIOUS
<1>1. CASE \E p \in Packers : Pack(p)
  BY <1>1, PackStep
<1>2. CASE ScanBegin \/ ScanType \/ ScanOpen \/ ScanItem \/ ScanFinish \/ ScanFail
  BY <1>2, ScanStep
<1>3. CASE KillAll
  BY <1>3, KillStep
<1>4. CASE UNCHANGED vars
  BY <1>4, OthersStep DEF vars, fileVars
<1> QED
  BY <1>1, <1>2, <1>3, <1>4 DEF Next

-----------------------------------------------------------------------------
(* The counts of the creations, who has the file and what the flag says    *)
(* are kept by every step of a packer, a scan or a kill.                   *)
THEOREM Invariance == Spec => []IInv
<1>1. InitScan => IInv
  BY InitInv
<1> QED
  BY <1>1, NextStep, PTL DEF Spec

(* pack_files and ~packer: whatever fails or is cancelled at whatever      *)
(* point, the archive is deleted, unless the process was killed.           *)
THEOREM NothingLeftBehind == Spec => []NoDebris
<1>1. IInv => NoDebris
  BY DEF IInv
<1> QED
  BY <1>1, Invariance, PTL

-----------------------------------------------------------------------------
Numbers == 1 .. Len(AddList)

(* Every unit of a file says of which file it is.                          *)
OfFile == {"HeadBegin", "HeadData", "HeadEnd", "Begin", "Data", "End"}
OfArchive == {"ZeroBegin", "ZeroEnd", "Pax", "Footer"}
Units == [what : OfFile, file : Numbers] \cup [what : OfArchive, file : {0}]

-----------------------------------------------------------------------------
(* What is packed of one file is its entry; entry 0 is the prologue.  The  *)
(* packer goes through EntryLen units, of which Written have been written  *)
(* after the first c.  fr says whether the archive is one of frames.       *)
Body(i) == IF HasContent(i) THEN AddList[i].size + 2 ELSE 0
EntryLen(fr, i) == IF i > 0 THEN 3 + Body(i) ELSE IF fr THEN 3 ELSE 0

What(i, k) ==
  IF k = 1 THEN "HeadBegin" ELSE IF k = 2 THEN "HeadData" ELSE IF k = 3 THEN "HeadEnd"
  ELSE IF k = 4 THEN "Begin" ELSE IF k < 3 + Body(i) THEN "Data" ELSE "End"

EntryAt(i, k) ==
  IF i > 0 THEN Unit(What(i, k), i)
  ELSE Unit(IF k = 1 THEN "ZeroBegin" ELSE IF k = 2 THEN "ZeroEnd" ELSE "Pax", 0)

Written(fr, i, c) ==
  IF fr THEN c
  ELSE IF c < 2 THEN 0 ELSE IF c < 4 THEN 1 ELSE IF c < 3 + Body(i) THEN c - 3 ELSE c - 4

(* What an entry takes in the file, and what is at each place of it.       *)
SizeIn(fr, i) == Written(fr, i, EntryLen(fr, i))
DataAt(fr, i, j) ==
  IF fr THEN EntryAt(i, j) ELSE Unit(IF j = 1 THEN "HeadData" ELSE "Data", i)

(* The entries of the files taken, one after the other: entry n begins     *)
(* after h[n].                                                             *)
File(tk, n) == IF n = 0 THEN 0 ELSE tk[n]
Places(fr, tk, h) ==
  /\ h \in [0 .. Len(tk) + 1 -> Nat] /\ h[0] = 0
  /\ \A n \in 0 .. Len(tk) : h[n + 1] = h[n] + SizeIn(fr, File(tk, n))
  /\ \A n, k \in 0 .. Len(tk) + 1 : n <= k => h[n] <= h[k]

(* The last of them is written as far as what is still to do says, and the *)
(* footer is there if all is done.                                         *)
LastFile(tk) == File(tk, Len(tk))
Passed(fr, tk, td) == EntryLen(fr, LastFile(tk)) - Len(td)
Filled(fr, tk, td, ok, h, dt) ==
  /\ Passed(fr, tk, td) >= 0
  /\ \A k \in 1 .. Len(td) : td[k] = EntryAt(LastFile(tk), Passed(fr, tk, td) + k)
  /\ Len(dt) = h[Len(tk)] + Written(fr, LastFile(tk), Passed(fr, tk, td))
               + (IF ok /\ fr THEN 1 ELSE 0)
  /\ \A n \in 0 .. Len(tk) : \A j \in 1 .. SizeIn(fr, File(tk, n)) :
       h[n] + j <= Len(dt) => dt[h[n] + j] = DataAt(fr, File(tk, n), j)
  /\ ok => td = <<>> /\ (fr => dt[Len(dt)] = Unit("Footer", 0))

-----------------------------------------------------------------------------
Types ==
  /\ kind \in Kinds /\ data \in Seq(Units) /\ reading \in BOOLEAN
  /\ todo \in [Packers -> Seq(Units)]
  /\ taken \in [Packers -> Seq(Numbers)]
  /\ next \in [Packers -> 1 .. Len(AddList) + 1]

ScanTypes ==
  /\ scan \in {"idle", "type", "open", "items", "done"} /\ limit \in Nat /\ pos \in Nat
  /\ listed \in Seq([file : Numbers, at : Nat])
  /\ shown \in {"none", "items", "single", "error"} /\ broken \in BOOLEAN
  /\ seen \in [made : Nat, complete : BOOLEAN]

(* A creation is one packer's, and the file a scan is of was created.      *)
Single ==
  /\ \A p, q \in Packers : mine[p] = mine[q] /\ mine[p] > 0 => p = q
  /\ \A n \in 1 .. made : \E p \in Packers : mine[p] = n
  /\ disk # "absent" => made > 0
  /\ seen.made <= made /\ (scan # "idle" => seen.made > 0)

(* A packer has no result before it leaves, and is right if it says so.    *)
Progress ==
  \A p \in Packers :
    /\ pc[p] \in {"idle", "create"} => taken[p] = <<>>
    /\ pc[p] \in {"idle", "create", "pack"} => result[p] = "none"
    /\ result[p] = "ok" => next[p] > Len(AddList) /\ todo[p] = <<>>

(* The packer that has made the file there is.                             *)
Made(p) == Maker(p) /\ mine[p] > 0

Ok(p) == result[p] = "ok"

(* A scan of this file has listed the first of the files that were taken.  *)
Scanned(p, h) ==
  seen.made = made =>
    /\ limit <= Len(data)
    /\ seen.complete => Ok(p) /\ limit = Len(data)
    /\ scan \in {"type", "open"} => listed = <<>>
    /\ scan = "open" /\ Framed /\ shown # "single" => Len(data) >= 3
    /\ scan = "open" /\ shown = "single" => ~seen.complete
    /\ Len(listed) <= Len(taken[p])
    /\ \A n \in 1 .. Len(listed) :
         listed[n].file = taken[p][n] /\ (Framed => h[n + 1] <= Len(data))
    /\ scan = "items" => pos = h[Len(listed) + 1] /\ (Framed => pos <= Len(data))
    /\ scan = "done" /\ shown = "items" /\ kind = "PaxZstd" =>
         Len(listed) = Len(taken[p]) /\ Ok(p)
    /\ scan = "done" /\ seen.complete /\ ~broken /\ (Framed \/ taken[p] # <<>>) =>
         shown = "items" /\ Len(listed) = Len(taken[p])

Laid(p, h) ==
  /\ Places(Framed, taken[p], h)
  /\ Filled(Framed, taken[p], todo[p], Ok(p), h, data)
  /\ Scanned(p, h)

ScanInv ==
  /\ Types /\ ScanTypes /\ Single /\ Progress
  /\ \A p \in Packers : Made(p) => \E h : Laid(p, h)

-----------------------------------------------------------------------------
(* The entries.                                                            *)
LEMMA AddFact ==
  /\ Len(AddList) \in Nat
  /\ \A i \in Numbers : /\ AddList[i] \in [dir : BOOLEAN, size : Nat]
                        /\ HasContent(i) \in BOOLEAN
                        /\ HasContent(i) => AddList[i].size > 0
                        /\ Body(i) \in Nat /\ (HasContent(i) => Body(i) = AddList[i].size + 2)
                        /\ ~HasContent(i) => Body(i) = 0
<1> DEFINE S == [dir : BOOLEAN, size : Nat]
<1>1. AddList \in Seq(S)
  BY PackAssumption
<1>2. Len(AddList) \in Nat
  BY <1>1, LenProperties
<1>3. \A i \in Numbers : AddList[i] \in S
  <2> HIDE DEF S
  <2> QED
    BY <1>1, ElementOfSeq DEF Numbers
<1> QED
  BY <1>2, <1>3 DEF HasContent, Body

(* Concatenation, element by element.                                      *)
LEMMA Joined ==
  ASSUME NEW S, NEW a \in Seq(S), NEW b \in Seq(S), NEW t, t = a \o b
  PROVE  /\ t \in Seq(S) /\ Len(a) \in Nat /\ Len(b) \in Nat /\ Len(t) = Len(a) + Len(b)
         /\ \A k \in 1 .. Len(a) : t[k] = a[k]
         /\ \A k \in 1 .. Len(b) : t[Len(a) + k] = b[k]
<1>1. /\ t \in Seq(S) /\ Len(t) = Len(a) + Len(b)
      /\ \A k \in 1 .. Len(a) + Len(b) : t[k] = IF k <= Len(a) THEN a[k] ELSE b[k - Len(a)]
  BY ConcatProperties
<1>2. Len(a) \in Nat /\ Len(b) \in Nat
  BY LenProperties
<1>3. ASSUME NEW k \in 1 .. Len(b) PROVE t[Len(a) + k] = b[k]
  <2>1. Len(a) + k \in 1 .. Len(a) + Len(b) /\ ~(Len(a) + k <= Len(a)) /\ (Len(a) + k) - Len(a) = k
    BY <1>2
  <2> QED
    BY <1>1, <2>1
<1> QED
  BY <1>1, <1>2, <1>3

LEMMA OneUnit ==
  ASSUME NEW S, NEW a \in S, NEW t, t = <<a>>
  PROVE  t \in Seq(S) /\ Len(t) = 1 /\ t[1] = a
  OBVIOUS

(* What TakeFile queues is the entry of the file.                          *)
LEMMA ContentFact ==
  ASSUME NEW i \in Numbers, HasContent(i), NEW s, s = AddList[i].size
  PROVE  /\ Content(i) \in Seq(Units) /\ Len(Content(i)) = s + 2
         /\ Content(i)[1] = Unit("Begin", i) /\ Content(i)[s + 2] = Unit("End", i)
         /\ \A k \in 1 .. s : Content(i)[1 + k] = Unit("Data", i)
<1>0. s \in Nat
  BY AddFact
<1>1. PICK a : a = <<Unit("Begin", i)>>
  OBVIOUS
<1>2. PICK mid : mid = [c \in 1 .. s |-> Unit("Data", i)]
  OBVIOUS
<1>3. PICK b : b = <<Unit("End", i)>>
  OBVIOUS
<1>4. PICK u : u = a \o mid
  OBVIOUS
<1>5. Content(i) = u \o b
  BY <1>1, <1>2, <1>3, <1>4 DEF Content
<1>6. Unit("Begin", i) \in Units /\ Unit("Data", i) \in Units /\ Unit("End", i) \in Units
  BY DEF Units, OfFile, Unit
<1>7. a \in Seq(Units) /\ Len(a) = 1 /\ a[1] = Unit("Begin", i)
  BY <1>1, <1>6, OneUnit
<1>8. b \in Seq(Units) /\ Len(b) = 1 /\ b[1] = Unit("End", i)
  BY <1>3, <1>6, OneUnit
<1>9. mid \in Seq(Units) /\ Len(mid) = s /\ \A k \in 1 .. s : mid[k] = Unit("Data", i)
  <2>1. mid \in [1 .. s -> Units]
    BY <1>2, <1>6
  <2> QED
    BY <1>0, <1>2, <2>1
<1>10. /\ u \in Seq(Units) /\ Len(u) = 1 + s /\ u[1] = Unit("Begin", i)
       /\ \A k \in 1 .. s : u[1 + k] = Unit("Data", i)
  <2>1. /\ u \in Seq(Units) /\ Len(u) = Len(a) + Len(mid)
        /\ \A k \in 1 .. Len(a) : u[k] = a[k]
        /\ \A k \in 1 .. Len(mid) : u[Len(a) + k] = mid[k]
    <3>1. a \in Seq(Units) /\ mid \in Seq(Units)
      BY <1>7, <1>9
    <3> QED
      BY <1>4, <3>1, Joined
  <2>2. Len(a) = 1 /\ Len(mid) = s
    BY <1>7, <1>9
  <2>3. u[1] = a[1]
    BY <2>1, <2>2
  <2>4. \A k \in 1 .. s : u[1 + k] = mid[k]
    BY <2>1, <2>2
  <2> QED
    BY <1>7, <1>9, <2>1, <2>2, <2>3, <2>4
<1>11. /\ Content(i) \in Seq(Units) /\ Len(Content(i)) = (1 + s) + 1
       /\ \A k \in 1 .. 1 + s : Content(i)[k] = u[k]
       /\ Content(i)[(1 + s) + 1] = b[1]
  <2>1. /\ Content(i) \in Seq(Units) /\ Len(Content(i)) = Len(u) + Len(b)
        /\ \A k \in 1 .. Len(u) : Content(i)[k] = u[k]
        /\ \A k \in 1 .. Len(b) : Content(i)[Len(u) + k] = b[k]
    <3>1. u \in Seq(Units) /\ b \in Seq(Units)
      BY <1>8, <1>10
    <3> QED
      BY <1>5, <3>1, Joined
  <2> QED
    BY <1>0, <1>8, <1>10, <2>1
<1> QED
  <2>1. Content(i)[1] = u[1]
    BY <1>0, <1>11
  <2>2. ASSUME NEW k \in 1 .. s PROVE Content(i)[1 + k] = u[1 + k]
    <3>1. 1 + k \in 1 .. 1 + s
      BY <1>0
    <3> QED
      BY <1>11, <3>1
  <2>3. (1 + s) + 1 = s + 2
    BY <1>0
  <2> QED
    BY <1>8, <1>10, <1>11, <2>1, <2>2, <2>3

LEMMA HeaderFact ==
  ASSUME NEW i \in Numbers
  PROVE  /\ Header(i) \in Seq(Units) /\ Len(Header(i)) = 3
         /\ \A k \in 1 .. 3 : Header(i)[k] = EntryAt(i, k)
<1>1. i > 0
  BY DEF Numbers
<1> QED
  BY <1>1 DEF Header, Units, OfFile, Unit, EntryAt, What

LEMMA EntryFact ==
  ASSUME NEW i \in Numbers, NEW e, e = Header(i) \o Content(i), NEW fr \in BOOLEAN
  PROVE  /\ e \in Seq(Units) /\ Len(e) = EntryLen(fr, i)
         /\ \A k \in 1 .. Len(e) : e[k] = EntryAt(i, k)
<1>0. i > 0 /\ i \in Nat /\ EntryLen(fr, i) = 3 + Body(i)
  BY AddFact DEF Numbers, EntryLen
<1>1. CASE ~HasContent(i)
  <2>1. Content(i) = <<>> /\ Body(i) = 0
    BY <1>1 DEF Content, Body
  <2>2. e = Header(i)
    BY <2>1, HeaderFact, ConcatEmptySeq
  <2> QED
    BY <1>0, <2>1, <2>2, HeaderFact
<1>2. CASE HasContent(i)
  <2>1. PICK s : s = AddList[i].size
    OBVIOUS
  <2>2. s \in Nat /\ s > 0 /\ Body(i) = s + 2
    BY <1>2, <2>1, AddFact
  <2>3. /\ Content(i) \in Seq(Units) /\ Len(Content(i)) = s + 2
        /\ Content(i)[1] = Unit("Begin", i) /\ Content(i)[s + 2] = Unit("End", i)
        /\ \A k \in 1 .. s : Content(i)[1 + k] = Unit("Data", i)
    BY <1>2, <2>1, ContentFact
  <2>4. /\ Header(i) \in Seq(Units) /\ Len(Header(i)) = 3
        /\ \A k \in 1 .. 3 : Header(i)[k] = EntryAt(i, k)
    BY HeaderFact
  <2>5. /\ e \in Seq(Units) /\ Len(e) = 3 + (s + 2)
        /\ \A k \in 1 .. 3 : e[k] = Header(i)[k]
        /\ \A k \in 1 .. s + 2 : e[3 + k] = Content(i)[k]
    <3>1. /\ e \in Seq(Units) /\ Len(e) = Len(Header(i)) + Len(Content(i))
          /\ \A k \in 1 .. Len(Header(i)) : e[k] = Header(i)[k]
          /\ \A k \in 1 .. Len(Content(i)) : e[Len(Header(i)) + k] = Content(i)[k]
      <4>1. Header(i) \in Seq(Units) /\ Content(i) \in Seq(Units)
        BY <2>3, <2>4
      <4> QED
        BY <4>1, Joined
    <3> QED
      BY <2>3, <2>4, <3>1
  <2>6. \A k \in 1 .. 3 : e[k] = EntryAt(i, k)
    BY <2>4, <2>5
  <2>7. \A k \in 1 .. s + 2 : e[3 + k] = EntryAt(i, 3 + k)
    <3> SUFFICES ASSUME NEW k \in 1 .. s + 2 PROVE e[3 + k] = EntryAt(i, 3 + k)
      OBVIOUS
    <3>1. CASE k = 1
      BY <1>0, <2>2, <2>3, <2>5, <3>1 DEF EntryAt, What
    <3>2. CASE k = s + 2
      BY <1>0, <2>2, <2>3, <2>5, <3>2 DEF EntryAt, What
    <3>3. CASE k # 1 /\ k # s + 2
      <4>1. PICK j \in 1 .. s : k = 1 + j
        <5>1. k - 1 \in 1 .. s /\ k = 1 + (k - 1)
          BY <2>2, <3>3
        <5> QED
          BY <5>1
      <4>2. e[3 + k] = Unit("Data", i)
        BY <2>3, <2>5, <4>1
      <4>3. EntryAt(i, 3 + k) = Unit("Data", i)
        BY <1>0, <2>2, <4>1 DEF EntryAt, What
      <4> QED
        BY <4>2, <4>3
    <3> QED
      BY <3>1, <3>2, <3>3
  <2>8. ASSUME NEW k \in 1 .. Len(e) PROVE e[k] = EntryAt(i, k)
    <3>1. k \in 1 .. 3 \/ \E j \in 1 .. s + 2 : k = 3 + j
      <4>1. k \in Int /\ (k <= 3 \/ (k - 3 \in 1 .. s + 2 /\ k = 3 + (k - 3)))
        BY <2>2, <2>5
      <4> QED
        BY <4>1
    <3> QED
      BY <2>6, <2>7, <3>1
  <2>9. Len(e) = EntryLen(fr, i)
    BY <1>0, <2>2, <2>5
  <2> QED
    BY <2>5, <2>8, <2>9
<1> QED
  BY <1>1, <1>2

LEMMA PrologueFact ==
  /\ Prologue \in Seq(Units) /\ Len(Prologue) = EntryLen(TRUE, 0)
  /\ \A k \in 1 .. Len(Prologue) : Prologue[k] = EntryAt(0, k)
<1>1. PICK a, b, c : a = Unit("ZeroBegin", 0) /\ b = Unit("ZeroEnd", 0) /\ c = Unit("Pax", 0)
  OBVIOUS
<1>2. Prologue = <<a, b>> \o <<c>>
  BY <1>1 DEF Prologue, ZeroFrame
<1>3. a \in Units /\ b \in Units /\ c \in Units
  BY <1>1 DEF Units, OfArchive, Unit
<1>4. EntryAt(0, 1) = a /\ EntryAt(0, 2) = b /\ EntryAt(0, 3) = c /\ EntryLen(TRUE, 0) = 3
  BY <1>1 DEF EntryAt, EntryLen
<1>5. <<a, b>> \in Seq(Units) /\ <<c>> \in Seq(Units) /\ Len(<<a, b>>) = 2 /\ Len(<<c>>) = 1
  BY <1>3
<1>6. /\ Prologue \in Seq(Units) /\ Len(Prologue) = 2 + 1
      /\ \A k \in 1 .. 2 : Prologue[k] = <<a, b>>[k]
      /\ \A k \in 1 .. 1 : Prologue[2 + k] = <<c>>[k]
  <2>1. PICK x, y : x = <<a, b>> /\ y = <<c>>
    OBVIOUS
  <2> QED
    BY <1>2, <1>5, <2>1, Joined
<1>7. Prologue[1] = a /\ Prologue[2] = b /\ Prologue[3] = c
  <2>1. Prologue[1] = a /\ Prologue[2] = b
    BY <1>6
  <2>2. Prologue[2 + 1] = <<c>>[1]
    BY <1>6
  <2> QED
    BY <2>1, <2>2
<1>8. \A k \in 1 .. 2 + 1 : k = 1 \/ k = 2 \/ k = 3
  OBVIOUS
<1>9. \A k \in 1 .. 2 + 1 : Prologue[k] = EntryAt(0, k)
  BY <1>4, <1>7, <1>8
<1>10. Len(Prologue) = 3
  BY <1>6
<1> QED
  BY <1>4, <1>6, <1>9, <1>10

(* One unit more is in the file or, without frames, is none of those that  *)
(* are written.                                                            *)
LEMMA WrittenFact ==
  ASSUME NEW fr \in BOOLEAN, NEW i \in Numbers \cup {0}
  PROVE  /\ EntryLen(fr, i) \in Nat /\ SizeIn(fr, i) \in Nat
         /\ Written(fr, i, 0) = 0
         /\ \A c \in 0 .. EntryLen(fr, i) : Written(fr, i, c) \in 0 .. SizeIn(fr, i)
         /\ \A c \in 0 .. EntryLen(fr, i) - 1 :
              LET u == EntryAt(i, c + 1)
              IN  IF fr \/ u.what \in {"HeadData", "Data"}
                  THEN /\ Written(fr, i, c + 1) = Written(fr, i, c) + 1
                       /\ DataAt(fr, i, Written(fr, i, c + 1)) = u
                  ELSE Written(fr, i, c + 1) = Written(fr, i, c)
<1>1. CASE i = 0
  BY <1>1 DEF EntryLen, SizeIn, Written, DataAt, EntryAt, Unit
<1>2. CASE i > 0 /\ fr
  <2>1. Body(i) \in Nat
    BY <1>2, AddFact
  <2> QED
    BY <1>2, <2>1 DEF EntryLen, SizeIn, Written, DataAt
<1>3. CASE i > 0 /\ ~fr
  <2>1. Body(i) \in Nat /\ (Body(i) = 0 \/ Body(i) > 2)
    BY <1>3, AddFact
  <2>2. EntryLen(fr, i) = 3 + Body(i)
    BY <1>3 DEF EntryLen
  <2>3. SizeIn(fr, i) = IF Body(i) = 0 THEN 1 ELSE Body(i) - 1
    BY <1>3, <2>1, <2>2 DEF SizeIn, Written
  <2>4. \A c \in 0 .. EntryLen(fr, i) : Written(fr, i, c) \in 0 .. SizeIn(fr, i)
    BY <1>3, <2>1, <2>2, <2>3 DEF Written
  <2>5. ASSUME NEW c \in 0 .. EntryLen(fr, i) - 1
        PROVE  LET u == EntryAt(i, c + 1)
               IN  IF u.what \in {"HeadData", "Data"}
                   THEN /\ Written(fr, i, c + 1) = Written(fr, i, c) + 1
                        /\ DataAt(fr, i, Written(fr, i, c + 1)) = u
                   ELSE Written(fr, i, c + 1) = Written(fr, i, c)
    BY <1>3, <2>1, <2>2 DEF Written, DataAt, EntryAt, What, Unit
  <2> QED
    BY <1>3, <2>1, <2>2, <2>3, <2>4, <2>5 DEF Written
<1> QED
  BY <1>1, <1>2, <1>3 DEF Numbers

-----------------------------------------------------------------------------
(* The file while it is written.                                           *)
LEMMA FileFact ==
  ASSUME NEW tk \in Seq(Numbers), NEW fr \in BOOLEAN
  PROVE  /\ Len(tk) \in Nat
         /\ \A n \in 0 .. Len(tk) : /\ File(tk, n) \in Numbers \cup {0}
                                    /\ SizeIn(fr, File(tk, n)) \in Nat
                                    /\ EntryLen(fr, File(tk, n)) \in Nat
         /\ \A n \in 1 .. Len(tk) : File(tk, n) = tk[n] /\ tk[n] \in Numbers
<1>1. Len(tk) \in Nat /\ \A n \in 1 .. Len(tk) : tk[n] \in Numbers
  BY LenProperties, ElementOfSeq
<1>2. \A n \in 0 .. Len(tk) : File(tk, n) \in Numbers \cup {0}
  BY <1>1 DEF File
<1>3. \A n \in 1 .. Len(tk) : File(tk, n) = tk[n]
  BY <1>1 DEF File
<1> QED
  BY <1>1, <1>2, <1>3, WrittenFact

LEMMA StartFact ==
  ASSUME NEW fr \in BOOLEAN
  PROVE  \E h : /\ Places(fr, <<>>, h)
                /\ Filled(fr, <<>>, IF fr THEN Prologue ELSE <<>>, FALSE, h, <<>>)
<1> DEFINE z == SizeIn(fr, 0)
<1> DEFINE h == [n \in 0 .. 1 |-> IF n = 0 THEN 0 ELSE z]
<1> DEFINE td == IF fr THEN Prologue ELSE <<>>
<1>1. z \in Nat /\ EntryLen(fr, 0) \in Nat /\ Written(fr, 0, 0) = 0
  BY WrittenFact
<1>2. Len(<<>>) = 0 /\ File(<<>>, 0) = 0 /\ LastFile(<<>>) = 0
  BY DEF File, LastFile
<1>3. Len(td) = EntryLen(fr, 0) /\ \A k \in 1 .. Len(td) : td[k] = EntryAt(0, k)
  <2>1. CASE fr
    BY <2>1, PrologueFact
  <2>2. CASE ~fr
    BY <2>2 DEF EntryLen
  <2> QED
    BY <2>1, <2>2
<1>4. h \in [0 .. 1 -> Nat] /\ h[0] = 0 /\ h[1] = z
  BY <1>1
<1> HIDE DEF h, z, td
<1>5. Places(fr, <<>>, h)
  <2>1. \A n \in 0 .. 1 : n = 0 \/ n = 1
    OBVIOUS
  <2> QED
    BY <1>1, <1>2, <1>4, <2>1 DEF Places, z
<1>6. Passed(fr, <<>>, td) = 0
  BY <1>1, <1>2, <1>3 DEF Passed
<1>7. Filled(fr, <<>>, td, FALSE, h, <<>>)
  BY <1>1, <1>2, <1>3, <1>4, <1>6 DEF Filled, z
<1> QED
  BY <1>5, <1>7 DEF td

(* A file is taken when the entry before it is complete.                   *)
MoreTaken(fr, tk, i, h, dt) ==
  \E g : /\ Places(fr, Append(tk, i), g)
         /\ Filled(fr, Append(tk, i), Header(i) \o Content(i), FALSE, g, dt)
         /\ \A n \in 0 .. Len(tk) + 1 : g[n] = h[n]

LEMMA TakeFact ==
  ASSUME NEW fr \in BOOLEAN, NEW tk \in Seq(Numbers), NEW h, NEW dt \in Seq(Units),
         Places(fr, tk, h), Filled(fr, tk, <<>>, FALSE, h, dt), NEW i \in Numbers
  PROVE  MoreTaken(fr, tk, i, h, dt)
<1> DEFINE m == Len(tk)
<1>1. PICK t2 : t2 = Append(tk, i)
  OBVIOUS
<1>2. PICK e : e = Header(i) \o Content(i)
  OBVIOUS
<1>3. /\ t2 \in Seq(Numbers) /\ Len(t2) = m + 1 /\ t2[m + 1] = i
      /\ \A n \in 1 .. m : t2[n] = tk[n]
  BY <1>1, AppendProperties
<1>4. m \in Nat /\ Len(dt) \in Nat
  BY LenProperties
<1>5. /\ \A n \in 0 .. m : File(t2, n) = File(tk, n)
      /\ File(t2, m + 1) = i /\ LastFile(t2) = i
  BY <1>3, <1>4 DEF File, LastFile
<1>6. /\ e \in Seq(Units) /\ Len(e) = EntryLen(fr, i)
      /\ \A k \in 1 .. Len(e) : e[k] = EntryAt(i, k)
  BY <1>2, EntryFact
<1>7. PICK z : z = SizeIn(fr, i)
  OBVIOUS
<1>8. z \in Nat /\ EntryLen(fr, i) \in Nat /\ Written(fr, i, 0) = 0
  BY <1>7, WrittenFact
<1>9. /\ h \in [0 .. m + 1 -> Nat] /\ h[0] = 0
      /\ \A n \in 0 .. m : h[n + 1] = h[n] + SizeIn(fr, File(tk, n))
      /\ \A n, k \in 0 .. m + 1 : n <= k => h[n] <= h[k]
  BY DEF Places
<1>10. PICK g : g = [n \in 0 .. m + 2 |-> IF n <= m + 1 THEN h[n] ELSE h[m + 1] + z]
  OBVIOUS
<1>11. /\ g \in [0 .. m + 2 -> Nat] /\ g[m + 2] = h[m + 1] + z
       /\ \A n \in 0 .. m + 1 : g[n] = h[n]
  <2>1. ASSUME NEW n \in 0 .. m + 2
        PROVE  (IF n <= m + 1 THEN h[n] ELSE h[m + 1] + z) \in Nat
    <3>1. h[m + 1] \in Nat
      BY <1>4, <1>9
    <3>2. n <= m + 1 => h[n] \in Nat
      BY <1>4, <1>9
    <3> QED
      BY <1>8, <3>1, <3>2
  <2>2. m + 2 \in 0 .. m + 2 /\ ~(m + 2 <= m + 1)
    BY <1>4
  <2>3. \A n \in 0 .. m + 1 : n \in 0 .. m + 2 /\ n <= m + 1
    BY <1>4
  <2> QED
    BY <1>10, <2>1, <2>2, <2>3
<1>12. Places(fr, t2, g)
  <2>1. g \in [0 .. Len(t2) + 1 -> Nat] /\ g[0] = 0
    BY <1>3, <1>4, <1>9, <1>11
  <2>2. ASSUME NEW n \in 0 .. Len(t2) PROVE g[n + 1] = g[n] + SizeIn(fr, File(t2, n))
    <3>1. CASE n \in 0 .. m
      BY <1>4, <1>5, <1>9, <1>11, <3>1
    <3>2. CASE n = m + 1
      BY <1>4, <1>5, <1>7, <1>11, <3>2
    <3> QED
      BY <1>3, <1>4, <3>1, <3>2
  <2>3. ASSUME NEW n \in 0 .. Len(t2) + 1, NEW k \in 0 .. Len(t2) + 1, n <= k
        PROVE  g[n] <= g[k]
    <3>1. CASE k <= m + 1
      BY <1>3, <1>4, <1>9, <1>11, <2>3, <3>1
    <3>2. CASE k = m + 2 /\ n <= m + 1
      <4>1. n \in 0 .. m + 1 /\ m + 1 \in 0 .. m + 1
        BY <1>3, <1>4, <3>2
      <4>2. h[n] <= h[m + 1] /\ h[n] \in Nat /\ h[m + 1] \in Nat
        BY <1>4, <1>9, <4>1
      <4> QED
        BY <1>8, <1>11, <3>2, <4>1, <4>2
    <3>3. CASE k = m + 2 /\ n = m + 2
      BY <1>4, <1>11, <3>3
    <3> QED
      BY <1>3, <1>4, <2>3, <3>1, <3>2, <3>3
  <2> QED
    BY <2>1, <2>2, <2>3 DEF Places
<1>13. Filled(fr, t2, e, FALSE, g, dt)
  <2>1. Passed(fr, t2, e) = 0
    BY <1>5, <1>6, <1>8 DEF Passed
  <2>2. \A k \in 1 .. Len(e) : e[k] = EntryAt(LastFile(t2), 0 + k)
    BY <1>5, <1>6, <1>8
  <2>3. /\ Len(dt) = h[m] + Written(fr, LastFile(tk), Passed(fr, tk, <<>>))
        /\ \A n \in 0 .. m : \A j \in 1 .. SizeIn(fr, File(tk, n)) :
             h[n] + j <= Len(dt) => dt[h[n] + j] = DataAt(fr, File(tk, n), j)
    <3>1. Len(dt) = h[m] + Written(fr, LastFile(tk), Passed(fr, tk, <<>>)) + 0
      BY DEF Filled
    <3>2. Len(dt) = h[m] + Written(fr, LastFile(tk), Passed(fr, tk, <<>>))
      <4>1. LastFile(tk) \in Numbers \cup {0} /\ EntryLen(fr, LastFile(tk)) \in Nat
        BY <1>4, FileFact DEF LastFile
      <4>2. Passed(fr, tk, <<>>) = EntryLen(fr, LastFile(tk))
        BY <4>1 DEF Passed
      <4>3. Written(fr, LastFile(tk), Passed(fr, tk, <<>>)) \in Nat
        BY <4>1, <4>2, WrittenFact DEF SizeIn
      <4>4. h[m] \in Nat
        BY <1>4, <1>9
      <4> QED
        BY <3>1, <4>3, <4>4
    <3> QED
      BY <3>2 DEF Filled
  <2>4. Len(dt) = h[m + 1]
    <3>1. Passed(fr, tk, <<>>) = EntryLen(fr, LastFile(tk))
      BY <1>4, FileFact DEF Passed, LastFile
    <3> QED
      BY <1>4, <1>9, <2>3, <3>1 DEF SizeIn, LastFile
  <2>5. Len(dt) = g[m + 1] + Written(fr, i, 0) + 0
    BY <1>4, <1>8, <1>9, <1>11, <2>4
  <2>6. ASSUME NEW n \in 0 .. m + 1, NEW j \in 1 .. SizeIn(fr, File(t2, n)),
               g[n] + j <= Len(dt)
        PROVE  dt[g[n] + j] = DataAt(fr, File(t2, n), j)
    <3>1. CASE n \in 0 .. m
      BY <1>4, <1>5, <1>11, <2>3, <2>6, <3>1
    <3>2. CASE n = m + 1
      BY <1>4, <1>5, <1>8, <1>9, <1>11, <2>4, <2>6, <3>2
    <3> QED
      BY <1>4, <3>1, <3>2
  <2> QED
    BY <1>3, <1>5, <2>1, <2>2, <2>5, <2>6 DEF Filled
<1> QED
  BY <1>1, <1>2, <1>11, <1>12, <1>13 DEF MoreTaken

(* The beginning of an entry not yet written is behind what is.            *)
LEMMA BeforeFact ==
  ASSUME NEW fr \in BOOLEAN, NEW tk \in Seq(Numbers), NEW h, Places(fr, tk, h),
         NEW n \in 0 .. Len(tk), NEW j \in 1 .. SizeIn(fr, File(tk, n))
  PROVE  /\ h[n] \in Nat /\ h[n] + j \in Nat /\ h[n] + j <= h[n + 1]
         /\ n < Len(tk) => h[n] + j <= h[Len(tk)]
<1>1. Len(tk) \in Nat /\ SizeIn(fr, File(tk, n)) \in Nat
  BY FileFact
<1>2. n \in 0 .. Len(tk) + 1 /\ n + 1 \in 0 .. Len(tk) + 1 /\ Len(tk) \in 0 .. Len(tk) + 1
  BY <1>1
<1>3. h[n] \in Nat /\ h[n + 1] \in Nat /\ h[Len(tk)] \in Nat
  BY <1>2 DEF Places
<1>4. h[n + 1] = h[n] + SizeIn(fr, File(tk, n))
  BY DEF Places
<1>5. n < Len(tk) => h[n + 1] <= h[Len(tk)]
  BY <1>1, <1>2 DEF Places
<1> QED
  BY <1>1, <1>3, <1>4, <1>5

(* How far the packer has come with the last entry.                        *)
LEMMA LengthFact ==
  ASSUME NEW fr \in BOOLEAN, NEW tk \in Seq(Numbers), NEW td \in Seq(Units), NEW ok \in BOOLEAN,
         NEW h, NEW dt \in Seq(Units), Places(fr, tk, h), Filled(fr, tk, td, ok, h, dt)
  PROVE  /\ Passed(fr, tk, td) \in 0 .. EntryLen(fr, LastFile(tk))
         /\ Written(fr, LastFile(tk), Passed(fr, tk, td)) \in 0 .. SizeIn(fr, LastFile(tk))
         /\ h[Len(tk)] \in Nat
         /\ h[Len(tk) + 1] = h[Len(tk)] + SizeIn(fr, LastFile(tk))
         /\ Len(dt) <= h[Len(tk) + 1] + (IF ok /\ fr THEN 1 ELSE 0)
         /\ ok => Len(dt) = h[Len(tk) + 1] + (IF fr THEN 1 ELSE 0)
<1> DEFINE i == LastFile(tk)
<1>1. /\ Len(tk) \in Nat /\ i \in Numbers \cup {0} /\ EntryLen(fr, i) \in Nat
      /\ SizeIn(fr, i) \in Nat /\ Len(td) \in Nat
  BY FileFact, LenProperties DEF LastFile
<1>2. Passed(fr, tk, td) \in 0 .. EntryLen(fr, i)
  BY <1>1 DEF Passed, Filled
<1>3. Written(fr, i, Passed(fr, tk, td)) \in 0 .. SizeIn(fr, i)
  BY <1>1, <1>2, WrittenFact
<1>4. h[Len(tk)] \in Nat /\ h[Len(tk) + 1] = h[Len(tk)] + SizeIn(fr, i)
  <2>1. Len(tk) \in 0 .. Len(tk) /\ Len(tk) \in 0 .. Len(tk) + 1
    BY <1>1
  <2> QED
    BY <2>1 DEF Places, LastFile
<1>5. Len(dt) = h[Len(tk)] + Written(fr, i, Passed(fr, tk, td)) + (IF ok /\ fr THEN 1 ELSE 0)
  BY DEF Filled
<1>6. ok => Passed(fr, tk, td) = EntryLen(fr, i)
  <2>1. ok => Len(td) = 0
    BY DEF Filled
  <2> QED
    BY <1>1, <2>1 DEF Passed
<1>7. ok => Written(fr, i, Passed(fr, tk, td)) = SizeIn(fr, i)
  BY <1>6 DEF SizeIn
<1> HIDE DEF i
<1>8. PICK w \in 0 .. SizeIn(fr, i) : w = Written(fr, i, Passed(fr, tk, td))
  BY <1>3
<1>9. Len(dt) <= h[Len(tk) + 1] + (IF ok /\ fr THEN 1 ELSE 0)
  BY <1>1, <1>4, <1>5, <1>8
<1>10. ok => Len(dt) = h[Len(tk) + 1] + (IF fr THEN 1 ELSE 0)
  BY <1>1, <1>4, <1>5, <1>7, <1>8
<1> QED
  BY <1>2, <1>3, <1>4, <1>9, <1>10 DEF i

(* The next unit is written, or is none of those that are.                 *)
LEMMA WriteFact ==
  ASSUME NEW fr \in BOOLEAN, NEW tk \in Seq(Numbers), NEW td \in Seq(Units), td # <<>>,
         NEW h, NEW dt \in Seq(Units), Places(fr, tk, h), Filled(fr, tk, td, FALSE, h, dt),
         NEW d2, d2 = IF fr \/ Head(td).what \in {"HeadData", "Data"}
                      THEN Append(dt, Head(td)) ELSE dt
  PROVE  Filled(fr, tk, Tail(td), FALSE, h, d2)
<1> DEFINE m == Len(tk)
<1> DEFINE i == LastFile(tk)
<1> DEFINE c == Passed(fr, tk, td)
<1>1. /\ m \in Nat /\ i \in Numbers \cup {0} /\ EntryLen(fr, i) \in Nat /\ SizeIn(fr, i) \in Nat
      /\ Len(dt) \in Nat
  BY FileFact, LenProperties DEF LastFile
<1>2. PICK t2, u : t2 = Tail(td) /\ u = Head(td)
  OBVIOUS
<1>3. /\ t2 \in Seq(Units) /\ Len(t2) = Len(td) - 1 /\ Len(td) \in Nat /\ Len(td) > 0
      /\ u \in Units /\ u = td[1] /\ \A k \in 1 .. Len(t2) : t2[k] = td[k + 1]
  BY <1>2, HeadTailProperties, LenProperties, EmptySeq
<1>4. c \in 0 .. EntryLen(fr, i) - 1 /\ Passed(fr, tk, t2) = c + 1 /\ c + 1 \in 0 .. EntryLen(fr, i)
  BY <1>1, <1>3 DEF Passed, Filled
<1>5. u = EntryAt(i, c + 1)
  BY <1>3 DEF Filled
<1> HIDE DEF i, c, m
<1>6. /\ Written(fr, i, c) \in Nat
      /\ IF fr \/ u.what \in {"HeadData", "Data"}
         THEN /\ Written(fr, i, c + 1) = Written(fr, i, c) + 1
              /\ DataAt(fr, i, Written(fr, i, c + 1)) = u
         ELSE Written(fr, i, c + 1) = Written(fr, i, c)
  <2>1. c \in 0 .. EntryLen(fr, i)
    BY <1>1, <1>4
  <2> QED
    BY <1>1, <1>4, <1>5, <2>1, WrittenFact
<1>7. ASSUME NEW k \in 1 .. Len(t2) PROVE t2[k] = EntryAt(i, c + 1 + k)
  <2>1. k + 1 \in 1 .. Len(td) /\ c + (k + 1) = c + 1 + k
    BY <1>1, <1>3, <1>4
  <2>2. td[k + 1] = EntryAt(i, c + (k + 1))
    BY <2>1 DEF Filled, i, c
  <2> QED
    BY <1>3, <2>1, <2>2
<1>8. h[m] \in Nat /\ Len(dt) = h[m] + Written(fr, i, c)
  <2>1. Len(dt) = h[m] + Written(fr, i, c) + 0
    BY DEF Filled, i, c, m
  <2>2. h[m] \in Nat
    BY <1>1 DEF Places, m
  <2> QED
    BY <1>6, <2>1, <2>2
<1>9. \A n \in 0 .. m : \A j \in 1 .. SizeIn(fr, File(tk, n)) :
        h[n] + j <= Len(dt) => dt[h[n] + j] = DataAt(fr, File(tk, n), j)
  BY DEF Filled, m
<1>10. CASE fr \/ u.what \in {"HeadData", "Data"}
  <2>1. /\ Len(d2) = Len(dt) + 1 /\ d2[Len(dt) + 1] = u
        /\ \A k \in 1 .. Len(dt) : d2[k] = dt[k]
    BY <1>2, <1>3, <1>10, AppendProperties
  <2>2. Len(d2) = h[m] + Written(fr, i, c + 1) + 0
    BY <1>6, <1>8, <1>10, <2>1
  <2>3. ASSUME NEW n \in 0 .. m, NEW j \in 1 .. SizeIn(fr, File(tk, n)), h[n] + j <= Len(d2)
        PROVE  d2[h[n] + j] = DataAt(fr, File(tk, n), j)
    <3>1. /\ h[n] \in Nat /\ h[n] + j \in Nat
          /\ n < m => h[n] + j <= h[m]
      BY BeforeFact DEF m
    <3>2. CASE h[n] + j <= Len(dt)
      <4>1. h[n] + j \in 1 .. Len(dt)
        BY <3>1, <3>2, <1>1
      <4> QED
        BY <1>9, <2>1, <3>2, <4>1
    <3>3. CASE h[n] + j = Len(dt) + 1
      <4>1. n = m
        BY <1>1, <1>6, <1>8, <3>1, <3>3
      <4>2. j = Written(fr, i, c + 1)
        <5>1. h[m] + j = h[m] + Written(fr, i, c) + 1 /\ j \in Int
          BY <1>8, <3>3, <4>1
        <5>2. Written(fr, i, c + 1) = Written(fr, i, c) + 1 /\ Written(fr, i, c) \in Nat
          BY <1>6, <1>10
        <5> QED
          BY <1>8, <5>1, <5>2
      <4>3. File(tk, n) = i
        BY <4>1 DEF i, m, LastFile
      <4> QED
        BY <1>6, <1>10, <2>1, <3>3, <4>2, <4>3
    <3> QED
      BY <1>1, <2>1, <2>3, <3>1, <3>2, <3>3
  <2> QED
    <3>1. /\ Passed(fr, tk, t2) >= 0
          /\ \A k \in 1 .. Len(t2) : t2[k] = EntryAt(i, Passed(fr, tk, t2) + k)
          /\ Len(d2) = h[m] + Written(fr, i, Passed(fr, tk, t2)) + 0
      BY <1>1, <1>4, <1>7, <2>2
    <3> QED
      BY <1>2, <2>3, <3>1 DEF Filled, i, m
<1>11. CASE ~(fr \/ u.what \in {"HeadData", "Data"})
  <2>1. d2 = dt
    BY <1>2, <1>11
  <2>2. Len(d2) = h[m] + Written(fr, i, c + 1) + 0
    BY <1>6, <1>8, <1>11, <2>1
  <2> QED
    <3>1. /\ Passed(fr, tk, t2) >= 0
          /\ \A k \in 1 .. Len(t2) : t2[k] = EntryAt(i, Passed(fr, tk, t2) + k)
          /\ Len(d2) = h[m] + Written(fr, i, Passed(fr, tk, t2)) + 0
      BY <1>1, <1>4, <1>7, <2>2
    <3> QED
      BY <1>2, <1>9, <2>1, <3>1 DEF Filled, i, m
<1> QED
  BY <1>10, <1>11

(* All is packed, and a framed archive gets its footer.                    *)
LEMMA FinishFact ==
  ASSUME NEW fr \in BOOLEAN, NEW tk \in Seq(Numbers), NEW h, NEW dt \in Seq(Units),
         Places(fr, tk, h), Filled(fr, tk, <<>>, FALSE, h, dt),
         NEW d2, d2 = IF fr THEN Append(dt, Unit("Footer", 0)) ELSE dt
  PROVE  Filled(fr, tk, <<>>, TRUE, h, d2)
<1> DEFINE m == Len(tk)
<1> DEFINE i == LastFile(tk)
<1> DEFINE w == Written(fr, i, Passed(fr, tk, <<>>))
<1>0. <<>> \in Seq(Units) /\ Len(dt) \in Nat /\ m \in Nat /\ Unit("Footer", 0) \in Units
  BY EmptySeq, LenProperties DEF Units, OfArchive, Unit
<1>1. /\ Passed(fr, tk, <<>>) >= 0
      /\ Len(dt) = h[m] + w + 0
      /\ \A n \in 0 .. m : \A j \in 1 .. SizeIn(fr, File(tk, n)) :
           h[n] + j <= Len(dt) => dt[h[n] + j] = DataAt(fr, File(tk, n), j)
  BY DEF Filled
<1>2. w \in 0 .. SizeIn(fr, i) /\ h[m] \in Nat /\ SizeIn(fr, i) \in Nat
      /\ h[m + 1] = h[m] + SizeIn(fr, i)
  <2>1. SizeIn(fr, i) \in Nat
    BY <1>0, FileFact DEF LastFile
  <2>2. Passed(fr, tk, <<>>) = EntryLen(fr, i)
    BY <1>0, FileFact DEF Passed, LastFile
  <2>3. m \in 0 .. m /\ m \in 0 .. m + 1
    BY <1>0
  <2>4. h[m] \in Nat /\ h[m + 1] = h[m] + SizeIn(fr, i)
    BY <2>3 DEF Places, LastFile
  <2>5. w = SizeIn(fr, i)
    BY <2>2 DEF SizeIn
  <2> QED
    BY <2>1, <2>4, <2>5
<1>3. w = SizeIn(fr, i)
  <2>1. Passed(fr, tk, <<>>) = EntryLen(fr, i)
    BY <1>0, FileFact DEF Passed, LastFile
  <2> QED
    BY <2>1 DEF SizeIn
<1> HIDE DEF w, i
<1>4. CASE fr
  <2>1. /\ Len(d2) = Len(dt) + 1 /\ d2[Len(dt) + 1] = Unit("Footer", 0)
        /\ \A k \in 1 .. Len(dt) : d2[k] = dt[k]
    BY <1>0, <1>4, AppendProperties
  <2>2. Len(d2) = h[m] + w + 1
    BY <1>1, <1>2, <2>1
  <2>3. ASSUME NEW n \in 0 .. m, NEW j \in 1 .. SizeIn(fr, File(tk, n)), h[n] + j <= Len(d2)
        PROVE  d2[h[n] + j] = DataAt(fr, File(tk, n), j)
    <3>1. h[n] \in Nat /\ h[n] + j \in Nat /\ h[n] + j <= h[n + 1] /\ j > 0
      BY BeforeFact, FileFact
    <3>2. h[n + 1] <= h[m + 1] /\ h[n + 1] \in Nat
      <4>1. n + 1 \in 0 .. m + 1 /\ m + 1 \in 0 .. m + 1 /\ n + 1 <= m + 1
        BY <1>0
      <4> QED
        BY <4>1 DEF Places
    <3>3. h[n] + j \in 1 .. Len(dt)
      BY <1>0, <1>1, <1>2, <1>3, <3>1, <3>2
    <3> QED
      BY <1>1, <2>1, <3>3
  <2> QED
    BY <1>0, <1>1, <1>4, <2>1, <2>2, <2>3 DEF Filled, i, w
<1>5. CASE ~fr
  BY <1>1, <1>5 DEF Filled, i, w
<1> QED
  BY <1>4, <1>5

-----------------------------------------------------------------------------
(* The steps of the packers.                                               *)
LEMMA FramedType == ASSUME NEW p, Types PROVE Framed \in BOOLEAN /\ Ok(p) \in BOOLEAN
  BY DEF Framed, Ok

(* Everybody else's state is as it was.                                    *)
LEMMA PackKeeps ==
  ASSUME IInv, Types, NEW p \in Packers, Pack(p), NEW q \in Packers, q # p
  PROVE  /\ taken'[q] = taken[q] /\ todo'[q] = todo[q] /\ result'[q] = result[q]
         /\ pc'[q] = pc[q] /\ mine'[q] = mine[q] /\ next'[q] = next[q]
<1>1. /\ taken' = taken \/ \E v : taken' = [taken EXCEPT ![p] = v]
      /\ todo' = todo \/ \E v : todo' = [todo EXCEPT ![p] = v]
      /\ result' = result \/ \E v : result' = [result EXCEPT ![p] = v]
      /\ pc' = pc \/ \E v : pc' = [pc EXCEPT ![p] = v]
      /\ mine' = mine \/ \E v : mine' = [mine EXCEPT ![p] = v]
      /\ next' = next \/ \E v : next' = [next EXCEPT ![p] = v]
  BY DEF Pack, Check, CreateArchive, SkipFile, TakeFile, WriteUnit, Fail, Finish, Close, Leave
<1> QED
  BY <1>1 DEF Types, IInv, Shape

LEMMA PackTypes ==
  ASSUME IInv, Types, NEW p \in Packers, Pack(p) PROVE Types'
<1>0. /\ kind \in Kinds /\ data \in Seq(Units) /\ reading \in BOOLEAN
      /\ todo \in [Packers -> Seq(Units)]
      /\ taken \in [Packers -> Seq(Numbers)]
      /\ next \in [Packers -> 1 .. Len(AddList) + 1]
  BY DEF Types
<1>1. kind' = kind /\ reading' = reading
  BY DEF Pack, Check, CreateArchive, SkipFile, TakeFile, WriteUnit, Fail, Finish, Close
<1>2. CASE Check(p) \/ Fail(p) \/ Close(p)
  BY <1>0, <1>1, <1>2 DEF Check, Fail, Close, Types, fileVars
<1>3. CASE CreateArchive(p)
  <2>1. data' = data \/ data' = <<>>
    BY <1>3 DEF CreateArchive, fileVars
  <2>2. todo' \in [Packers -> Seq(Units)]
    <3>1. (IF Framed THEN Prologue ELSE <<>>) \in Seq(Units)
      BY PrologueFact, EmptySeq
    <3> QED
      BY <1>0, <1>3, <3>1 DEF CreateArchive
  <2> QED
    BY <1>0, <1>1, <1>3, <2>1, <2>2, EmptySeq DEF CreateArchive, Types
<1>4. CASE SkipFile(p)
  BY <1>0, <1>1, <1>4, AddFact DEF SkipFile, Types, fileVars
<1>5. CASE TakeFile(p)
  <2>1. next[p] \in Numbers /\ next[p] + 1 \in 1 .. Len(AddList) + 1
    BY <1>0, <1>5, AddFact DEF TakeFile, Numbers
  <2>2. Header(next[p]) \o Content(next[p]) \in Seq(Units)
    BY <2>1, EntryFact
  <2>3. Append(taken[p], next[p]) \in Seq(Numbers)
    BY <1>0, <2>1, AppendProperties
  <2> QED
    BY <1>0, <1>1, <1>5, <2>1, <2>2, <2>3 DEF TakeFile, Types, fileVars
<1>6. CASE WriteUnit(p)
  <2>1. Head(todo[p]) \in Units /\ Tail(todo[p]) \in Seq(Units)
    BY <1>0, <1>6, HeadTailProperties DEF WriteUnit
  <2>2. data' \in Seq(Units)
    BY <1>0, <1>6, <2>1, AppendProperties DEF WriteUnit, Write
  <2> QED
    BY <1>0, <1>1, <1>6, <2>1, <2>2 DEF WriteUnit, Types
<1>7. CASE Finish(p)
  <2>1. Head(Footer) \in Units
    BY DEF Footer, Units, OfArchive, Unit
  <2>2. data' \in Seq(Units)
    BY <1>0, <1>7, <2>1, AppendProperties DEF Finish, Write
  <2> QED
    BY <1>0, <1>1, <1>7, <2>2 DEF Finish, Types
<1> QED
  BY <1>2, <1>3, <1>4, <1>5, <1>6, <1>7 DEF Pack

LEMMA PackSingle ==
  ASSUME IInv, ScanTypes, Single, NEW p \in Packers, Pack(p), UNCHANGED scanVars PROVE Single'
<1>0. /\ made \in Nat /\ mine \in [Packers -> Nat] /\ seen.made <= made
      /\ \A q \in Packers : mine[q] <= made
      /\ scan' = scan /\ seen' = seen
  BY DEF IInv, Shape, Creations, Single, scanVars
<1>1. CASE UNCHANGED <<made, mine>>
  <2>1. disk' # "absent" => made > 0
    <3>1. disk' = disk \/ disk' = "absent" \/ owner = p \/ made' = made + 1
      BY DEF Pack, Check, CreateArchive, SkipFile, TakeFile, WriteUnit, Fail, Finish, Close, fileVars
    <3>2. owner = p => disk = "present"
      BY DEF IInv, OwnerInv
    <3> QED
      BY <1>0, <1>1, <3>1, <3>2 DEF Single
  <2> QED
    BY <1>0, <1>1, <2>1 DEF Single
<1>2. CASE ~(UNCHANGED <<made, mine>>)
  <2>1. made' = made + 1 /\ mine' = [mine EXCEPT ![p] = made + 1]
    BY <1>2 DEF Pack, Check, CreateArchive, SkipFile, TakeFile, WriteUnit, Fail, Finish, Close, fileVars
  <2>2. mine'[p] = made + 1 /\ \A q \in Packers : q # p => mine'[q] = mine[q] /\ mine[q] < made + 1
    BY <1>0, <2>1
  <2>3. mine[p] = 0
    BY <1>2 DEF Pack, Check, CreateArchive, SkipFile, TakeFile, WriteUnit, Fail, Finish, Close,
                fileVars, IInv, Creations
  <2>4. ASSUME NEW n \in 1 .. made' PROVE \E q \in Packers : mine'[q] = n
    <3>1. CASE n = made + 1
      BY <2>2, <3>1
    <3>2. CASE n # made + 1
      <4>1. PICK q \in Packers : mine[q] = n
        BY <1>0, <2>1, <3>2 DEF Single
      <4> QED
        BY <1>0, <2>2, <2>3, <4>1
    <3> QED
      BY <3>1, <3>2
  <2>5. \A q, r \in Packers : mine'[q] = mine'[r] /\ mine'[q] > 0 => q = r
    BY <1>0, <2>2 DEF Single
  <2>6. seen.made \in Nat /\ seen.made <= made'
    BY <1>0, <2>1 DEF ScanTypes
  <2>7. made' > 0
    BY <1>0, <2>1
  <2> QED
    BY <1>0, <2>4, <2>5, <2>6, <2>7 DEF Single
<1> QED
  BY <1>1, <1>2

LEMMA PackProgress ==
  ASSUME IInv, Types, Progress, NEW p \in Packers, Pack(p) PROVE Progress'
<1> SUFFICES ASSUME NEW q \in Packers
             PROVE  /\ pc'[q] \in {"idle", "create"} => taken'[q] = <<>>
                    /\ pc'[q] \in {"idle", "create", "pack"} => result'[q] = "none"
                    /\ result'[q] = "ok" => next'[q] > Len(AddList) /\ todo'[q] = <<>>
  BY DEF Progress
<1>1. CASE q # p
  BY <1>1, PackKeeps DEF Progress
<1>2. CASE q = p
  <2>0. /\ pc \in [Packers -> {"idle", "create", "pack", "leave", "done", "killed"}]
        /\ result \in [Packers -> {"none", "ok", "error", "cancel"}]
        /\ next \in [Packers -> 1 .. Len(AddList) + 1] /\ todo \in [Packers -> Seq(Units)]
    BY DEF IInv, Shape, Types
  <2>1. CASE Check(p) \/ CreateArchive(p)
    BY <1>2, <2>0, <2>1 DEF Check, CreateArchive, Leave, Progress
  <2>2. CASE SkipFile(p) \/ TakeFile(p) \/ WriteUnit(p) \/ Fail(p)
    BY <1>2, <2>0, <2>2 DEF SkipFile, TakeFile, WriteUnit, Fail, Leave, Progress
  <2>3. CASE Finish(p)
    BY <1>2, <2>0, <2>3 DEF Finish, Leave, Progress
  <2>4. CASE Close(p)
    BY <1>2, <2>0, <2>4 DEF Close, Progress
  <2> QED
    BY <2>1, <2>2, <2>3, <2>4 DEF Pack
<1> QED
  BY <1>1, <1>2

LEMMA SameLaid ==
  ASSUME UNCHANGED <<kind, made, data, scanVars>>, NEW p, NEW h,
         taken'[p] = taken[p], todo'[p] = todo[p], Ok(p)' = Ok(p), Laid(p, h)
  PROVE  Laid(p, h)'
<1>1. UNCHANGED <<scan, limit, pos, listed, shown, broken, seen>>
  BY DEF scanVars
<1>2. Places(Framed, taken[p], h)'
  BY DEF Laid, Framed
<1>3. Filled(Framed, taken[p], todo[p], Ok(p), h, data)'
  BY DEF Laid, Framed
<1>4. Scanned(p, h)'
  BY <1>1 DEF Laid, Scanned, Framed
<1> QED
  BY <1>2, <1>3, <1>4 DEF Laid

(* The file and the files taken only grow while they are packed, and no    *)
(* scan takes what is there for complete.                                  *)
LEMMA GrowScanned ==
  ASSUME Types, Types', ScanTypes, UNCHANGED <<kind, made, scanVars>>, NEW p \in Packers, ~Ok(p),
         Len(data) <= Len(data'), Len(taken[p]) <= Len(taken'[p]),
         \A n \in 1 .. Len(taken[p]) : taken'[p][n] = taken[p][n],
         NEW h, NEW g, \A n \in 0 .. Len(taken[p]) + 1 : g[n] = h[n] /\ h[n] \in Nat,
         Scanned(p, h)
  PROVE  Scanned(p, g)'
<1> SUFFICES ASSUME seen.made = made
             PROVE  Scanned(p, g)'
  BY DEF Scanned, scanVars
<1>1. UNCHANGED <<scan, limit, pos, listed, shown, broken, seen>> /\ Framed' = Framed
  BY DEF scanVars, Framed
<1>2. /\ Len(data) \in Nat /\ Len(data') \in Nat /\ Len(taken[p]) \in Nat
      /\ Len(taken'[p]) \in Nat /\ Len(listed) \in Nat /\ limit \in Nat /\ pos \in Nat
  <2>1. data \in Seq(Units) /\ data' \in Seq(Units) /\ taken[p] \in Seq(Numbers)
        /\ taken'[p] \in Seq(Numbers) /\ listed \in Seq([file : Numbers, at : Nat])
    BY DEF Types, ScanTypes
  <2> QED
    BY <2>1, LenProperties DEF ScanTypes
<1>3. /\ limit <= Len(data) /\ ~seen.complete
      /\ scan \in {"type", "open"} => listed = <<>>
      /\ scan = "open" /\ Framed /\ shown # "single" => Len(data) >= 3
      /\ Len(listed) <= Len(taken[p])
      /\ \A n \in 1 .. Len(listed) :
           listed[n].file = taken[p][n] /\ (Framed => h[n + 1] <= Len(data))
      /\ scan = "items" => pos = h[Len(listed) + 1] /\ (Framed => pos <= Len(data))
      /\ ~(scan = "done" /\ shown = "items" /\ kind = "PaxZstd")
  BY DEF Scanned
<1>4. ASSUME NEW n \in 1 .. Len(listed)
      PROVE  listed[n].file = taken'[p][n] /\ (Framed => g[n + 1] <= Len(data'))
  <2>1. n \in 1 .. Len(taken[p]) /\ n + 1 \in 0 .. Len(taken[p]) + 1
    BY <1>2, <1>3
  <2>2. listed[n].file = taken'[p][n]
    BY <1>3, <2>1
  <2>3. g[n + 1] = h[n + 1] /\ h[n + 1] \in Nat
    BY <2>1
  <2>4. h[n + 1] <= Len(data) => g[n + 1] <= Len(data')
    BY <1>2, <2>3
  <2> QED
    BY <1>3, <2>2, <2>4
<1>5. scan = "items" => pos = g[Len(listed) + 1] /\ (Framed => pos <= Len(data'))
  <2>1. Len(listed) + 1 \in 0 .. Len(taken[p]) + 1
    BY <1>2, <1>3
  <2> QED
    BY <1>2, <1>3, <2>1
<1>6. limit <= Len(data') /\ Len(listed) <= Len(taken'[p])
      /\ (scan = "open" /\ Framed /\ shown # "single" => Len(data') >= 3)
  BY <1>2, <1>3
<1> QED
  BY <1>1, <1>3, <1>4, <1>5, <1>6 DEF Scanned

(* The file a packer has made is laid out as he has come along.            *)
LEMMA PackLaid ==
  ASSUME IInv, ScanInv, NEW p \in Packers, Pack(p), UNCHANGED scanVars, Types',
         NEW q \in Packers, Made(q)'
  PROVE  \E h : Laid(q, h)'
<1>0. /\ Types /\ ScanTypes /\ Single /\ Progress /\ kind' = kind /\ Framed' = Framed
      /\ Framed \in BOOLEAN
      /\ made \in Nat /\ mine \in [Packers -> Nat]
      /\ pc \in [Packers -> {"idle", "create", "pack", "leave", "done", "killed"}]
      /\ result \in [Packers -> {"none", "ok", "error", "cancel"}]
      /\ taken \in [Packers -> Seq(Numbers)] /\ todo \in [Packers -> Seq(Units)]
      /\ taken[p] \in Seq(Numbers) /\ todo[p] \in Seq(Units) /\ data \in Seq(Units)
  BY DEF ScanInv, IInv, Shape, Types, Framed, Pack, Check, CreateArchive, SkipFile, TakeFile, WriteUnit,
         Fail, Finish, Close
<1>1. CASE ~(UNCHANGED <<made, mine>>)
  <2>1. /\ pc[p] = "create" /\ made' = made + 1 /\ mine' = [mine EXCEPT ![p] = made + 1]
        /\ data' = <<>> /\ todo' = [todo EXCEPT ![p] = IF Framed THEN Prologue ELSE <<>>]
        /\ taken' = taken /\ result' = result
    BY <1>1 DEF Pack, Check, CreateArchive, SkipFile, TakeFile, WriteUnit, Fail, Finish, Close, fileVars
  <2>2. q = p
    BY <1>0, <2>1 DEF Made, Maker, IInv, Creations
  <2>3. taken'[q] = <<>> /\ Ok(q)' = FALSE /\ todo'[q] = IF Framed THEN Prologue ELSE <<>>
    BY <1>0, <2>1, <2>2 DEF Progress, Ok
  <2>4. PICK h : /\ Places(Framed, <<>>, h)
                 /\ Filled(Framed, <<>>, IF Framed THEN Prologue ELSE <<>>, FALSE, h, <<>>)
    BY <1>0, StartFact
  <2>5. Places(Framed, taken[q], h)' /\ Filled(Framed, taken[q], todo[q], Ok(q), h, data)'
    BY <1>0, <2>1, <2>3, <2>4
  <2>6. Scanned(q, h)'
    <3>1. seen'.made # made'
      BY <1>0, <2>1 DEF Single, ScanTypes, scanVars
    <3> QED
      BY <3>1 DEF Scanned
  <2> QED
    BY <2>5, <2>6 DEF Laid
<1>2. CASE UNCHANGED <<made, mine>>
  <2>1. Made(q)
    BY <1>2 DEF Made, Maker
  <2>2. PICK h : Laid(q, h)
    BY <2>1 DEF ScanInv
  <2>3. CASE q # p
    <3>1. data' = data
      <4>1. data' = data \/ pc[p] = "pack"
        BY <1>0, <1>2 DEF Pack, Check, CreateArchive, SkipFile, TakeFile, WriteUnit, Fail, Finish, Close, fileVars
      <4>2. pc[p] = "pack" => mine[p] = made
        BY DEF IInv, OwnerInv
      <4> QED
        BY <2>1, <2>3, <4>1, <4>2 DEF Single, Made, Maker, ScanInv
    <3>2. /\ taken'[q] = taken[q] /\ todo'[q] = todo[q] /\ Ok(q)' = Ok(q)
      BY <1>0, <2>3, PackKeeps DEF Ok
    <3> QED
      BY <1>0, <1>2, <2>2, <3>1, <3>2, SameLaid
  <2>4. CASE q = p
    <3>0. ~Check(p) /\ ~CreateArchive(p)
      BY <1>0, <2>1, <2>4 DEF Check, CreateArchive, Made, IInv, Creations
    <3>1. CASE SkipFile(p) \/ Fail(p) \/ Close(p)
      <4>1. UNCHANGED <<data, todo, taken>>
        BY <3>1 DEF SkipFile, Fail, Close, fileVars
      <4>2. Ok(p)' = Ok(p)
        BY <1>0, <3>1 DEF SkipFile, Fail, Close, Leave, Ok, Progress
      <4> QED
        BY <1>0, <1>2, <2>2, <2>4, <4>1, <4>2, SameLaid
    <3>2. CASE TakeFile(p) \/ WriteUnit(p) \/ Finish(p)
      <4>1. Ok(p) = FALSE
        BY <1>0, <3>2 DEF TakeFile, WriteUnit, Finish, Progress, Ok
      <4>2. /\ Places(Framed, taken[p], h) /\ Filled(Framed, taken[p], todo[p], FALSE, h, data)
            /\ Scanned(p, h)
        BY <2>2, <2>4, <4>1 DEF Laid
      <4>3. \A n \in 0 .. Len(taken[p]) + 1 : h[n] \in Nat
        BY <4>2 DEF Places
      <4>4. /\ Len(data) \in Nat /\ Len(taken[p]) \in Nat
        BY <1>0, LenProperties
      <4>5. CASE TakeFile(p)
        <5>1. PICK i : i = next[p]
          OBVIOUS
        <5>2. /\ todo[p] = <<>> /\ i \in Numbers /\ data' = data
              /\ todo'[p] = Header(i) \o Content(i) /\ taken'[p] = Append(taken[p], i)
              /\ Ok(p)' = FALSE
          <6>1. todo[p] = <<>> /\ i <= Len(AddList) /\ data' = data /\ result' = result
            BY <4>5, <5>1 DEF TakeFile, fileVars
          <6>2. next \in [Packers -> 1 .. Len(AddList) + 1]
            BY <1>0 DEF Types
          <6>3. i \in Numbers
            BY <5>1, <6>1, <6>2, AddFact DEF Numbers
          <6>4. todo'[p] = Header(i) \o Content(i) /\ taken'[p] = Append(taken[p], i)
            BY <1>0, <4>5, <5>1 DEF TakeFile
          <6>5. Ok(p)' = FALSE
            BY <4>1, <6>1 DEF Ok
          <6> QED
            BY <6>1, <6>3, <6>4, <6>5
        <5>3. PICK g : /\ Places(Framed, Append(taken[p], i), g)
                       /\ Filled(Framed, Append(taken[p], i), Header(i) \o Content(i), FALSE, g, data)
                       /\ \A n \in 0 .. Len(taken[p]) + 1 : g[n] = h[n]
          <6>1. Filled(Framed, taken[p], <<>>, FALSE, h, data)
            BY <4>2, <5>2
          <6>2. Framed \in BOOLEAN /\ taken[p] \in Seq(Numbers) /\ data \in Seq(Units)
            BY <1>0
          <6>3. Places(Framed, taken[p], h) /\ i \in Numbers
            BY <4>2, <5>2
          <6>4. MoreTaken(Framed, taken[p], i, h, data)
            BY <6>1, <6>2, <6>3, TakeFact
          <6> QED
            BY <6>4 DEF MoreTaken
        <5>4. Places(Framed, taken[p], g)' /\ Filled(Framed, taken[p], todo[p], Ok(p), g, data)'
          BY <1>0, <5>2, <5>3
        <5>5. /\ Len(taken[p]) <= Len(taken'[p])
              /\ \A n \in 1 .. Len(taken[p]) : taken'[p][n] = taken[p][n]
          BY <1>0, <4>4, <5>2, AppendProperties
        <5>6. Len(data) <= Len(data')
          BY <4>4, <5>2
        <5>7. Scanned(p, g)'
          BY <1>0, <1>2, <4>1, <4>2, <4>3, <5>3, <5>5, <5>6, GrowScanned
        <5> QED
          BY <2>4, <5>4, <5>7 DEF Laid
      <4>6. CASE WriteUnit(p)
        <5>1. /\ todo[p] # <<>> /\ todo'[p] = Tail(todo[p]) /\ taken' = taken
              /\ data' = IF Framed \/ Head(todo[p]).what \in {"HeadData", "Data"}
                         THEN Append(data, Head(todo[p])) ELSE data
              /\ Ok(p)' = FALSE
          BY <1>0, <4>1, <4>6 DEF WriteUnit, Write, Leave, Ok
        <5>2. Filled(Framed, taken[p], Tail(todo[p]), FALSE, h, data')
          BY <1>0, <4>2, <5>1, WriteFact
        <5>3. Places(Framed, taken[p], h)' /\ Filled(Framed, taken[p], todo[p], Ok(p), h, data)'
          BY <1>0, <4>2, <5>1, <5>2
        <5>4. Len(data) <= Len(data')
          <6>1. Head(todo[p]) \in Units
            BY <1>0, <5>1, HeadTailProperties
          <6>2. Len(Append(data, Head(todo[p]))) = Len(data) + 1
            BY <1>0, <6>1, AppendProperties
          <6> QED
            BY <4>4, <5>1, <6>2
        <5>5. Scanned(p, h)'
          <6>1. Len(taken[p]) <= Len(taken'[p]) /\ \A n \in 1 .. Len(taken[p]) : taken'[p][n] = taken[p][n]
            BY <4>4, <5>1
          <6>2. UNCHANGED <<kind, made, scanVars>> /\ ~Ok(p) /\ Types /\ ScanTypes /\ Scanned(p, h)
            BY <1>0, <1>2, <4>1, <4>2
          <6> QED
            BY <4>3, <5>4, <6>1, <6>2, GrowScanned
        <5> QED
          BY <2>4, <5>3, <5>5 DEF Laid
      <4>7. CASE Finish(p)
        <5>1. /\ todo[p] = <<>> /\ todo' = todo /\ taken' = taken /\ Ok(p)' = TRUE
              /\ data' = IF Framed THEN Append(data, Unit("Footer", 0)) ELSE data
          BY <1>0, <4>7 DEF Finish, Write, Leave, Ok, Footer, Unit
        <5>2. Filled(Framed, taken[p], <<>>, TRUE, h, data')
          BY <1>0, <4>2, <5>1, FinishFact
        <5>3. Places(Framed, taken[p], h)' /\ Filled(Framed, taken[p], todo[p], Ok(p), h, data)'
          BY <1>0, <4>2, <5>1, <5>2
        <5>4. Len(data) <= Len(data')
          <6>1. Unit("Footer", 0) \in Units
            BY DEF Units, OfArchive, Unit
          <6>2. Len(Append(data, Unit("Footer", 0))) = Len(data) + 1
            BY <1>0, <6>1, AppendProperties
          <6> QED
            BY <4>4, <5>1, <6>2
        <5>5. Scanned(p, h)'
          BY <1>0, <1>2, <4>1, <4>2, <4>3, <4>4, <5>1, <5>4, GrowScanned
        <5> QED
          BY <2>4, <5>3, <5>5 DEF Laid
      <4> QED
        BY <3>2, <4>5, <4>6, <4>7
    <3> QED
      BY <3>0, <3>1, <3>2 DEF Pack
  <2> QED
    BY <2>3, <2>4
<1> QED
  BY <1>1, <1>2

-----------------------------------------------------------------------------
(* The steps of a scan.  Entry i is the next in the file, and ends at e.   *)
Entry(i, e) ==
  /\ i \in Numbers /\ e = pos + SizeIn(Framed, i)
  /\ \A j \in 1 .. SizeIn(Framed, i) : pos + j <= Len(data) => data[pos + j] = DataAt(Framed, i, j)

LEMMA EntrySize ==
  ASSUME NEW i \in Numbers
  PROVE  /\ AddList[i].size \in Nat
         /\ SizeIn(TRUE, i) = IF HasContent(i) THEN 5 + AddList[i].size ELSE 3
         /\ SizeIn(FALSE, i) = IF HasContent(i) THEN 1 + AddList[i].size ELSE 1
<1>1. i > 0 /\ AddList[i].size \in Nat
  BY AddFact DEF Numbers
<1>2. CASE HasContent(i)
  <2>1. AddList[i].size > 0 /\ Body(i) = AddList[i].size + 2
    BY <1>2, AddFact
  <2> QED
    BY <1>1, <1>2, <2>1 DEF SizeIn, Written, EntryLen
<1>3. CASE ~HasContent(i)
  <2>1. Body(i) = 0
    BY <1>3, AddFact
  <2> QED
    BY <1>1, <1>3, <2>1 DEF SizeIn, Written, EntryLen
<1> QED
  BY <1>2, <1>3

LEMMA FrameUnits ==
  ASSUME NEW i \in Numbers, NEW s, s = AddList[i].size
  PROVE  /\ DataAt(TRUE, i, 1) = Unit("HeadBegin", i)
         /\ DataAt(TRUE, i, 2) = Unit("HeadData", i)
         /\ DataAt(TRUE, i, 3) = Unit("HeadEnd", i)
         /\ HasContent(i) =>
              /\ DataAt(TRUE, i, 4) = Unit("Begin", i)
              /\ \A j \in 5 .. 4 + s : DataAt(TRUE, i, j) = Unit("Data", i)
              /\ DataAt(TRUE, i, 5 + s) = Unit("End", i)
<1>1. i > 0 /\ s \in Nat /\ (HasContent(i) => Body(i) = s + 2)
  BY AddFact DEF Numbers
<1> QED
  BY <1>1 DEF DataAt, EntryAt, What

LEMMA FramedEntry ==
  ASSUME Types, pos \in Nat, Framed, NEW i, NEW e, Entry(i, e)
  PROVE  /\ e \in Nat /\ e >= pos + 3
         /\ pos + 1 <= Len(data) => Has(pos + 1, "HeadBegin") /\ data[pos + 1].file = i
         /\ e <= Len(data) => WholeHeader(pos)
         /\ ~HasContent(i) => e = pos + 3
         /\ HasContent(i) =>
              /\ e >= pos + 5
              /\ \A m \in ContentEnds(pos + 3) : m = e
              /\ e <= Len(data) => e \in ContentEnds(pos + 3)
<1>1. PICK s, z : s = AddList[i].size /\ z = Len(data)
  OBVIOUS
<1>2. z \in Nat
  BY <1>1, LenProperties DEF Types
<1>3. i \in Numbers /\ s \in Nat /\ e = pos + (IF HasContent(i) THEN 5 + s ELSE 3)
      /\ \A j \in 1 .. (IF HasContent(i) THEN 5 + s ELSE 3) :
           pos + j <= z => data[pos + j] = DataAt(TRUE, i, j)
  <2>1. i \in Numbers /\ Framed = TRUE
    BY DEF Entry, Framed
  <2> QED
    BY <1>1, <2>1, EntrySize DEF Entry
<1>4. /\ pos + 1 <= z => data[pos + 1] = Unit("HeadBegin", i)
      /\ pos + 2 <= z => data[pos + 2] = Unit("HeadData", i)
      /\ pos + 3 <= z => data[pos + 3] = Unit("HeadEnd", i)
      /\ HasContent(i) =>
           /\ pos + 4 <= z => data[pos + 4] = Unit("Begin", i)
           /\ \A j \in 5 .. 4 + s : pos + j <= z => data[pos + j] = Unit("Data", i)
           /\ pos + (5 + s) <= z => data[pos + (5 + s)] = Unit("End", i)
  <2>1. /\ DataAt(TRUE, i, 1) = Unit("HeadBegin", i)
        /\ DataAt(TRUE, i, 2) = Unit("HeadData", i)
        /\ DataAt(TRUE, i, 3) = Unit("HeadEnd", i)
        /\ HasContent(i) =>
             /\ DataAt(TRUE, i, 4) = Unit("Begin", i)
             /\ \A j \in 5 .. 4 + s : DataAt(TRUE, i, j) = Unit("Data", i)
             /\ DataAt(TRUE, i, 5 + s) = Unit("End", i)
    BY <1>1, <1>3, FrameUnits
  <2>2. PICK n \in Nat : n = IF HasContent(i) THEN 5 + s ELSE 3
    BY <1>3
  <2>3. 1 \in 1 .. n /\ 2 \in 1 .. n /\ 3 \in 1 .. n
    BY <1>3, <2>2
  <2>4. HasContent(i) => n = 5 + s /\ 4 \in 1 .. n /\ 5 + s \in 1 .. n /\ \A j \in 5 .. 4 + s : j \in 1 .. n
    BY <1>3, <2>2
  <2>5. \A j \in 1 .. n : pos + j <= z => data[pos + j] = DataAt(TRUE, i, j)
    BY <1>3, <2>2
  <2>6. /\ pos + 1 <= z => data[pos + 1] = Unit("HeadBegin", i)
        /\ pos + 2 <= z => data[pos + 2] = Unit("HeadData", i)
        /\ pos + 3 <= z => data[pos + 3] = Unit("HeadEnd", i)
    BY <2>1, <2>3, <2>5
  <2>7. ASSUME HasContent(i)
        PROVE  /\ pos + 4 <= z => data[pos + 4] = Unit("Begin", i)
               /\ \A j \in 5 .. 4 + s : pos + j <= z => data[pos + j] = Unit("Data", i)
               /\ pos + (5 + s) <= z => data[pos + (5 + s)] = Unit("End", i)
    BY <2>1, <2>4, <2>5, <2>7
  <2> QED
    BY <2>6, <2>7
<1>5. pos + 1 <= z => Has(pos + 1, "HeadBegin") /\ data[pos + 1].file = i
  BY <1>1, <1>2, <1>4 DEF Has, Unit
<1>6. e <= z => WholeHeader(pos)
  <2>1. e >= pos + 3
    BY <1>3
  <2> QED
    BY <1>1, <1>2, <1>3, <1>4, <2>1 DEF WholeHeader, Has, Unit
<1>7. ASSUME HasContent(i), NEW m \in ContentEnds(pos + 3) PROVE m = e
  <2>1. /\ m \in pos + 5 .. z /\ data[m].what = "End"
        /\ \A k \in pos + 5 .. m - 1 : data[k].what = "Data"
    <3>1. (pos + 3) + 2 = pos + 5
      OBVIOUS
    <3> QED
      BY <1>1, <3>1 DEF ContentEnds, Has
  <2>2. CASE m < e
    <3>1. PICK j \in 5 .. 4 + s : m = pos + j
      <4>1. m - pos \in 5 .. 4 + s /\ m = pos + (m - pos)
        BY <1>2, <1>3, <1>7, <2>1, <2>2
      <4> QED
        BY <4>1
    <3>2. data[m] = Unit("Data", i)
      BY <1>4, <1>7, <2>1, <3>1
    <3> QED
      BY <2>1, <3>2 DEF Unit
  <2>3. CASE m > e
    <3>1. e = pos + (5 + s) /\ e <= z /\ e \in pos + 5 .. m - 1
      BY <1>2, <1>3, <1>7, <2>1, <2>3
    <3>2. data[e] = Unit("End", i)
      BY <1>4, <1>7, <3>1
    <3> QED
      BY <2>1, <3>1, <3>2 DEF Unit
  <2> QED
    BY <1>3, <1>7, <2>1, <2>2, <2>3
<1>8. ASSUME HasContent(i), e <= z PROVE e \in ContentEnds(pos + 3)
  <2>1. e = pos + (5 + s) /\ e \in Nat /\ e \in (pos + 3) + 2 .. z
    BY <1>2, <1>3, <1>8
  <2>2. Has((pos + 3) + 1, "Begin") /\ Has(e, "End")
    <3>1. pos + 4 <= z /\ (pos + 3) + 1 = pos + 4 /\ pos + 4 \in 1 .. z /\ e \in 1 .. z
      BY <1>2, <2>1, <1>3
    <3> QED
      BY <1>1, <1>4, <1>8, <2>1, <3>1 DEF Has, Unit
  <2>3. ASSUME NEW k \in (pos + 3) + 2 .. e - 1 PROVE Has(k, "Data")
    <3>1. PICK j \in 5 .. 4 + s : k = pos + j
      <4>1. k - pos \in 5 .. 4 + s /\ k = pos + (k - pos)
        BY <1>2, <1>3, <2>1
      <4> QED
        BY <4>1
    <3>2. k \in 1 .. z
      BY <1>2, <2>1, <1>3
    <3> QED
      BY <1>1, <1>4, <1>8, <3>1, <3>2 DEF Has, Unit
  <2> QED
    BY <1>1, <2>1, <2>2, <2>3 DEF ContentEnds
<1>9. e \in Nat /\ e >= pos + 3 /\ (~HasContent(i) => e = pos + 3)
  BY <1>3
<1>10. HasContent(i) => e >= pos + 5
  BY <1>3
<1> QED
  BY <1>1, <1>5, <1>6, <1>7, <1>8, <1>9, <1>10

LEMMA PaxEntry ==
  ASSUME Types, pos \in Nat, ~Framed, NEW i, NEW e, Entry(i, e)
  PROVE  /\ e \in Nat /\ e = pos + 1 + (IF HasContent(i) THEN AddList[i].size ELSE 0)
         /\ e >= pos + 1
         /\ pos + 1 <= Len(data) => Has(pos + 1, "HeadData") /\ data[pos + 1].file = i
<1>1. PICK z, s : z = SizeIn(FALSE, i) /\ s = AddList[i].size
  OBVIOUS
<1>2. i \in Numbers /\ Framed = FALSE
  BY DEF Entry, Framed
<1>3. /\ e = pos + z
      /\ \A j \in 1 .. z : pos + j <= Len(data) => data[pos + j] = DataAt(FALSE, i, j)
  BY <1>1, <1>2 DEF Entry
<1>4. s \in Nat /\ z = IF HasContent(i) THEN 1 + s ELSE 1
  BY <1>1, <1>2, EntrySize
<1>5. Len(data) \in Nat
  BY LenProperties DEF Types
<1>6. pos + 1 <= Len(data) => Has(pos + 1, "HeadData") /\ data[pos + 1].file = i
  <2>1. DataAt(FALSE, i, 1) = Unit("HeadData", i)
    BY DEF DataAt
  <2>2. 1 \in 1 .. z
    BY <1>4
  <2>3. pos + 1 <= Len(data) => data[pos + 1] = Unit("HeadData", i)
    BY <1>3, <2>1, <2>2
  <2> QED
    BY <1>5, <2>3 DEF Has, Unit
<1>7. e \in Nat /\ e = pos + 1 + (IF HasContent(i) THEN s ELSE 0) /\ e >= pos + 1
  BY <1>3, <1>4
<1> QED
  BY <1>1, <1>6, <1>7

(* How much of the file there is, against what is taken.                   *)
LEMMA FileLength ==
  ASSUME Types, NEW p \in Packers, NEW h, Laid(p, h)
  PROVE  /\ Len(data) \in Nat /\ Len(taken[p]) \in Nat /\ h[Len(taken[p]) + 1] \in Nat
         /\ Framed /\ Ok(p) => Len(data) = h[Len(taken[p]) + 1] + 1
         /\ ~(Framed /\ Ok(p)) => Len(data) <= h[Len(taken[p]) + 1]
         /\ ~Framed /\ Ok(p) => Len(data) = h[Len(taken[p]) + 1]
         /\ Framed /\ Ok(p) => data[Len(data)] = Unit("Footer", 0)
<1>1. /\ Framed \in BOOLEAN /\ Ok(p) \in BOOLEAN /\ data \in Seq(Units)
      /\ taken[p] \in Seq(Numbers) /\ todo[p] \in Seq(Units)
  BY DEF Types, Framed, Ok
<1>2. Places(Framed, taken[p], h) /\ Filled(Framed, taken[p], todo[p], Ok(p), h, data)
  BY DEF Laid
<1>3. /\ Len(data) <= h[Len(taken[p]) + 1] + (IF Ok(p) /\ Framed THEN 1 ELSE 0)
      /\ Ok(p) => Len(data) = h[Len(taken[p]) + 1] + (IF Framed THEN 1 ELSE 0)
  BY <1>1, <1>2, LengthFact
<1>4. Len(data) \in Nat /\ Len(taken[p]) \in Nat
  BY <1>1, LenProperties
<1>5. h[Len(taken[p]) + 1] \in Nat
  BY <1>2, <1>4 DEF Places
<1>6. Framed /\ Ok(p) => data[Len(data)] = Unit("Footer", 0)
  BY <1>2 DEF Filled
<1> QED
  BY <1>3, <1>4, <1>5, <1>6

(* The entry that begins where h says is there as far as the file goes.    *)
LEMMA EntryThere ==
  ASSUME Types, NEW p \in Packers, NEW h, Laid(p, h), NEW n \in 0 .. Len(taken[p])
  PROVE  /\ h[n] \in Nat /\ h[n + 1] \in Nat /\ h[n + 1] <= h[Len(taken[p]) + 1]
         /\ h[n + 1] = h[n] + SizeIn(Framed, File(taken[p], n))
         /\ \A j \in 1 .. SizeIn(Framed, File(taken[p], n)) :
              h[n] + j <= Len(data) => data[h[n] + j] = DataAt(Framed, File(taken[p], n), j)
<1>1. PICK m : m = Len(taken[p])
  OBVIOUS
<1>2. m \in Nat /\ n \in 0 .. m + 1 /\ n + 1 \in 0 .. m + 1 /\ m + 1 \in 0 .. m + 1 /\ n + 1 <= m + 1
  <2>1. m \in Nat
    BY <1>1, LenProperties DEF Types
  <2> QED
    BY <1>1, <2>1
<1>3. /\ h \in [0 .. m + 1 -> Nat]
      /\ \A k \in 0 .. m : h[k + 1] = h[k] + SizeIn(Framed, File(taken[p], k))
      /\ \A k, l \in 0 .. m + 1 : k <= l => h[k] <= h[l]
      /\ \A k \in 0 .. m : \A j \in 1 .. SizeIn(Framed, File(taken[p], k)) :
           h[k] + j <= Len(data) => data[h[k] + j] = DataAt(Framed, File(taken[p], k), j)
  BY <1>1 DEF Laid, Places, Filled
<1> QED
  BY <1>1, <1>2, <1>3

(* Where a scan has come to.                                               *)
LEMMA Reached ==
  ASSUME Types, ScanTypes, NEW p \in Packers, NEW h, Laid(p, h), seen.made = made, scan = "items",
         NEW l, l = Len(listed), NEW m, m = Len(taken[p])
  PROVE  /\ l \in Nat /\ m \in Nat /\ l <= m /\ pos \in Nat /\ limit \in Nat
         /\ limit <= Len(data) /\ (seen.complete => Ok(p) /\ limit = Len(data))
         /\ pos = h[l + 1] /\ (Framed => pos <= Len(data))
         /\ l < m => /\ Entry(taken[p][l + 1], h[l + 2]) /\ h[l + 2] \in Nat
                     /\ h[l + 2] <= h[m + 1]
<1>1. /\ pos \in Nat /\ limit \in Nat /\ listed \in Seq([file : Numbers, at : Nat])
      /\ taken[p] \in Seq(Numbers) /\ l \in Nat /\ m \in Nat
  BY LenProperties DEF Types, ScanTypes
<1>2. /\ l <= m /\ limit <= Len(data) /\ (seen.complete => Ok(p) /\ limit = Len(data))
      /\ pos = h[l + 1] /\ (Framed => pos <= Len(data))
  BY DEF Laid, Scanned
<1>3. ASSUME l < m
      PROVE  /\ Entry(taken[p][l + 1], h[l + 2]) /\ h[l + 2] \in Nat /\ h[l + 2] <= h[m + 1]
  <2>1. l + 1 \in 0 .. Len(taken[p]) /\ l + 1 \in 1 .. Len(taken[p]) /\ (l + 1) + 1 = l + 2
    BY <1>1, <1>3
  <2>2. File(taken[p], l + 1) = taken[p][l + 1] /\ taken[p][l + 1] \in Numbers
    BY <1>1, <2>1, FileFact
  <2>3. /\ h[l + 2] \in Nat /\ h[l + 2] <= h[m + 1]
        /\ h[l + 2] = h[l + 1] + SizeIn(Framed, taken[p][l + 1])
        /\ \A j \in 1 .. SizeIn(Framed, taken[p][l + 1]) :
             h[l + 1] + j <= Len(data) => data[h[l + 1] + j] = DataAt(Framed, taken[p][l + 1], j)
    BY <2>1, <2>2, EntryThere
  <2> QED
    BY <1>2, <2>2, <2>3 DEF Entry
<1> QED
  BY <1>1, <1>2, <1>3

(* What is complete is recognised.                                         *)
LEMMA CompleteArchive ==
  ASSUME Types, NEW p \in Packers, NEW h, Laid(p, h), Ok(p), Framed \/ taken[p] # <<>>,
         limit = Len(data)
  PROVE  (Framed => IsFrame) /\ IsArchive
<1>1. Size = Len(data) /\ Len(data) \in Nat /\ Len(taken[p]) \in Nat
  BY FileLength DEF Size
<1>2. h[0] = 0
  BY DEF Laid, Places
<1>3. CASE Framed
  <2>1. 0 \in 0 .. Len(taken[p]) /\ File(taken[p], 0) = 0 /\ 0 + 1 = 1 /\ Framed = TRUE
    BY <1>1, <1>3 DEF File, Framed
  <2>2. SizeIn(TRUE, 0) = 3
    BY DEF SizeIn, Written, EntryLen
  <2>3. /\ h[1] \in Nat /\ h[1] <= h[Len(taken[p]) + 1] /\ h[1] = 0 + 3
        /\ \A j \in 1 .. 3 : 0 + j <= Len(data) => data[0 + j] = DataAt(TRUE, 0, j)
    <3>1. /\ h[0 + 1] \in Nat /\ h[0 + 1] <= h[Len(taken[p]) + 1]
          /\ h[0 + 1] = h[0] + SizeIn(Framed, File(taken[p], 0))
          /\ \A j \in 1 .. SizeIn(Framed, File(taken[p], 0)) :
               h[0] + j <= Len(data) => data[h[0] + j] = DataAt(Framed, File(taken[p], 0), j)
      BY <2>1, EntryThere
    <3>2. SizeIn(Framed, File(taken[p], 0)) = 3
      BY <2>1, <2>2
    <3> QED
      BY <1>2, <2>1, <3>1, <3>2
  <2>4. Len(data) >= 3
    BY <1>3, <2>3, FileLength
  <2>5. \A j \in 1 .. 3 : data[j] = DataAt(TRUE, 0, j)
    <3>1. \A j \in 1 .. 3 : 0 + j = j /\ j <= Len(data)
      BY <1>1, <2>4
    <3> QED
      BY <2>3, <3>1
  <2>6. data[1] = Unit("ZeroBegin", 0) /\ data[2] = Unit("ZeroEnd", 0) /\ data[3] = Unit("Pax", 0)
    BY <2>5 DEF DataAt, EntryAt
  <2> QED
    BY <1>1, <1>3, <2>4, <2>6 DEF IsFrame, IsArchive, Has, Unit
<1>4. CASE ~Framed
  <2>1. taken[p] \in Seq(Numbers) /\ taken[p] # <<>> /\ Framed = FALSE
    BY <1>4 DEF Types, Framed
  <2>2. Len(taken[p]) > 0
    BY <1>1, <2>1, EmptySeq
  <2>3. 0 \in 0 .. Len(taken[p]) /\ 1 \in 0 .. Len(taken[p]) /\ File(taken[p], 0) = 0
        /\ File(taken[p], 1) = taken[p][1] /\ taken[p][1] \in Numbers
    BY <1>1, <2>1, <2>2, FileFact DEF File
  <2>4. PICK i, z : i = taken[p][1] /\ z = SizeIn(FALSE, i)
    OBVIOUS
  <2>5. SizeIn(FALSE, 0) = 0 /\ z \in Nat /\ z >= 1
    <3>1. SizeIn(FALSE, 0) = 0
      BY DEF SizeIn, Written, EntryLen
    <3>2. SizeIn(FALSE, i) = (IF HasContent(i) THEN 1 + AddList[i].size ELSE 1) /\ AddList[i].size \in Nat
      BY <2>3, <2>4, EntrySize
    <3>3. PICK s : s = AddList[i].size
      OBVIOUS
    <3>4. s \in Nat /\ z = IF HasContent(i) THEN 1 + s ELSE 1
      BY <2>4, <3>2, <3>3
    <3>5. z \in Nat /\ z >= 1
      BY <3>4
    <3> QED
      BY <3>1, <3>5
  <2>6. h[0 + 1] \in Nat /\ h[0 + 1] = h[0] + 0
    <3>1. h[0] \in Nat /\ h[0 + 1] \in Nat /\ h[0 + 1] = h[0] + SizeIn(FALSE, 0)
      BY <2>1, <2>3, EntryThere
    <3> QED
      BY <2>5, <3>1
  <2>7. /\ h[1 + 1] \in Nat /\ h[1 + 1] <= h[Len(taken[p]) + 1] /\ h[1 + 1] = h[1] + z
        /\ \A j \in 1 .. z : h[1] + j <= Len(data) => data[h[1] + j] = DataAt(FALSE, i, j)
    <3>1. /\ h[1 + 1] \in Nat /\ h[1 + 1] <= h[Len(taken[p]) + 1]
          /\ h[1 + 1] = h[1] + SizeIn(Framed, File(taken[p], 1))
          /\ \A j \in 1 .. SizeIn(Framed, File(taken[p], 1)) :
               h[1] + j <= Len(data) => data[h[1] + j] = DataAt(Framed, File(taken[p], 1), j)
      BY <2>3, EntryThere
    <3>2. SizeIn(Framed, File(taken[p], 1)) = z /\ File(taken[p], 1) = i /\ Framed = FALSE
      BY <2>1, <2>3, <2>4
    <3> QED
      BY <3>1, <3>2
  <2>8. h[1] = 0
    BY <1>2, <2>6
  <2>9. Len(data) >= 1 /\ data[1] = DataAt(FALSE, i, 1)
    <3>1. Len(data) = h[Len(taken[p]) + 1] /\ h[Len(taken[p]) + 1] \in Nat
      BY <1>4, FileLength
    <3>2. Len(data) >= 1 /\ 1 \in 1 .. z /\ 0 + 1 <= Len(data)
      BY <1>1, <2>5, <2>7, <2>8, <3>1
    <3>3. \A j \in 1 .. z : 0 + j <= Len(data) => data[0 + j] = DataAt(FALSE, i, j)
      BY <2>7, <2>8
    <3>4. data[0 + 1] = DataAt(FALSE, i, 1)
      BY <3>2, <3>3
    <3>5. 0 + 1 = 1
      OBVIOUS
    <3> QED
      BY <3>2, <3>4, <3>5, Zenon
  <2> QED
    BY <1>1, <1>4, <2>9 DEF IsArchive, Has, DataAt, Unit
<1> QED
  BY <1>3, <1>4

-----------------------------------------------------------------------------
Scan == ScanBegin \/ ScanType \/ ScanOpen \/ ScanItem \/ ScanFinish \/ ScanFail

LEMMA ScanKeeps ==
  ASSUME Types, Scan
  PROVE  /\ UNCHANGED <<kind, data, made, pc, next, todo, taken, mine, result>>
         /\ Types' /\ Framed' = Framed
<1>1. /\ UNCHANGED <<kind, data, made, pc, next, todo, taken, mine, result>>
      /\ reading' = TRUE \/ reading' = FALSE \/ reading' = reading
  BY DEF Scan, ScanBegin, ScanType, ScanOpen, ScanItem, ScanFinish, ScanFail, ScanEnd, LetGo, fileVars,
         packVars
<1> QED
  BY <1>1 DEF Types, Framed

LEMMA BeginScanned ==
  ASSUME ScanInv, NEW p \in Packers, Made(p), NEW h, Laid(p, h), ScanBegin
  PROVE  Scanned(p, h)'
<1>1. /\ scan' = "type" /\ limit' = Len(data) /\ listed' = <<>> /\ data' = data
      /\ seen'.complete = Completed /\ result' = result
  BY DEF ScanBegin, fileVars, packVars
<1>2. Completed => Ok(p)
  <2>1. ASSUME NEW q \in Packers, result[q] = "ok", Maker(q) PROVE Ok(p)
    <3>1. q = p
      BY <2>1 DEF ScanInv, Single, Made, Maker
    <3> QED
      BY <2>1, <3>1 DEF Ok
  <2> QED
    BY <2>1 DEF Completed
<1>3. Len(data) \in Nat /\ Len(taken'[p]) \in Nat
  BY LenProperties DEF ScanInv, Types, ScanBegin, packVars
<1>4. Len(listed') = 0
  BY <1>1
<1> QED
  BY <1>1, <1>2, <1>3, <1>4 DEF Scanned, Ok

LEMMA TypeScanned ==
  ASSUME ScanInv, NEW p \in Packers, Made(p), NEW h, Laid(p, h), ScanType
  PROVE  Scanned(p, h)'
<1>1. /\ UNCHANGED <<kind, data, made, seen, taken, result>> /\ Framed' = Framed
      /\ limit' = Size /\ scan = "type"
  BY DEF ScanType, packVars, Framed
<1> SUFFICES ASSUME seen.made = made PROVE Scanned(p, h)'
  BY <1>1 DEF Scanned
<1>2. Len(data) \in Nat /\ Len(taken[p]) \in Nat /\ limit \in Nat /\ Types
  BY LenProperties DEF ScanInv, Types, ScanTypes
<1>3. /\ limit <= Len(data) /\ listed = <<>> /\ (seen.complete => Ok(p) /\ limit = Len(data))
  BY <1>1 DEF Laid, Scanned
<1>4. Size <= Len(data) /\ (seen.complete => Size = Len(data))
  BY <1>2, <1>3 DEF Size
<1>5. seen.complete /\ (Framed \/ taken[p] # <<>>) => (Framed => IsFrame) /\ IsArchive
  BY <1>2, <1>3, CompleteArchive
<1>6. listed' = <<>> /\ Len(listed') = 0
  <2>1. listed' = listed \/ listed' = <<>>
    BY DEF ScanType, ScanEnd
  <2> QED
    BY <1>3, <2>1
<1>7. CASE scan' = "open" /\ (shown' = IF IsArchive THEN "none" ELSE "single") /\ (IsArchive \/ Framed)
  <2>1. /\ Framed /\ shown' # "single" => Len(data) >= 3
        /\ shown' = "single" => ~seen.complete
    BY <1>2, <1>5, <1>7 DEF IsArchive, Has
  <2> QED
    BY <1>1, <1>2, <1>3, <1>4, <1>6, <1>7, <2>1 DEF Scanned, Ok
<1>8. CASE scan' = "done" /\ shown' # "items" /\ (~broken' => ~Framed /\ ~IsArchive)
  <2>1. ~(seen.complete /\ ~broken' /\ (Framed \/ taken[p] # <<>>))
    BY <1>5, <1>8
  <2> QED
    BY <1>1, <1>2, <1>3, <1>4, <1>6, <1>8, <2>1 DEF Scanned, Ok
<1>9. CASE scan' = "done" /\ shown' # "items" /\ (~broken' => Framed /\ ~IsFrame)
  <2>1. ~(seen.complete /\ ~broken' /\ (Framed \/ taken[p] # <<>>))
    BY <1>5, <1>9
  <2> QED
    BY <1>1, <1>2, <1>3, <1>4, <1>6, <1>9, <2>1 DEF Scanned, Ok
<1>10. \/ scan' = "open" /\ (shown' = IF IsArchive THEN "none" ELSE "single") /\ (IsArchive \/ Framed)
       \/ /\ scan' = "done" /\ shown' # "items"
          /\ ~broken' => IF Framed THEN ~IsFrame ELSE ~IsArchive
  BY DEF ScanType, ScanEnd, FailsIf
<1> QED
  BY <1>7, <1>8, <1>9, <1>10

LEMMA OpenScanned ==
  ASSUME ScanInv, NEW p \in Packers, Made(p), NEW h, Laid(p, h), ScanOpen
  PROVE  Scanned(p, h)'
<1>1. /\ UNCHANGED <<kind, data, made, seen, taken, result, limit>> /\ Framed' = Framed
      /\ scan = "open"
  BY DEF ScanOpen, packVars, Framed
<1> SUFFICES ASSUME seen.made = made PROVE Scanned(p, h)'
  BY <1>1 DEF Scanned
<1>2. Len(data) \in Nat /\ Len(taken[p]) \in Nat /\ limit \in Nat /\ Types
  BY LenProperties DEF ScanInv, Types, ScanTypes
<1>3. /\ limit <= Len(data) /\ listed = <<>> /\ (seen.complete => Ok(p) /\ limit = Len(data))
      /\ Framed /\ shown # "single" => Len(data) >= 3
      /\ shown = "single" => ~seen.complete
  BY <1>1 DEF Laid, Scanned
<1>4. listed' = <<>> /\ Len(listed') = 0
  <2>1. listed' = listed \/ listed' = <<>>
    BY DEF ScanOpen, ScanEnd
  <2> QED
    BY <1>3, <2>1
<1>5. CASE scan' = "items" /\ shown = "none" /\ pos' = (IF Framed THEN 3 ELSE 0)
  <2>1. h[0] = 0 /\ h[0 + 1] = h[0] + SizeIn(Framed, File(taken[p], 0)) /\ h[0 + 1] \in Nat
    <3>1. h[0] = 0 /\ 0 \in 0 .. Len(taken[p])
      BY <1>2 DEF Laid, Places
    <3> QED
      BY <1>2, <3>1, EntryThere
  <2>2. SizeIn(Framed, File(taken[p], 0)) = IF Framed THEN 3 ELSE 0
    BY DEF SizeIn, Written, EntryLen, File
  <2>3. pos' = h[0 + 1]
    BY <1>5, <2>1, <2>2
  <2>4. Len(listed') + 1 = 0 + 1
    BY <1>4
  <2>5. pos' = h[Len(listed') + 1] /\ (Framed => pos' <= Len(data))
    BY <1>2, <1>3, <1>5, <2>3, <2>4
  <2> QED
    BY <1>1, <1>2, <1>3, <1>4, <1>5, <2>5 DEF Scanned, Ok
<1>6. CASE scan' = "done" /\ shown' # "items" /\ (broken' = TRUE \/ shown = "single")
  BY <1>1, <1>2, <1>3, <1>4, <1>6 DEF Scanned, Ok
<1> QED
  BY <1>5, <1>6 DEF ScanOpen, ScanEnd, FailsIf

(* A header where an item is expected is that of the next file taken, and  *)
(* what comes after it is the next entry.                                  *)
LEMMA ItemScanned ==
  ASSUME ScanInv, NEW p \in Packers, Made(p), NEW h, Laid(p, h), ScanItem
  PROVE  Scanned(p, h)'
<1>1. /\ UNCHANGED <<kind, data, made, seen, taken, result, limit, scan, shown, broken>>
      /\ Framed' = Framed /\ scan = "items"
  BY DEF ScanItem, packVars, fileVars, Framed
<1> SUFFICES ASSUME seen.made = made PROVE Scanned(p, h)'
  BY <1>1 DEF Scanned
<1>2. PICK l, m : l = Len(listed) /\ m = Len(taken[p])
  OBVIOUS
<1>3. /\ l \in Nat /\ m \in Nat /\ l <= m /\ pos \in Nat /\ limit \in Nat
      /\ limit <= Len(data) /\ (seen.complete => Ok(p) /\ limit = Len(data))
      /\ pos = h[l + 1] /\ (Framed => pos <= Len(data))
      /\ l < m => /\ Entry(taken[p][l + 1], h[l + 2]) /\ h[l + 2] \in Nat
                  /\ h[l + 2] <= h[m + 1]
  BY <1>1, <1>2, Reached DEF ScanInv
<1>4. /\ Len(data) \in Nat /\ h[m + 1] \in Nat
      /\ Framed /\ Ok(p) => Len(data) = h[m + 1] + 1 /\ data[Len(data)] = Unit("Footer", 0)
      /\ ~(Framed /\ Ok(p)) => Len(data) <= h[m + 1]
  BY <1>2, FileLength DEF ScanInv
<1>5. Has(pos + 1, IF Framed THEN "HeadBegin" ELSE "HeadData")
  BY DEF ScanItem, Readable, WholeHeader, Framed
<1>6. l < m
  <2> SUFFICES ASSUME l = m PROVE FALSE
    BY <1>3
  <2>1. pos = h[m + 1] /\ pos + 1 <= Len(data)
    BY <1>3, <1>5 DEF Has
  <2>2. Framed /\ Ok(p) /\ pos + 1 = Len(data)
    BY <1>3, <1>4, <2>1
  <2> QED
    BY <1>4, <1>5, <2>2 DEF Has, Unit
<1>7. PICK i, e : i = taken[p][l + 1] /\ e = h[l + 2]
  OBVIOUS
<1>8. Entry(i, e) /\ Types
  BY <1>3, <1>6, <1>7 DEF ScanInv
<1>9. data[pos + 1].file = i /\ pos' = e /\ (Framed => e <= Len(data))
  <2>1. pos + 1 <= Len(data)
    BY <1>5 DEF Has
  <2>2. CASE ~Framed
    <3>1. kind = "Pax"
      BY <2>2 DEF Framed
    <3> QED
      BY <1>3, <1>8, <2>1, <2>2, <3>1, PaxEntry DEF ScanItem, After
  <2>3. CASE Framed
    <3>1. /\ data[pos + 1].file = i
          /\ ~HasContent(i) => e = pos + 3
          /\ HasContent(i) => \A n \in ContentEnds(pos + 3) : n = e
      BY <1>3, <1>8, <2>1, <2>3, FramedEntry
    <3>2. /\ pos' \in IF HasContent(i) THEN ContentEnds(pos + 3) ELSE {pos + 3}
          /\ WholeHeader(pos)
      BY <2>3, <3>1 DEF ScanItem, After, Readable, Framed
    <3>3. pos' = e
      BY <3>1, <3>2
    <3>4. e <= Len(data)
      BY <1>3, <1>4, <3>1, <3>2, <3>3 DEF WholeHeader, Has, ContentEnds
    <3> QED
      BY <3>1, <3>3, <3>4
  <2> QED
    BY <2>2, <2>3
<1>10. PICK r : listed' = Append(listed, r) /\ r.file = i /\ r \in [file : Numbers, at : Nat]
  <2>1. PICK r : r = [file |-> data[pos + 1].file, at |-> pos + (IF Framed THEN 3 ELSE 1)]
    OBVIOUS
  <2>2. i \in Numbers
    BY <1>8 DEF Entry
  <2> QED
    BY <1>3, <1>9, <2>1, <2>2 DEF ScanItem
<1>11. /\ Len(listed') = l + 1 /\ listed'[l + 1] = r
       /\ \A n \in 1 .. l : listed'[n] = listed[n]
  <2>1. listed \in Seq([file : Numbers, at : Nat])
    BY DEF ScanInv, ScanTypes
  <2> QED
    BY <1>2, <1>10, <2>1, AppendProperties
<1>12. ASSUME NEW n \in 1 .. l + 1
       PROVE  listed'[n].file = taken[p][n] /\ (Framed => h[n + 1] <= Len(data))
  <2>1. CASE n \in 1 .. l
    BY <1>1, <1>2, <1>11, <2>1 DEF Laid, Scanned
  <2>2. CASE n = l + 1
    <3>1. n + 1 = l + 2
      BY <1>3, <2>2
    <3> QED
      BY <1>7, <1>9, <1>10, <1>11, <2>2, <3>1
  <2> QED
    BY <1>3, <2>1, <2>2
<1>13. l + 1 <= m /\ pos' = h[(l + 1) + 1] /\ (Framed => pos' <= Len(data))
  <2>1. (l + 1) + 1 = l + 2
    BY <1>3
  <2> QED
    BY <1>3, <1>6, <1>7, <1>9, <2>1
<1> QED
  BY <1>1, <1>2, <1>3, <1>11, <1>12, <1>13 DEF Scanned, Ok

(* What is taken for the end is the end, if the archive is complete; the   *)
(* footer, which the Zstandard scanner looks for, always is.               *)
LEMMA FinishScanned ==
  ASSUME ScanInv, NEW p \in Packers, Made(p), NEW h, Laid(p, h), ScanFinish
  PROVE  Scanned(p, h)'
<1>1. /\ UNCHANGED <<kind, data, made, seen, taken, result, limit, broken, listed>>
      /\ Framed' = Framed /\ scan = "items" /\ scan' = "done" /\ shown' = "items"
  BY DEF ScanFinish, ScanEnd, packVars, Framed
<1> SUFFICES ASSUME seen.made = made PROVE Scanned(p, h)'
  BY <1>1 DEF Scanned
<1>2. PICK l, m : l = Len(listed) /\ m = Len(taken[p])
  OBVIOUS
<1>3. /\ l \in Nat /\ m \in Nat /\ l <= m /\ pos \in Nat /\ limit \in Nat
      /\ limit <= Len(data) /\ (seen.complete => Ok(p) /\ limit = Len(data))
      /\ pos = h[l + 1] /\ (Framed => pos <= Len(data))
      /\ l < m => /\ Entry(taken[p][l + 1], h[l + 2]) /\ h[l + 2] \in Nat
                  /\ h[l + 2] <= h[m + 1]
  BY <1>1, <1>2, Reached DEF ScanInv
<1>4. /\ Len(data) \in Nat /\ h[m + 1] \in Nat
      /\ Framed /\ Ok(p) => Len(data) = h[m + 1] + 1
      /\ ~(Framed /\ Ok(p)) => Len(data) <= h[m + 1]
      /\ ~Framed /\ Ok(p) => Len(data) = h[m + 1]
  BY <1>2, FileLength DEF ScanInv
<1>5. Types /\ kind \in {"Pax", "PaxLz4", "PaxZstd"} /\ (Framed <=> kind # "Pax")
  BY DEF ScanInv, Types, Kinds, Framed
<1>6. ASSUME l < m PROVE ~seen.complete /\ kind # "PaxZstd"
  <2>1. PICK i, e : i = taken[p][l + 1] /\ e = h[l + 2]
    OBVIOUS
  <2>2. Entry(i, e) /\ e \in Nat /\ e <= h[m + 1]
    BY <1>3, <1>6, <2>1
  <2>3. CASE kind = "PaxZstd"
    <3>1. Has(pos + 1, "Footer")
      BY <2>3 DEF ScanFinish, AtEnd
    <3>2. Has(pos + 1, "HeadBegin")
      BY <1>3, <1>5, <2>2, <2>3, <3>1, FramedEntry DEF Has
    <3> QED
      BY <3>1, <3>2 DEF Has
  <2>4. CASE kind = "PaxLz4" /\ seen.complete
    <3>1. pos + 2 > limit \/ (pos < Len(data) /\ ~Has(pos + 1, "HeadBegin"))
      BY <2>4 DEF ScanFinish, AtEnd
    <3>2. e >= pos + 3 /\ (pos + 1 <= Len(data) => Has(pos + 1, "HeadBegin"))
      BY <1>3, <1>5, <2>2, <2>4, FramedEntry
    <3>3. limit = h[m + 1] + 1 /\ limit = Len(data)
      BY <1>3, <1>4, <1>5, <2>4
    <3>4. pos + 2 <= limit /\ pos + 1 <= Len(data)
      BY <1>3, <1>4, <2>2, <3>2, <3>3
    <3> QED
      BY <1>3, <3>1, <3>2, <3>4
  <2>5. CASE kind = "Pax" /\ seen.complete
    <3>1. pos >= limit \/ Has(pos + 1, "Data")
      BY <2>5 DEF ScanFinish, AtEnd
    <3>2. e >= pos + 1 /\ (pos + 1 <= Len(data) => Has(pos + 1, "HeadData"))
      BY <1>3, <1>5, <2>2, <2>5, PaxEntry
    <3>3. limit = h[m + 1] /\ limit = Len(data)
      BY <1>3, <1>4, <1>5, <2>5
    <3>4. pos + 1 <= limit
      BY <1>3, <1>4, <2>2, <3>2, <3>3
    <3>5. Has(pos + 1, "HeadData") /\ ~(pos >= limit)
      BY <1>3, <3>2, <3>3, <3>4
    <3> QED
      BY <3>1, <3>5 DEF Has
  <2> QED
    BY <1>5, <2>3, <2>4, <2>5
<1>7. ASSUME kind = "PaxZstd" PROVE l = m /\ Ok(p)
  <2>1. l = m
    BY <1>3, <1>6, <1>7
  <2>2. pos + 1 <= Len(data)
    BY <1>7 DEF ScanFinish, AtEnd, Has
  <2> QED
    BY <1>3, <1>4, <1>5, <1>7, <2>1, <2>2
<1>8. seen.complete => l = m
  BY <1>3, <1>6
<1>9. \A n \in 1 .. l : listed[n].file = taken[p][n] /\ (Framed => h[n + 1] <= Len(data))
  BY <1>1, <1>2 DEF Laid, Scanned
<1> QED
  BY <1>1, <1>2, <1>3, <1>7, <1>8, <1>9 DEF Scanned, Ok

(* And a complete archive can be read to its end.                          *)
LEMMA FailScanned ==
  ASSUME ScanInv, NEW p \in Packers, Made(p), NEW h, Laid(p, h), ScanFail
  PROVE  Scanned(p, h)'
<1>1. /\ UNCHANGED <<kind, data, made, seen, taken, result, limit>>
      /\ Framed' = Framed /\ scan = "items" /\ scan' = "done" /\ shown' # "items"
      /\ listed' = <<>> /\ (~broken' => ~AtEnd /\ ~Readable)
  BY DEF ScanFail, ScanEnd, FailsIf, packVars, Framed
<1> SUFFICES ASSUME seen.made = made PROVE Scanned(p, h)'
  BY <1>1 DEF Scanned
<1>2. PICK l, m : l = Len(listed) /\ m = Len(taken[p])
  OBVIOUS
<1>3. /\ l \in Nat /\ m \in Nat /\ l <= m /\ pos \in Nat /\ limit \in Nat
      /\ limit <= Len(data) /\ (seen.complete => Ok(p) /\ limit = Len(data))
      /\ pos = h[l + 1] /\ (Framed => pos <= Len(data))
      /\ l < m => /\ Entry(taken[p][l + 1], h[l + 2]) /\ h[l + 2] \in Nat
                  /\ h[l + 2] <= h[m + 1]
  BY <1>1, <1>2, Reached DEF ScanInv
<1>4. /\ Len(data) \in Nat /\ h[m + 1] \in Nat
      /\ Framed /\ Ok(p) => Len(data) = h[m + 1] + 1 /\ data[Len(data)] = Unit("Footer", 0)
      /\ ~Framed /\ Ok(p) => Len(data) = h[m + 1]
  BY <1>2, FileLength DEF ScanInv
<1>5. Types /\ kind \in {"Pax", "PaxLz4", "PaxZstd"} /\ (Framed <=> kind # "Pax")
  BY DEF ScanInv, Types, Kinds, Framed
<1>6. ASSUME seen.complete PROVE AtEnd \/ Readable
  <2>1. CASE l < m
    <3>1. PICK i, e : i = taken[p][l + 1] /\ e = h[l + 2]
      OBVIOUS
    <3>2. Entry(i, e) /\ e \in Nat /\ e <= h[m + 1]
      BY <1>3, <2>1, <3>1
    <3>3. CASE kind = "Pax"
      <4>1. e >= pos + 1 /\ (pos + 1 <= Len(data) => Has(pos + 1, "HeadData"))
        BY <1>3, <1>5, <3>2, <3>3, PaxEntry
      <4>2. pos + 1 <= Len(data)
        BY <1>3, <1>4, <1>5, <1>6, <3>2, <3>3, <4>1
      <4> QED
        BY <3>3, <4>1, <4>2 DEF Readable
    <3>4. CASE kind # "Pax"
      <4>1. /\ e >= pos + 3
            /\ pos + 1 <= Len(data) => data[pos + 1].file = i
            /\ e <= Len(data) => WholeHeader(pos)
            /\ HasContent(i) => e >= pos + 5 /\ (e <= Len(data) => e \in ContentEnds(pos + 3))
        BY <1>3, <1>5, <3>2, <3>4, FramedEntry
      <4>2. e <= Len(data) /\ e <= limit /\ pos + 1 <= Len(data)
        BY <1>3, <1>4, <1>5, <1>6, <3>2, <3>4, <4>1
      <4>3. pos + 3 <= limit /\ (HasContent(i) => pos + 5 <= limit)
        BY <1>3, <3>2, <4>1, <4>2
      <4>4. HasContent(data[pos + 1].file) => pos + 5 <= limit /\ ContentEnds(pos + 3) # {}
        BY <4>1, <4>2, <4>3
      <4> QED
        BY <3>4, <4>1, <4>2, <4>3, <4>4 DEF Readable
    <3> QED
      BY <3>3, <3>4
  <2>2. CASE l = m
    <3>1. pos = h[m + 1] /\ limit = Len(data) /\ Ok(p)
      BY <1>3, <1>6, <2>2
    <3>2. CASE kind = "Pax"
      BY <1>3, <1>4, <1>5, <3>1, <3>2 DEF AtEnd
    <3>3. CASE kind = "PaxLz4"
      BY <1>3, <1>4, <1>5, <3>1, <3>3 DEF AtEnd
    <3>4. CASE kind = "PaxZstd"
      <4>1. Len(data) = pos + 1 /\ data[Len(data)] = Unit("Footer", 0)
        BY <1>4, <1>5, <3>1, <3>4
      <4>2. pos + 1 \in 1 .. Len(data) /\ data[pos + 1] = Unit("Footer", 0)
        BY <1>3, <1>4, <4>1
      <4> QED
        BY <3>4, <4>2 DEF AtEnd, Has, Unit
    <3> QED
      BY <1>5, <3>2, <3>3, <3>4
  <2> QED
    BY <1>3, <2>1, <2>2
<1>7. ~(seen.complete /\ ~broken')
  BY <1>1, <1>6
<1>8. Len(listed') = 0 /\ Len(taken[p]) >= 0
  BY <1>1, <1>2, <1>3
<1>9. /\ limit' <= Len(data') /\ (seen'.complete => Ok(p)' /\ limit' = Len(data'))
      /\ Len(listed') <= Len(taken'[p])
      /\ \A n \in 1 .. Len(listed') :
           listed'[n].file = taken'[p][n] /\ (Framed' => h[n + 1] <= Len(data'))
  BY <1>1, <1>3, <1>8 DEF Ok
<1> QED
  BY <1>1, <1>7, <1>9 DEF Scanned

-----------------------------------------------------------------------------
LEMMA ScanLaid ==
  ASSUME ScanInv, Scan, NEW p \in Packers, Made(p)' PROVE \E h : Laid(p, h)'
<1>1. /\ UNCHANGED <<kind, data, made, pc, next, todo, taken, mine, result>> /\ Framed' = Framed
  BY ScanKeeps DEF ScanInv
<1>2. Made(p)
  BY <1>1 DEF Made, Maker
<1>3. PICK h : Laid(p, h)
  BY <1>2 DEF ScanInv
<1>4. Scanned(p, h)'
  BY <1>2, <1>3, BeginScanned, TypeScanned, OpenScanned, ItemScanned, FinishScanned, FailScanned DEF Scan
<1>5. Places(Framed, taken[p], h)' /\ Filled(Framed, taken[p], todo[p], Ok(p), h, data)'
  BY <1>1, <1>3 DEF Laid, Ok
<1> QED
  BY <1>4, <1>5 DEF Laid

LEMMA ScanStepTypes == ASSUME IInv, ScanInv, Scan PROVE ScanTypes'
<1>1. /\ data \in Seq(Units) /\ Len(data) \in Nat /\ made \in Nat
      /\ limit \in Nat /\ pos \in Nat /\ listed \in Seq([file : Numbers, at : Nat])
      /\ seen \in [made : Nat, complete : BOOLEAN]
      /\ scan \in {"idle", "type", "open", "items", "done"}
      /\ shown \in {"none", "items", "single", "error"} /\ broken \in BOOLEAN
  BY LenProperties DEF ScanInv, Types, ScanTypes, IInv, Shape
<1>2. <<>> \in Seq([file : Numbers, at : Nat])
  BY EmptySeq
<1>3. CASE ScanBegin
  BY <1>1, <1>2, <1>3 DEF ScanBegin, Completed, ScanTypes
<1>4. CASE ScanType
  BY <1>1, <1>2, <1>4 DEF ScanType, ScanEnd, FailsIf, Size, ScanTypes
<1>5. CASE ScanOpen
  <2>1. pos' \in Nat /\ (listed' = listed \/ listed' = <<>>)
    BY <1>1, <1>5 DEF ScanOpen, ScanEnd
  <2>2. /\ UNCHANGED <<limit, seen>> /\ broken' \in BOOLEAN
        /\ shown' \in {shown, "single", "error"} /\ scan' \in {"items", "done"}
    BY <1>1, <1>5 DEF ScanOpen, ScanEnd, FailsIf
  <2> QED
    BY <1>1, <1>2, <2>1, <2>2 DEF ScanTypes
<1>6. CASE ScanItem
  <2>1. PICK u, n : u = data[pos + 1] /\ n = pos + (IF Framed THEN 3 ELSE 1)
    OBVIOUS
  <2>2. u.file \in Numbers
    <3>1. u \in Units /\ (u.what = "HeadBegin" \/ u.what = "HeadData")
      <4>1. Has(pos + 1, "HeadBegin") \/ Has(pos + 1, "HeadData")
        BY <1>6 DEF ScanItem, Readable, WholeHeader
      <4> QED
        BY <1>1, <2>1, <4>1, ElementOfSeq DEF Has
    <3> QED
      BY <3>1 DEF Units, OfArchive
  <2>3. PICK z : z = IF HasContent(u.file) THEN AddList[u.file].size ELSE 0
    OBVIOUS
  <2>4. z \in Nat
    BY <2>2, <2>3, AddFact
  <2>5. pos' \in Nat
    <3>1. \/ pos' = pos + 1 + z \/ pos' = pos + 3
          \/ pos' \in ContentEnds(pos + 3)
      BY <1>6, <2>1, <2>3 DEF ScanItem, After
    <3>2. ContentEnds(pos + 3) \subseteq Nat
      BY <1>1 DEF ContentEnds
    <3> QED
      BY <1>1, <2>4, <3>1, <3>2
  <2>6. n \in Nat
    BY <1>1, <2>1
  <2>7. [file |-> u.file, at |-> n] \in [file : Numbers, at : Nat]
    BY <2>2, <2>6
  <2>8. listed' \in Seq([file : Numbers, at : Nat])
    <3>1. listed' = Append(listed, [file |-> u.file, at |-> n])
      BY <1>6, <2>1 DEF ScanItem
    <3> QED
      BY <1>1, <2>7, <3>1, AppendProperties
  <2> QED
    BY <1>1, <1>6, <2>5, <2>8 DEF ScanItem, ScanTypes
<1>7. CASE ScanFinish
  BY <1>1, <1>2, <1>7 DEF ScanFinish, ScanEnd, ScanTypes
<1>8. CASE ScanFail
  BY <1>1, <1>2, <1>8 DEF ScanFail, ScanEnd, FailsIf, ScanTypes
<1> QED
  BY <1>3, <1>4, <1>5, <1>6, <1>7, <1>8 DEF Scan

LEMMA ScanSingle == ASSUME IInv, ScanInv, Scan PROVE Single'
<1>1. UNCHANGED <<made, mine>> /\ made \in Nat
  BY ScanKeeps DEF ScanInv, IInv, Shape
<1>2. disk' = disk \/ disk' = "absent"
  BY DEF Scan, ScanBegin, ScanType, ScanOpen, ScanItem, ScanFinish, ScanFail, ScanEnd, LetGo, fileVars
<1>3. seen'.made <= made /\ seen'.made > 0
  <2>1. CASE ScanBegin
    BY <1>1, <2>1 DEF ScanBegin, ScanInv, Single
  <2>2. CASE ~ScanBegin
    <3>1. seen' = seen /\ scan # "idle"
      BY <2>2 DEF Scan, ScanType, ScanOpen, ScanItem, ScanFinish, ScanFail
    <3> QED
      BY <3>1 DEF ScanInv, Single
  <2> QED
    BY <2>1, <2>2
<1> QED
  BY <1>1, <1>2, <1>3 DEF ScanInv, Single

LEMMA ScanStepInv == ASSUME IInv, ScanInv, Scan PROVE ScanInv'
<1>1. Types' /\ UNCHANGED <<pc, next, todo, taken, result>>
  BY ScanKeeps DEF ScanInv
<1>2. Progress'
  BY <1>1 DEF ScanInv, Progress
<1> QED
  BY <1>1, <1>2, ScanStepTypes, ScanSingle, ScanLaid DEF ScanInv

LEMMA PackStepInv ==
  ASSUME IInv, ScanInv, NEW p \in Packers, Pack(p), UNCHANGED scanVars PROVE ScanInv'
<1>1. Types' /\ Single' /\ Progress'
  BY PackTypes, PackSingle, PackProgress DEF ScanInv
<1>2. ScanTypes'
  BY DEF ScanInv, ScanTypes, scanVars
<1> QED
  BY <1>1, <1>2, PackLaid DEF ScanInv

(* After a kill nothing is known of the file, and nobody completes it.     *)
LEMMA KillStepInv == ASSUME IInv, ScanInv, KillAll PROVE ScanInv'
<1>1. /\ UNCHANGED <<kind, data, made, next, todo, taken, mine, result>>
      /\ reading' = FALSE /\ seen' = [made |-> 0, complete |-> FALSE] /\ scan' = "idle"
      /\ limit' = 0 /\ pos' = 0 /\ listed' = <<>> /\ shown' = "none" /\ broken' = FALSE
      /\ disk' = disk \/ disk' = "absent"
      /\ pc' = [p \in Packers |-> IF pc[p] \in {"idle", "done"} THEN pc[p] ELSE "killed"]
  BY DEF KillAll, Kill
<1>2. Types'
  BY <1>1 DEF ScanInv, Types
<1>3. ScanTypes'
  BY <1>1, EmptySeq DEF ScanTypes
<1>4. made \in Nat
  BY DEF IInv, Shape
<1>5. Single'
  BY <1>1, <1>4 DEF ScanInv, Single
<1>6. Progress'
  BY <1>1 DEF ScanInv, Progress
<1>7. ASSUME NEW p \in Packers, Made(p)' PROVE \E h : Laid(p, h)'
  <2>1. Made(p) /\ made > 0
    BY <1>1, <1>7 DEF Made, Maker
  <2>2. PICK h : Laid(p, h)
    BY <2>1 DEF ScanInv
  <2>3. Places(Framed, taken[p], h)' /\ Filled(Framed, taken[p], todo[p], Ok(p), h, data)'
    BY <1>1, <2>2 DEF Laid, Ok, Framed
  <2>4. Scanned(p, h)'
    BY <1>1, <1>4, <2>1 DEF Scanned
  <2> QED
    BY <2>3, <2>4 DEF Laid
<1> QED
  BY <1>2, <1>3, <1>5, <1>6, <1>7 DEF ScanInv

LEMMA InitScanInv == InitScan => ScanInv
<1> SUFFICES ASSUME InitScan PROVE ScanInv
  OBVIOUS
<1>1. Types
  <2>1. /\ kind \in Kinds /\ data = <<>> /\ reading = FALSE
        /\ todo = [p \in Packers |-> <<>>] /\ taken = [p \in Packers |-> <<>>]
        /\ next = [p \in Packers |-> 1]
    BY DEF InitScan, Init
  <2>2. /\ <<>> \in Seq(Units) /\ <<>> \in Seq(Numbers) /\ 1 \in 1 .. Len(AddList) + 1
    BY EmptySeq, AddFact
  <2>3. /\ todo \in [Packers -> Seq(Units)] /\ taken \in [Packers -> Seq(Numbers)]
        /\ next \in [Packers -> 1 .. Len(AddList) + 1]
    BY <2>1, <2>2
  <2> QED
    BY <2>1, <2>2, <2>3 DEF Types
<1>2. ScanTypes
  BY EmptySeq DEF InitScan, ScanTypes
<1>3. \A p \in Packers : mine[p] = 0
  BY DEF InitScan, Init
<1>4. made = 0 /\ disk = "absent" /\ scan = "idle" /\ seen.made = 0
  BY DEF InitScan, Init
<1>5. Single
  BY <1>3, <1>4 DEF Single
<1>6. Progress
  BY DEF InitScan, Init, Progress
<1> QED
  BY <1>1, <1>2, <1>3, <1>5, <1>6 DEF ScanInv, Made

LEMMA NextStepInv == IInv /\ ScanInv /\ [Next]_vars => ScanInv'
<1> SUFFICES ASSUME IInv, ScanInv, [Next]_vars PROVE ScanInv'
  OBVIOUS
<1>1. CASE \E p \in Packers : Pack(p) /\ UNCHANGED scanVars
  BY <1>1, PackStepInv
<1>2. CASE Scan
  BY <1>2, ScanStepInv
<1>3. CASE KillAll
  BY <1>3, KillStepInv
<1>4. CASE UNCHANGED vars
  <2>1. /\ UNCHANGED <<kind, fileVars, reading, packVars, scanVars>>
        /\ UNCHANGED <<disk, data, made, owner>>
        /\ UNCHANGED <<pc, next, todo, taken, mine, delete, result>>
    BY <1>4 DEF vars, fileVars, packVars
  <2>2. Types' /\ Single' /\ Progress'
    BY <2>1 DEF ScanInv, Types, Single, Progress, scanVars
  <2>3. ScanTypes'
    BY <2>1 DEF ScanInv, ScanTypes, scanVars
  <2>4. ASSUME NEW p \in Packers, Made(p)' PROVE \E h : Laid(p, h)'
    <3>1. Made(p)
      BY <2>1, <2>4 DEF Made, Maker
    <3>2. PICK h : Laid(p, h)
      BY <3>1 DEF ScanInv
    <3> QED
      BY <2>1, <3>2, SameLaid DEF Ok
  <2> QED
    BY <2>2, <2>3, <2>4 DEF ScanInv
<1> QED
  BY <1>1, <1>2, <1>3, <1>4 DEF Next, Scan

(* Where every unit of the archive is, how far a scan has come and what it *)
(* may have concluded are kept by every step of a packer, a scan or a kill.*)
THEOREM ScanInvariance == Spec => [](IInv /\ ScanInv)
<1>1. InitScan => IInv /\ ScanInv
  BY InitInv, InitScanInv
<1>2. IInv /\ ScanInv /\ [Next]_vars => IInv' /\ ScanInv'
  BY NextStep, NextStepInv
<1> QED
  BY <1>1, <1>2, PTL DEF Spec

-----------------------------------------------------------------------------
(* What the scan has concluded of the file that is there.                  *)
LEMMA Concluded ==
  ASSUME IInv, ScanInv, Undisturbed, NEW p \in Packers, Maker(p)
  PROVE  /\ \E h : Laid(p, h)
         /\ taken[p] \in Seq(Numbers) /\ Files(listed) \in Seq(Numbers)
         /\ Len(Files(listed)) = Len(listed) /\ Len(listed) <= Len(taken[p])
         /\ \A n \in 1 .. Len(listed) : Files(listed)[n] = taken[p][n]
         /\ kind = "PaxZstd" /\ shown = "items" => Len(listed) = Len(taken[p]) /\ Ok(p)
         /\ seen.complete /\ ~broken /\ (Framed \/ taken[p] # <<>>) =>
              shown = "items" /\ Len(listed) = Len(taken[p])
<1>1. Made(p)
  BY DEF ScanInv, Single, Undisturbed, Made, Maker
<1>2. PICK h : Laid(p, h)
  BY <1>1 DEF ScanInv
<1>3. /\ Len(listed) <= Len(taken[p])
      /\ \A n \in 1 .. Len(listed) : listed[n].file = taken[p][n]
      /\ kind = "PaxZstd" /\ shown = "items" => Len(listed) = Len(taken[p]) /\ Ok(p)
      /\ seen.complete /\ ~broken /\ (Framed \/ taken[p] # <<>>) =>
           shown = "items" /\ Len(listed) = Len(taken[p])
  BY <1>2 DEF Laid, Scanned, Undisturbed
<1>4. PICK z : z = Len(listed)
  OBVIOUS
<1>5. z \in Nat /\ taken[p] \in Seq(Numbers) /\ \A n \in 1 .. z : listed[n] \in [file : Numbers, at : Nat]
  <2>1. listed \in Seq([file : Numbers, at : Nat]) /\ taken[p] \in Seq(Numbers)
    BY DEF ScanInv, ScanTypes, Types
  <2> QED
    BY <1>4, <2>1, LenProperties, ElementOfSeq
<1>6. Files(listed) = [n \in 1 .. z |-> listed[n].file]
  BY <1>4 DEF Files
<1>7. Files(listed) \in [1 .. z -> Numbers]
  BY <1>5, <1>6
<1>8. Files(listed) \in Seq(Numbers) /\ Len(Files(listed)) = z
  BY <1>5, <1>7
<1>9. \A n \in 1 .. z : Files(listed)[n] = taken[p][n]
  BY <1>3, <1>4, <1>6
<1> QED
  BY <1>2, <1>3, <1>4, <1>5, <1>8, <1>9

LEMMA SameSeq ==
  ASSUME NEW S, NEW a \in Seq(S), NEW b \in Seq(S), Len(a) = Len(b),
         \A n \in 1 .. Len(a) : a[n] = b[n]
  PROVE  a = b
  BY SeqEqual

(* A PAXZ archive whose items are shown is complete, and all of them are   *)
(* shown: the scanner looks for the footer, which pack_files writes last.  *)
THEOREM PaxzWhole == Spec => []PaxzAllOrNothing
<1>1. ASSUME IInv, ScanInv PROVE PaxzAllOrNothing
  <2> SUFFICES ASSUME Undisturbed, kind = "PaxZstd", shown = "items", NEW p \in Packers, Maker(p)
               PROVE  Files(listed) = taken[p] /\ next[p] > Len(AddList)
    BY DEF PaxzAllOrNothing
  <2>1. /\ taken[p] \in Seq(Numbers) /\ Files(listed) \in Seq(Numbers)
        /\ Len(Files(listed)) = Len(taken[p]) /\ Ok(p)
        /\ \A n \in 1 .. Len(Files(listed)) : Files(listed)[n] = taken[p][n]
    BY <1>1, Concluded
  <2>2. Files(listed) = taken[p]
    BY <2>1, SameSeq
  <2>3. next[p] > Len(AddList)
    BY <1>1, <2>1 DEF ScanInv, Progress, Ok
  <2> QED
    BY <2>2, <2>3
<1> QED
  BY <1>1, ScanInvariance, PTL

(* An archive complete when cache::init began, whatever its compression,   *)
(* is listed as it was packed, unless a read failed.                       *)
THEOREM PackedIsListed == Spec => []CompleteIsListed
<1>1. ASSUME IInv, ScanInv PROVE CompleteIsListed
  <2> SUFFICES ASSUME Undisturbed, seen.complete, ~broken, NEW p \in Packers, Maker(p),
                      Framed \/ taken[p] # <<>>
               PROVE  shown = "items" /\ Files(listed) = taken[p]
    BY DEF CompleteIsListed
  <2>1. /\ taken[p] \in Seq(Numbers) /\ Files(listed) \in Seq(Numbers) /\ shown = "items"
        /\ Len(Files(listed)) = Len(taken[p])
        /\ \A n \in 1 .. Len(Files(listed)) : Files(listed)[n] = taken[p][n]
    BY <1>1, Concluded
  <2>2. Files(listed) = taken[p]
    BY <2>1, SameSeq
  <2> QED
    BY <2>1, <2>2
<1> QED
  BY <1>1, ScanInvariance, PTL

(* What is shown of a framed archive, complete or not, is the beginning of *)
(* what was packed, and the content of every item shown is all there.      *)
THEOREM ShownIsWhole == Spec => []ListedIsWhole
<1>1. ASSUME IInv, ScanInv PROVE ListedIsWhole
  <2> SUFFICES ASSUME Undisturbed, Framed, shown = "items"
               PROVE  /\ \A p \in Packers : Maker(p) => IsPrefix(Files(listed), taken[p])
                      /\ \A i \in Range(Files(listed)) :
                           HasContent(i) => \E n \in 1 .. Len(data) : data[n] = Unit("End", i)
    BY DEF ListedIsWhole
  <2>1. ASSUME NEW p \in Packers, Maker(p) PROVE IsPrefix(Files(listed), taken[p])
    <3>1. PICK a, b, z : a = Files(listed) /\ b = taken[p] /\ z = Len(a)
      OBVIOUS
    <3>2. /\ a \in Seq(Numbers) /\ b \in Seq(Numbers) /\ z \in Nat /\ Len(b) \in Nat
          /\ z <= Len(b) /\ \A n \in 1 .. z : a[n] = b[n]
      BY <1>1, <2>1, <3>1, Concluded, LenProperties
    <3>3. PICK x, y : x = SubSeq(a, 1, z) /\ y = SubSeq(b, 1, z)
      OBVIOUS
    <3>4. x \in Seq(Numbers) /\ Len(x) = z /\ \A n \in 1 .. z : x[n] = a[n]
      BY <3>1, <3>2, <3>3
    <3>5. y \in Seq(Numbers) /\ Len(y) = z /\ \A n \in 1 .. z : y[n] = b[n]
      BY <3>1, <3>2, <3>3
    <3>6. x = y
      BY <3>2, <3>4, <3>5, SameSeq
    <3> QED
      BY <3>1, <3>2, <3>3, <3>6 DEF IsPrefix
  <2>2. ASSUME NEW i \in Range(Files(listed)), HasContent(i)
        PROVE  \E n \in 1 .. Len(data) : data[n] = Unit("End", i)
    <3>1. PICK p \in Packers : Maker(p)
      <4>1. made \in Nat /\ made > 0
        BY <1>1 DEF IInv, Shape, ScanInv, Single, Undisturbed
      <4>2. made \in 1 .. made
        BY <4>1
      <4> QED
        BY <1>1, <4>2 DEF ScanInv, Single, Maker
    <3>2. PICK h : Laid(p, h)
      BY <1>1, <3>1, Concluded
    <3>3. /\ Len(listed) \in Nat /\ Len(taken[p]) \in Nat /\ Len(listed) <= Len(taken[p])
          /\ taken[p] \in Seq(Numbers)
          /\ \A n \in 1 .. Len(listed) : Files(listed)[n] = taken[p][n]
      BY <1>1, <3>1, Concluded, LenProperties DEF ScanInv, ScanTypes
    <3>4. PICK k \in 1 .. Len(listed) : i = Files(listed)[k]
      BY DEF Range, Files
    <3>5. /\ k \in 0 .. Len(taken[p]) /\ i = taken[p][k] /\ i \in Numbers
          /\ File(taken[p], k) = i
      <4>1. k \in 1 .. Len(taken[p]) /\ k \in 0 .. Len(taken[p])
        BY <3>3
      <4>2. i = taken[p][k]
        BY <3>3, <3>4
      <4>3. File(taken[p], k) = taken[p][k] /\ taken[p][k] \in Numbers
        BY <3>3, <4>1, FileFact
      <4> QED
        BY <4>1, <4>2, <4>3
    <3>6. h[k + 1] <= Len(data)
      BY <3>2, <3>4 DEF Laid, Scanned, Undisturbed
    <3>7. PICK s, z : s = AddList[i].size /\ z = SizeIn(TRUE, i)
      OBVIOUS
    <3>8. s \in Nat /\ z = 5 + s
      BY <2>2, <3>5, <3>7, EntrySize
    <3>9. /\ h[k] \in Nat /\ h[k + 1] \in Nat /\ h[k + 1] = h[k] + z
          /\ \A j \in 1 .. z : h[k] + j <= Len(data) => data[h[k] + j] = DataAt(TRUE, i, j)
      <4>1. Framed = TRUE /\ Types
        BY <1>1 DEF Framed, ScanInv
      <4>2. /\ h[k] \in Nat /\ h[k + 1] \in Nat
            /\ h[k + 1] = h[k] + SizeIn(Framed, File(taken[p], k))
            /\ \A j \in 1 .. SizeIn(Framed, File(taken[p], k)) :
                 h[k] + j <= Len(data) => data[h[k] + j] = DataAt(Framed, File(taken[p], k), j)
        BY <3>2, <3>5, <4>1, EntryThere
      <4>3. SizeIn(Framed, File(taken[p], k)) = z
        BY <3>5, <3>7, <4>1
      <4> QED
        BY <3>5, <4>1, <4>2, <4>3
    <3>10. Len(data) \in Nat
      BY <1>1, LenProperties DEF ScanInv, Types
    <3>11. z \in 1 .. z /\ h[k] + z \in 1 .. Len(data)
      BY <3>6, <3>8, <3>9, <3>10
    <3>12. data[h[k] + z] = DataAt(TRUE, i, z)
      <4>1. h[k] + z <= Len(data)
        BY <3>11
      <4> QED
        BY <3>9, <3>11, <4>1
    <3>13. DataAt(TRUE, i, 5 + s) = Unit("End", i)
      BY <2>2, <3>5, <3>7, FrameUnits
    <3> QED
      BY <3>8, <3>11, <3>12, <3>13
  <2> QED
    BY <2>1, <2>2
<1> QED
  BY <1>1, ScanInvariance, PTL

(* The state of packers, file and scan stays well formed, and the archive  *)
(* is not created more often than there are packers.                       *)
THEOREM ScanTypeCorrect == Spec => []TypeOK
<1>1. ASSUME IInv, ScanInv PROVE TypeOK
  <2>1. made \in 0 .. Cardinality(Packers)
    <3>1. made \in Nat /\ mine \in [Packers -> Nat] /\ \A p \in Packers : mine[p] <= made
      BY <1>1 DEF IInv, Shape, Creations
    <3>2. PICK S : S = {p \in Packers : mine[p] \in 1 .. made}
      OBVIOUS
    <3>3. PICK f : f = [p \in S |-> mine[p]]
      OBVIOUS
    <3>4. f \in Surjection(S, 1 .. made)
      <4>1. f \in [S -> 1 .. made]
        BY <3>2, <3>3
      <4>2. ASSUME NEW n \in 1 .. made PROVE \E p \in S : f[p] = n
        <5>1. PICK p \in Packers : mine[p] = n
          BY <1>1 DEF ScanInv, Single
        <5> QED
          BY <3>2, <3>3, <5>1
      <4> QED
        BY <4>1, <4>2 DEF Surjection
    <3>5. IsFiniteSet(S) /\ Cardinality(S) <= Cardinality(Packers)
      BY <3>2, PackAssumption, FS_Subset
    <3>6. Cardinality(1 .. made) <= Cardinality(S)
      BY <3>4, <3>5, FS_Surjection
    <3>7. Cardinality(1 .. made) = made
      BY <3>1, FS_Interval
    <3>8. Cardinality(S) \in Nat /\ Cardinality(Packers) \in Nat
      BY <3>5, PackAssumption, FS_CardinalityType
    <3> QED
      BY <3>1, <3>5, <3>6, <3>7, <3>8
  <2>2. \A n \in 1 .. Len(data) : data[n].file \in 0 .. Len(AddList)
    <3>1. data \in Seq(Units) /\ Len(AddList) \in Nat
      BY <1>1, AddFact DEF ScanInv, Types
    <3>2. \A n \in 1 .. Len(data) : data[n] \in Units
      BY <3>1, ElementOfSeq
    <3>3. \A u \in Units : u.file \in 0 .. Len(AddList)
      BY <3>1 DEF Units, Numbers
    <3> QED
      BY <3>2, <3>3
  <2>3. /\ kind \in Kinds /\ disk \in {"absent", "present", "pending"} /\ reading \in BOOLEAN
        /\ owner \in Packers \cup {None}
    BY <1>1 DEF IInv, Shape, ScanInv, Types
  <2>4. ASSUME NEW p \in Packers
        PROVE  /\ pc[p] \in {"idle", "create", "pack", "leave", "done", "killed"}
               /\ next[p] \in 1 .. Len(AddList) + 1 /\ mine[p] \in 0 .. made
               /\ delete[p] \in BOOLEAN /\ result[p] \in {"none", "ok", "error", "cancel"}
    BY <1>1 DEF IInv, Shape, Creations, ScanInv, Types
  <2>5. /\ scan \in {"idle", "type", "open", "items", "done"} /\ limit \in Nat /\ pos \in Nat
        /\ shown \in {"none", "items", "single", "error"} /\ broken \in BOOLEAN
    BY <1>1 DEF ScanInv, ScanTypes
  <2> QED
    BY <2>1, <2>2, <2>3, <2>4, <2>5 DEF TypeOK
<1> QED
  BY <1>1, ScanInvariance, PTL

=============================================================================
