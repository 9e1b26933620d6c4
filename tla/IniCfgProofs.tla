---------------------------- MODULE IniCfgProofs ----------------------------
(* The configuration, proved for any processes, readers and values of the  *)
(* settings: the reader-writer lock makes cfg::assign, four assignments,   *)
(* one step; the setters keep every setting legal and the dialog keeps     *)
(* what it was not told to change; a load undoes a save.                   *)
EXTENDS IniCfg, TLAPS, WellFoundedInduction

(* What an entry of a function is after an EXCEPT.                         *)
LEMMA Except ==
  ASSUME NEW S, NEW f, f = [x \in S |-> f[x]], NEW g, NEW a \in S, NEW v,
         g = [f EXCEPT ![a] = v]
  PROVE  /\ g = [x \in S |-> g[x]]
         /\ g[a] = v
         /\ \A x \in S : x # a => g[x] = f[x]
<1>1. g = [x \in S |-> IF x = a THEN v ELSE f[x]]
  BY Zenon
<1> QED
  BY <1>1

(* The order of cfg::assign has every setting, once.                       *)
LEMMA OrderIsComplete ==
  /\ Len(AssignOrder) = 4 /\ Len(Order) = 4
  /\ \A i \in 1 .. 4 : AssignOrder[i] \in Keys /\ Order[i] \in Keys
  /\ \A k \in Keys : \E i \in 1 .. 4 : k = AssignOrder[i]
  /\ \A i, j \in 1 .. 4 : AssignOrder[i] = AssignOrder[j] => i = j
<1>1. /\ AssignOrder[1] = "CompressionLevel" /\ AssignOrder[2] = "FileTimeFlags"
      /\ AssignOrder[3] = "FileAttrFlags" /\ AssignOrder[4] = "CacheLifetime"
      /\ Order[1] = "CompressionLevel" /\ Order[2] = "CacheLifetime"
      /\ Order[3] = "FileTimeFlags" /\ Order[4] = "FileAttrFlags"
      /\ Len(AssignOrder) = 4 /\ Len(Order) = 4
  BY DEF AssignOrder, Order
<1>2. \A i \in 1 .. 4 : i = 1 \/ i = 2 \/ i = 3 \/ i = 4
  OBVIOUS
<1> QED
  BY <1>1, <1>2 DEF Keys

-----------------------------------------------------------------------------
(* Settings, whatever their values.                                        *)
IsSettings(c) == c = [k \in Keys |-> c[k]]

Shape ==
  /\ cfg = [p \in Procs |-> cfg[p]] /\ dlg = [p \in Procs |-> dlg[p]]
  /\ pc = [p \in Procs |-> pc[p]] /\ at = [p \in Procs |-> at[p]]
  /\ whole = [p \in Procs |-> whole[p]]
  /\ \A p \in Procs : IsSettings(cfg[p]) /\ IsSettings(dlg[p]) /\ at[p] \in Nat \ {0}
  /\ \A r \in Readers : rdr[r].at \in Nat /\ IsSettings(rdr[r].copy)
  /\ rdr = [r \in Readers |-> [at |-> rdr[r].at, copy |-> rdr[r].copy]]

Assigning(p) == pc[p] \in {"assign", "commit"}

(* The first settings, in the order of cfg::assign, are the same in both.  *)
Agree(c, d, n) == \A i \in 1 .. 4 : i < n => c[AssignOrder[i]] = d[AssignOrder[i]]

(* What m_cfg is, between two assignments and in the middle of one.        *)
CfgParts ==
  \A p \in Procs :
    /\ ~Assigning(p) => cfg[p] \in whole[p]
    /\ Assigning(p) => at[p] <= 4 /\ Agree(cfg[p], dlg[p], at[p])

(* What a reader has copied is still in m_cfg, for nobody can assign to    *)
(* it meanwhile.                                                           *)
CopyParts ==
  \A r \in Readers :
    Copying(r) => /\ ~Locked(ProcOf[r])
                  /\ Agree(rdr[r].copy, cfg[ProcOf[r]], rdr[r].at)

IInv == Shape /\ CfgParts /\ CopyParts /\ NoTornCopy

(* Settings that agree in everything are the same.                         *)
LEMMA AgreeAll ==
  ASSUME NEW c, NEW d, IsSettings(c), IsSettings(d), Agree(c, d, 5)
  PROVE  c = d
<1>1. \A i \in 1 .. 4 : c[AssignOrder[i]] = d[AssignOrder[i]]
  BY DEF Agree
<1>2. \A k \in Keys : c[k] = d[k]
  BY <1>1, OrderIsComplete
<1> QED
  BY <1>2 DEF IsSettings

(* One more assignment, and one more setting agrees.                       *)
LEMMA AgreeMore ==
  ASSUME NEW c, NEW d, IsSettings(c), NEW n \in 1 .. 4, Agree(c, d, n), NEW e,
         e = [c EXCEPT ![AssignOrder[n]] = d[AssignOrder[n]]]
  PROVE  IsSettings(e) /\ Agree(e, d, n + 1)
<1>1. AssignOrder[n] \in Keys
  BY OrderIsComplete
<1>2. e = [k \in Keys |-> IF k = AssignOrder[n] THEN d[AssignOrder[n]] ELSE c[k]]
  BY <1>1, Zenon DEF IsSettings
<1>3. IsSettings(e)
  BY <1>2 DEF IsSettings
<1>4. ASSUME NEW i \in 1 .. 4, i < n + 1 PROVE e[AssignOrder[i]] = d[AssignOrder[i]]
  <2>1. AssignOrder[i] \in Keys
    BY OrderIsComplete
  <2>2. CASE i = n
    BY <1>2, <2>1, <2>2
  <2>3. CASE i # n
    <3>1. i < n /\ AssignOrder[i] # AssignOrder[n]
      BY <1>4, <2>3, OrderIsComplete
    <3> QED
      BY <1>2, <2>1, <3>1 DEF Agree
  <2> QED
    BY <2>2, <2>3
<1> QED
  BY <1>3, <1>4 DEF Agree

LEMMA DefaultsAreSettings == IsSettings(Defaults)
  BY DEF IsSettings, Defaults, Keys

LEMMA InitInv == Init => IInv
<1> SUFFICES ASSUME Init PROVE IInv
  OBVIOUS
<1>1. IsSettings(Defaults)
  BY DefaultsAreSettings
<1>2. /\ cfg = [p \in Procs |-> Defaults] /\ dlg = [p \in Procs |-> Defaults]
      /\ pc = [p \in Procs |-> "off"] /\ at = [p \in Procs |-> 1]
      /\ whole = [p \in Procs |-> {Defaults}]
      /\ rdr = [r \in Readers |-> [at |-> 0, copy |-> Defaults]]
  BY DEF Init
<1>3. Shape
  BY <1>1, <1>2 DEF Shape
<1>4. CfgParts
  BY <1>2 DEF CfgParts, Assigning
<1>5. CopyParts /\ NoTornCopy
  BY <1>2, OrderIsComplete DEF CopyParts, NoTornCopy, Copying
<1> QED
  BY <1>3, <1>4, <1>5 DEF IInv

-----------------------------------------------------------------------------
(* A step of a process that leaves m_cfg alone, outside an assignment, and *)
(* takes the lock only if nobody copies.                                   *)
LEMMA QuietStep ==
  ASSUME IInv, NEW p \in Procs, UNCHANGED <<cfg, whole, rdr>>, ~Assigning(p),
         NEW x, pc' = [pc EXCEPT ![p] = x],
         NEW n \in Nat \ {0}, at' = [at EXCEPT ![p] = n],
         NEW d, IsSettings(d), dlg' = [dlg EXCEPT ![p] = d],
         x \in {"assign", "commit"} => n = 1,
         \/ x \notin {"assign", "commit", "check", "save"}
         \/ Locked(p)
         \/ \A r \in Readers : ProcOf[r] = p => ~Copying(r)
  PROVE  IInv'
<1>1. /\ pc' = [q \in Procs |-> pc'[q]] /\ pc'[p] = x
      /\ \A q \in Procs : q # p => pc'[q] = pc[q]
  <2>1. pc = [q \in Procs |-> pc[q]]
    BY DEF IInv, Shape
  <2> QED
    BY <2>1, Except
<1>2. /\ at' = [q \in Procs |-> at'[q]] /\ at'[p] = n
      /\ \A q \in Procs : q # p => at'[q] = at[q]
  <2>1. at = [q \in Procs |-> at[q]]
    BY DEF IInv, Shape
  <2> QED
    BY <2>1, Except
<1>3. /\ dlg' = [q \in Procs |-> dlg'[q]] /\ dlg'[p] = d
      /\ \A q \in Procs : q # p => dlg'[q] = dlg[q]
  <2>1. dlg = [q \in Procs |-> dlg[q]]
    BY DEF IInv, Shape
  <2> QED
    BY <2>1, Except
<1>4. Shape'
  BY <1>1, <1>2, <1>3 DEF IInv, Shape, IsSettings
<1>5. CfgParts'
  <2> SUFFICES ASSUME NEW q \in Procs
               PROVE  /\ ~Assigning(q)' => cfg[q] \in whole[q]
                      /\ Assigning(q)' => at'[q] <= 4 /\ Agree(cfg[q], dlg'[q], at'[q])
    BY DEF CfgParts
  <2>1. CASE q = p
    BY <1>1, <1>2, <2>1 DEF IInv, CfgParts, Assigning, Agree
  <2>2. CASE q # p
    BY <1>1, <1>2, <1>3, <2>2 DEF IInv, CfgParts, Assigning
  <2> QED
    BY <2>1, <2>2
<1>6. CopyParts'
  <2> SUFFICES ASSUME NEW r \in Readers, Copying(r)
               PROVE  ~Locked(ProcOf[r])' /\ Agree(rdr[r].copy, cfg[ProcOf[r]], rdr[r].at)
    BY DEF CopyParts, Copying
  <2>1. ~Locked(ProcOf[r]) /\ Agree(rdr[r].copy, cfg[ProcOf[r]], rdr[r].at)
    BY DEF IInv, CopyParts
  <2>2. ProcOf[r] \in Procs
    BY CfgAssumption
  <2> QED
    BY <1>1, <2>1, <2>2 DEF Locked
<1>7. NoTornCopy'
  BY DEF IInv, NoTornCopy
<1> QED
  BY <1>4, <1>5, <1>6, <1>7 DEF IInv

(* Nothing that the copies rest on changes.                                *)
LEMMA StillStep ==
  ASSUME IInv, UNCHANGED <<cfg, whole, rdr, pc, at, dlg>> PROVE IInv'
<1>1. Shape' /\ NoTornCopy'
  BY DEF IInv, Shape, NoTornCopy
<1>2. CfgParts' /\ CopyParts'
  BY DEF IInv, CfgParts, Assigning, CopyParts, Copying, Locked
<1> QED
  BY <1>1, <1>2 DEF IInv

LEMMA AssignFieldStep ==
  ASSUME IInv, NEW p \in Procs, AssignField(p) PROVE IInv'
<1> DEFINE n == at[p]
<1> DEFINE c == [cfg[p] EXCEPT ![AssignOrder[n]] = dlg[p][AssignOrder[n]]]
<1> DEFINE last == n = 4
<1>0. /\ cfg = [q \in Procs |-> cfg[q]] /\ pc = [q \in Procs |-> pc[q]]
      /\ at = [q \in Procs |-> at[q]] /\ whole = [q \in Procs |-> whole[q]]
      /\ IsSettings(cfg[p]) /\ IsSettings(dlg[p])
  BY DEF IInv, Shape
<1>1. n \in 1 .. 4 /\ Agree(cfg[p], dlg[p], n) /\ Assigning(p)
  BY DEF IInv, Shape, CfgParts, AssignField, Assigning
<1>2. IsSettings(c) /\ Agree(c, dlg[p], n + 1)
  BY <1>0, <1>1, AgreeMore
<1>3. last => c = dlg[p]
  BY <1>0, <1>2, AgreeAll
<1>4. cfg' = [cfg EXCEPT ![p] = c]
  BY DEF AssignField
<1>5. /\ cfg' = [q \in Procs |-> cfg'[q]] /\ cfg'[p] = c
      /\ \A q \in Procs : q # p => cfg'[q] = cfg[q]
  <2> HIDE DEF c
  <2> QED
    BY <1>0, <1>4, Except
<1>6. PICK x : /\ pc' = [pc EXCEPT ![p] = x]
               /\ ~last => x = pc[p]
               /\ last => x \notin {"assign", "commit"}
  <2> DEFINE y == IF ~last THEN pc[p] ELSE IF pc[p] = "assign" THEN "loaded" ELSE "check"
  <2>1. pc' = [pc EXCEPT ![p] = y]
    BY OrderIsComplete DEF AssignField
  <2>2. (~last => y = pc[p]) /\ (last => y \notin {"assign", "commit"})
    OBVIOUS
  <2> HIDE DEF y
  <2> QED
    BY <2>1, <2>2
<1>7. /\ pc' = [q \in Procs |-> pc'[q]] /\ pc'[p] = x
      /\ \A q \in Procs : q # p => pc'[q] = pc[q]
  BY <1>0, <1>6, Except
<1>8. at' = [at EXCEPT ![p] = IF last THEN 1 ELSE n + 1]
  BY OrderIsComplete DEF AssignField
<1>9. /\ at' = [q \in Procs |-> at'[q]] /\ at'[p] = IF last THEN 1 ELSE n + 1
      /\ \A q \in Procs : q # p => at'[q] = at[q]
  BY <1>0, <1>8, Except
<1>10. whole' = [whole EXCEPT ![p] = IF last THEN whole[p] \cup {dlg[p]} ELSE whole[p]]
  BY OrderIsComplete DEF AssignField
<1>11. /\ whole' = [q \in Procs |-> whole'[q]]
       /\ whole'[p] = IF last THEN whole[p] \cup {dlg[p]} ELSE whole[p]
       /\ \A q \in Procs : q # p => whole'[q] = whole[q]
  BY <1>0, <1>10, Except
<1>12. dlg' = dlg /\ rdr' = rdr
  BY DEF AssignField
<1>13. Shape'
  <2> HIDE DEF c
  <2>1. \A q \in Procs : IsSettings(cfg'[q]) /\ IsSettings(dlg'[q]) /\ at'[q] \in Nat \ {0}
    <3> SUFFICES ASSUME NEW q \in Procs
                 PROVE  IsSettings(cfg'[q]) /\ IsSettings(dlg'[q]) /\ at'[q] \in Nat \ {0}
      OBVIOUS
    <3>1. IsSettings(cfg[q]) /\ IsSettings(dlg[q]) /\ at[q] \in Nat \ {0}
      BY DEF IInv, Shape
    <3>2. CASE q = p
      BY <1>1, <1>2, <1>5, <1>9, <1>12, <3>1, <3>2
    <3>3. CASE q # p
      BY <1>5, <1>9, <1>12, <3>1, <3>3
    <3> QED
      BY <3>2, <3>3
  <2>2. \A r \in Readers : rdr'[r].at \in Nat /\ IsSettings(rdr'[r].copy)
    BY <1>12 DEF IInv, Shape
  <2>3. /\ rdr' = [r \in Readers |-> [at |-> rdr'[r].at, copy |-> rdr'[r].copy]]
        /\ dlg' = [q \in Procs |-> dlg'[q]]
    BY <1>12 DEF IInv, Shape
  <2> QED
    BY <1>5, <1>7, <1>9, <1>11, <2>1, <2>2, <2>3 DEF Shape
<1>14. CfgParts'
  <2> SUFFICES ASSUME NEW q \in Procs
               PROVE  /\ ~Assigning(q)' => cfg'[q] \in whole'[q]
                      /\ Assigning(q)' => at'[q] <= 4 /\ Agree(cfg'[q], dlg[q], at'[q])
    BY <1>12 DEF CfgParts
  <2> HIDE DEF c
  <2>1. CASE q # p
    BY <1>5, <1>7, <1>9, <1>11, <2>1 DEF IInv, CfgParts, Assigning
  <2>2. CASE q = p /\ last
    BY <1>3, <1>5, <1>6, <1>7, <1>11, <2>2 DEF Assigning
  <2>3. CASE q = p /\ ~last
    BY <1>1, <1>2, <1>5, <1>6, <1>7, <1>9, <2>3 DEF Assigning
  <2> QED
    BY <2>1, <2>2, <2>3
<1>15. CopyParts'
  <2> SUFFICES ASSUME NEW r \in Readers, Copying(r)
               PROVE  ~Locked(ProcOf[r])' /\ Agree(rdr[r].copy, cfg'[ProcOf[r]], rdr[r].at)
    BY <1>12 DEF CopyParts, Copying
  <2>1. ~Locked(ProcOf[r]) /\ Agree(rdr[r].copy, cfg[ProcOf[r]], rdr[r].at)
    BY DEF IInv, CopyParts
  <2>2. ProcOf[r] \in Procs /\ ProcOf[r] # p
    BY <1>1, <2>1, CfgAssumption DEF Assigning, Locked
  <2> QED
    BY <1>5, <1>7, <2>1, <2>2 DEF Locked
<1>16. NoTornCopy'
  <2>1. \A q \in Procs : whole[q] \subseteq whole'[q]
    BY <1>11
  <2> QED
    BY <1>12, <2>1, CfgAssumption DEF IInv, NoTornCopy
<1> QED
  BY <1>13, <1>14, <1>15, <1>16 DEF IInv

-----------------------------------------------------------------------------
(* The readers.                                                            *)
LEMMA BeginCopyStep ==
  ASSUME IInv, NEW r \in Readers, BeginCopy(r) PROVE IInv'
<1>1. /\ rdr' = [rdr EXCEPT ![r] = [at |-> 1, copy |-> rdr[r].copy]]
      /\ rdr = [q \in Readers |-> rdr[q]]
      /\ ~Locked(ProcOf[r])
      /\ UNCHANGED <<cfg, whole, pc, at, dlg>>
  BY DEF IInv, Shape, BeginCopy
<1>2. /\ rdr' = [q \in Readers |-> rdr'[q]]
      /\ rdr'[r] = [at |-> 1, copy |-> rdr[r].copy]
      /\ \A q \in Readers : q # r => rdr'[q] = rdr[q]
  BY <1>1, Except
<1>3. Shape'
  BY <1>1, <1>2 DEF IInv, Shape
<1>4. CfgParts'
  BY <1>1 DEF IInv, CfgParts, Assigning
<1>5. CopyParts'
  <2> SUFFICES ASSUME NEW q \in Readers, Copying(q)'
               PROVE  ~Locked(ProcOf[q]) /\ Agree(rdr'[q].copy, cfg[ProcOf[q]], rdr'[q].at)
    BY <1>1 DEF CopyParts, Locked
  <2>1. CASE q = r
    BY <1>1, <1>2, <2>1 DEF Agree
  <2>2. CASE q # r
    BY <1>2, <2>2 DEF IInv, CopyParts, Copying
  <2> QED
    BY <2>1, <2>2
<1>6. NoTornCopy'
  BY <1>1, <1>2, OrderIsComplete DEF IInv, NoTornCopy
<1> QED
  BY <1>3, <1>4, <1>5, <1>6 DEF IInv

LEMMA CopyFieldStep ==
  ASSUME IInv, NEW r \in Readers, CopyField(r) PROVE IInv'
<1> DEFINE n == rdr[r].at
<1> DEFINE m == cfg[ProcOf[r]]
<1> DEFINE c == [rdr[r].copy EXCEPT ![AssignOrder[n]] = m[AssignOrder[n]]]
<1>0. /\ rdr = [q \in Readers |-> rdr[q]] /\ n \in 1 .. 4 /\ ProcOf[r] \in Procs
      /\ rdr[r] = [at |-> n, copy |-> rdr[r].copy]
      /\ IsSettings(rdr[r].copy) /\ IsSettings(m) /\ Copying(r)
  BY OrderIsComplete, CfgAssumption DEF IInv, Shape, CopyField, Copying
<1>1. ~Locked(ProcOf[r]) /\ Agree(rdr[r].copy, m, n)
  BY <1>0 DEF IInv, CopyParts
<1>2. IsSettings(c) /\ Agree(c, m, n + 1)
  BY <1>0, <1>1, AgreeMore
<1>3. /\ rdr' = [rdr EXCEPT ![r] = [at |-> n + 1, copy |-> c]]
      /\ UNCHANGED <<cfg, whole, pc, at, dlg>>
  BY <1>0 DEF CopyField
<1>4. /\ rdr' = [q \in Readers |-> rdr'[q]]
      /\ rdr'[r] = [at |-> n + 1, copy |-> c]
      /\ \A q \in Readers : q # r => rdr'[q] = rdr[q]
  <2> HIDE DEF c
  <2> QED
    BY <1>0, <1>3, Except
<1> HIDE DEF c
<1>5. Shape'
  BY <1>0, <1>2, <1>3, <1>4, SMTT(20) DEF IInv, Shape
<1>6. CfgParts'
  BY <1>3 DEF IInv, CfgParts, Assigning
<1>7. CopyParts'
  <2> SUFFICES ASSUME NEW q \in Readers, Copying(q)'
               PROVE  ~Locked(ProcOf[q]) /\ Agree(rdr'[q].copy, cfg[ProcOf[q]], rdr'[q].at)
    BY <1>3 DEF CopyParts, Locked
  <2>1. CASE q = r
    BY <1>1, <1>2, <1>4, <2>1
  <2>2. CASE q # r
    BY <1>4, <2>2 DEF IInv, CopyParts, Copying
  <2> QED
    BY <2>1, <2>2
<1>8. NoTornCopy'
  <2> SUFFICES ASSUME NEW q \in Readers, rdr'[q].at > 4
               PROVE  rdr'[q].copy \in whole[ProcOf[q]]
    BY <1>3, OrderIsComplete DEF NoTornCopy
  <2>1. CASE q = r
    <3>1. n = 4
      BY <1>0, <1>4, <2>1
    <3>2. c = m
      BY <1>0, <1>2, <3>1, AgreeAll
    <3> QED
      BY <1>0, <1>1, <1>4, <2>1, <3>2 DEF IInv, CfgParts, Locked, Assigning
  <2>2. CASE q # r
    BY <1>4, <2>2, OrderIsComplete DEF IInv, NoTornCopy
  <2> QED
    BY <2>1, <2>2
<1> QED
  BY <1>5, <1>6, <1>7, <1>8 DEF IInv

LEMMA EndCopyStep ==
  ASSUME IInv, NEW r \in Readers, EndCopy(r) PROVE IInv'
<1>1. /\ rdr' = [rdr EXCEPT ![r] = [at |-> 0, copy |-> Defaults]]
      /\ rdr = [q \in Readers |-> rdr[q]]
      /\ UNCHANGED <<cfg, whole, pc, at, dlg>>
  BY DEF IInv, Shape, EndCopy
<1>2. /\ rdr' = [q \in Readers |-> rdr'[q]]
      /\ rdr'[r] = [at |-> 0, copy |-> Defaults]
      /\ \A q \in Readers : q # r => rdr'[q] = rdr[q]
  BY <1>1, Except
<1>3. Shape'
  BY <1>1, <1>2, DefaultsAreSettings DEF IInv, Shape
<1>4. CfgParts'
  BY <1>1 DEF IInv, CfgParts, Assigning
<1>5. CopyParts' /\ NoTornCopy'
  BY <1>1, <1>2, OrderIsComplete DEF IInv, CopyParts, Copying, NoTornCopy, Locked
<1> QED
  BY <1>3, <1>4, <1>5 DEF IInv

(* A process ends, and its readers with it.                                *)
LEMMA CrashStep ==
  ASSUME IInv, NEW p \in Procs, Crash(p) PROVE IInv'
<1>1. /\ cfg' = [cfg EXCEPT ![p] = Defaults] /\ dlg' = [dlg EXCEPT ![p] = Defaults]
      /\ pc' = [pc EXCEPT ![p] = "off"] /\ at' = [at EXCEPT ![p] = 1]
      /\ whole' = [whole EXCEPT ![p] = {Defaults}]
      /\ rdr' = [r \in Readers |->
                   IF ProcOf[r] = p THEN [at |-> 0, copy |-> Defaults] ELSE rdr[r]]
  BY DEF Crash
<1>2. /\ cfg' = [q \in Procs |-> cfg'[q]] /\ cfg'[p] = Defaults
      /\ \A q \in Procs : q # p => cfg'[q] = cfg[q]
  <2>1. cfg = [q \in Procs |-> cfg[q]]
    BY DEF IInv, Shape
  <2> QED
    BY <1>1, <2>1, Except
<1>3. /\ dlg' = [q \in Procs |-> dlg'[q]] /\ dlg'[p] = Defaults
      /\ \A q \in Procs : q # p => dlg'[q] = dlg[q]
  <2>1. dlg = [q \in Procs |-> dlg[q]]
    BY DEF IInv, Shape
  <2> QED
    BY <1>1, <2>1, Except
<1>4. /\ pc' = [q \in Procs |-> pc'[q]] /\ pc'[p] = "off"
      /\ \A q \in Procs : q # p => pc'[q] = pc[q]
  <2>1. pc = [q \in Procs |-> pc[q]]
    BY DEF IInv, Shape
  <2> QED
    BY <1>1, <2>1, Except
<1>5. /\ at' = [q \in Procs |-> at'[q]] /\ at'[p] = 1
      /\ \A q \in Procs : q # p => at'[q] = at[q]
  <2>1. at = [q \in Procs |-> at[q]]
    BY DEF IInv, Shape
  <2> QED
    BY <1>1, <2>1, Except
<1>6. /\ whole' = [q \in Procs |-> whole'[q]] /\ whole'[p] = {Defaults}
      /\ \A q \in Procs : q # p => whole'[q] = whole[q]
  <2>1. whole = [q \in Procs |-> whole[q]]
    BY DEF IInv, Shape
  <2> QED
    BY <1>1, <2>1, Except
<1>7. Shape'
  <2>1. \A r \in Readers : rdr'[r].at \in Nat /\ IsSettings(rdr'[r].copy)
    BY <1>1, DefaultsAreSettings DEF IInv, Shape
  <2>2. rdr' = [r \in Readers |-> [at |-> rdr'[r].at, copy |-> rdr'[r].copy]]
    BY <1>1 DEF IInv, Shape
  <2> QED
    BY <1>2, <1>3, <1>4, <1>5, <1>6, <2>1, <2>2, DefaultsAreSettings DEF IInv, Shape
<1>8. CfgParts'
  BY <1>2, <1>3, <1>4, <1>5, <1>6 DEF IInv, CfgParts, Assigning
<1>9. CopyParts'
  BY <1>1, <1>2, <1>4, OrderIsComplete, CfgAssumption DEF IInv, CopyParts, Copying, Locked
<1>10. NoTornCopy'
  BY <1>1, <1>6, OrderIsComplete, CfgAssumption DEF IInv, NoTornCopy
<1> QED
  BY <1>7, <1>8, <1>9, <1>10 DEF IInv

-----------------------------------------------------------------------------
LEMMA StepInv == IInv /\ [Next]_vars => IInv'
<1> SUFFICES ASSUME IInv, [Next]_vars PROVE IInv'
  OBVIOUS
<1>0. /\ \A p \in Procs : /\ IsSettings(cfg[p]) /\ IsSettings(dlg[p])
                         /\ at[p] \in Nat \ {0}
      /\ pc = [p \in Procs |-> pc[p]] /\ at = [p \in Procs |-> at[p]]
      /\ dlg = [p \in Procs |-> dlg[p]]
  BY DEF IInv, Shape
<1>1. ASSUME NEW p \in Procs, Start(p) \/ Configure(p) PROVE IInv'
  <2>1. UNCHANGED <<cfg, whole, rdr>> /\ ~Assigning(p)
    BY <1>1 DEF Start, Configure, BeginLoad, Assigning
  <2>2. PICK x \in {"read", "loaded"} : pc' = [pc EXCEPT ![p] = x]
    BY <1>1 DEF Start, Configure, BeginLoad
  <2>3. PICK n \in Nat \ {0} : at' = [at EXCEPT ![p] = n]
    BY <1>1 DEF Start, Configure, BeginLoad
  <2>4. PICK d : IsSettings(d) /\ dlg' = [dlg EXCEPT ![p] = d]
    BY <1>1, DefaultsAreSettings DEF Start, Configure, BeginLoad
  <2> QED
    BY <2>1, <2>2, <2>3, <2>4, QuietStep
<1>2. ASSUME NEW p \in Procs, ReadKey(p) PROVE IInv'
  <2> DEFINE k == Order[at[p]]
  <2> DEFINE d == [dlg[p] EXCEPT ![k] = Load(k, ini[k])]
  <2>1. UNCHANGED <<cfg, whole, rdr, pc>> /\ ~Assigning(p) /\ pc[p] = "read"
    BY <1>2 DEF ReadKey, Assigning
  <2>2. at' = [at EXCEPT ![p] = at[p] + 1] /\ dlg' = [dlg EXCEPT ![p] = d]
    BY <1>2 DEF ReadKey
  <2>3. IsSettings(d)
    BY <1>0, Zenon DEF IsSettings
  <2>4. pc' = [pc EXCEPT ![p] = "read"]
    BY <1>0, <2>1
  <2>5. at[p] + 1 \in Nat \ {0}
    BY <1>0
  <2> HIDE DEF d
  <2> QED
    BY <2>1, <2>2, <2>3, <2>4, <2>5, QuietStep
<1>3. ASSUME NEW p \in Procs, TakeLock(p) PROVE IInv'
  <2>1. UNCHANGED <<cfg, whole, rdr, dlg>> /\ ~Assigning(p)
    BY <1>3 DEF TakeLock, Assigning
  <2>2. PICK x \in {"assign", "commit"} : pc' = [pc EXCEPT ![p] = x]
    BY <1>3 DEF TakeLock
  <2>3. \A r \in Readers : ProcOf[r] = p => ~Copying(r)
    BY <1>3 DEF TakeLock
  <2>4. PICK n \in Nat \ {0} : n = 1 /\ at' = [at EXCEPT ![p] = n]
    <3>1. at' = [at EXCEPT ![p] = 1]
      BY <1>3 DEF TakeLock
    <3>2. 1 \in Nat \ {0}
      OBVIOUS
    <3> QED
      BY <3>1, <3>2, Zenon
  <2>5. PICK d : IsSettings(d) /\ dlg' = [dlg EXCEPT ![p] = d]
    BY <1>0, <2>1
  <2> QED
    BY <2>1, <2>2, <2>3, <2>4, <2>5, QuietStep
<1>4. ASSUME NEW p \in Procs, Loaded(p) PROVE IInv'
  <2>1. UNCHANGED <<cfg, whole, rdr, at>> /\ ~Assigning(p)
    BY <1>4 DEF Loaded, Assigning
  <2>2. PICK x \in {"idle", "dialog"} : pc' = [pc EXCEPT ![p] = x]
    BY <1>4 DEF Loaded
  <2>3. PICK d : IsSettings(d) /\ dlg' = [dlg EXCEPT ![p] = d]
    <3>1. CASE dlg' = dlg
      BY <1>0, <3>1
    <3>2. CASE dlg' = [dlg EXCEPT ![p] = cfg[p]]
      BY <1>0, <3>2
    <3> QED
      BY <1>4, <3>1, <3>2 DEF Loaded
  <2>4. at' = [at EXCEPT ![p] = at[p]]
    BY <1>0, <2>1
  <2> QED
    BY <1>0, <2>1, <2>2, <2>3, <2>4, QuietStep
<1>5. ASSUME NEW p \in Procs, Ok(p) PROVE IInv'
  <2>1. UNCHANGED <<cfg, whole, rdr, at>> /\ ~Assigning(p)
    BY <1>5 DEF Ok, Assigning
  <2>2. PICK x \in {"ok", "idle"} : pc' = [pc EXCEPT ![p] = x]
    BY <1>5 DEF Ok
  <2>3. PICK c \in Picks : dlg' = [dlg EXCEPT ![p] = [k \in Keys |->
          Set(k, IF k \in DOMAIN c THEN c[k] ELSE Box(k, dlg[p][k]))]]
    BY <1>5 DEF Ok
  <2> DEFINE d == [k \in Keys |-> Set(k, IF k \in DOMAIN c THEN c[k] ELSE Box(k, dlg[p][k]))]
  <2>4. IsSettings(d)
    BY Zenon DEF IsSettings
  <2>5. PICK n \in Nat \ {0} : at' = [at EXCEPT ![p] = n]
    BY <1>0, <2>1
  <2>6. dlg' = [dlg EXCEPT ![p] = d]
    BY <2>3
  <2> HIDE DEF d
  <2> QED
    BY <2>1, <2>2, <2>4, <2>5, <2>6, QuietStep
<1>6. ASSUME NEW p \in Procs, Cancel(p) PROVE IInv'
  <2>1. UNCHANGED <<cfg, whole, rdr, at, dlg>> /\ ~Assigning(p)
    BY <1>6 DEF Cancel, Assigning
  <2>2. PICK x \in {"ok", "idle"} : pc' = [pc EXCEPT ![p] = x]
    BY <1>6 DEF Cancel
  <2>3. PICK n \in Nat \ {0} : at' = [at EXCEPT ![p] = n]
    BY <1>0, <2>1
  <2>4. PICK d : IsSettings(d) /\ dlg' = [dlg EXCEPT ![p] = d]
    BY <1>0, <2>1
  <2> QED
    BY <2>1, <2>2, <2>3, <2>4, QuietStep
<1>7. ASSUME NEW p \in Procs, SaveKey(p) PROVE IInv'
  <2>1. UNCHANGED <<cfg, whole, rdr, dlg>> /\ ~Assigning(p) /\ Locked(p)
    BY <1>7 DEF SaveKey, Assigning, Locked
  <2>2. PICK x \in {"idle", "save"} : pc' = [pc EXCEPT ![p] = x]
    BY <1>7, <2>1 DEF SaveKey
  <2>3. PICK n \in Nat \ {0} : at' = [at EXCEPT ![p] = n]
    <3>1. at' = [at EXCEPT ![p] = IF at[p] = Len(Order) THEN 1 ELSE at[p] + 1]
      BY <1>7 DEF SaveKey
    <3>2. (IF at[p] = Len(Order) THEN 1 ELSE at[p] + 1) \in Nat \ {0}
      BY <1>0
    <3> QED
      BY <3>1, <3>2
  <2>4. dlg' = [dlg EXCEPT ![p] = dlg[p]]
    BY <1>0, <2>1
  <2> QED
    BY <1>0, <2>1, <2>2, <2>3, <2>4, QuietStep
<1>8. ASSUME NEW p \in Procs, AssignField(p) PROVE IInv'
  BY <1>8, AssignFieldStep
<1>12. ASSUME NEW p \in Procs, BeginSave(p) PROVE IInv'
  <2>1. UNCHANGED <<cfg, whole, rdr, at, dlg>> /\ ~Assigning(p) /\ Locked(p)
    BY <1>12 DEF BeginSave, Assigning, Locked
  <2>2. PICK x \in {"idle", "save"} : pc' = [pc EXCEPT ![p] = x]
    BY <1>12 DEF BeginSave
  <2>3. PICK n \in Nat \ {0} : at' = [at EXCEPT ![p] = n]
    BY <1>0, <2>1
  <2>4. dlg' = [dlg EXCEPT ![p] = dlg[p]]
    BY <1>0, <2>1
  <2> QED
    BY <1>0, <2>1, <2>2, <2>3, <2>4, QuietStep
<1>9. ASSUME NEW p \in Procs, Crash(p) PROVE IInv'
  BY <1>9, CrashStep
<1>10. ASSUME NEW r \in Readers, BeginCopy(r) \/ CopyField(r) \/ EndCopy(r) PROVE IInv'
  BY <1>10, BeginCopyStep, CopyFieldStep, EndCopyStep
<1>11. CASE ByHand \/ UNCHANGED vars
  BY <1>11, StillStep DEF ByHand, vars
<1> QED
  BY <1>1, <1>2, <1>3, <1>4, <1>5, <1>6, <1>7, <1>8, <1>9, <1>10, <1>11, <1>12 DEF Next

(* The inductive invariant: readers and the writer exclude one another,    *)
(* what was copied so far is what m_cfg says, and what was assigned so far *)
(* is what will be in it.                                                  *)
THEOREM Invariance == Spec => []IInv
  BY InitInv, StepInv, PTL DEF Spec

(* No archive or packer works with a mix of two configurations: every copy *)
(* (inicfg::copy, inicfg::get_cfg) is a configuration that m_cfg has been  *)
(* as a whole, while load_from_ini and the dialog assign to it.            *)
THEOREM CopiesAreWhole == Spec => []NoTornCopy
<1>1. IInv => NoTornCopy
  BY DEF IInv
<1> QED
  BY <1>1, Invariance, PTL

-----------------------------------------------------------------------------
(* Induction over the numbers, with a set for the property.                *)
LEMMA SetInduction ==
  ASSUME NEW S, 0 \in S, \A n \in Nat : n \in S => n + 1 \in S
  PROVE  \A n \in Nat : n \in S
<1> SUFFICES ASSUME NEW m \in Nat, m \notin S PROVE FALSE
  OBVIOUS
<1>1. PICK R : R = OpToRel(<, Nat)
  OBVIOUS
<1>2. IsWellFoundedOn(R, Nat)
  BY <1>1, NatLessThanWellFounded
<1>3. \A x, y \in Nat : x < y => <<x, y>> \in R
  BY <1>1 DEF OpToRel
<1>4. PICK T : T = {n \in Nat : n \notin S}
  OBVIOUS
<1>5. T \subseteq Nat /\ T # {}
  BY <1>4
<1>6. PICK x \in T : \A y \in T : ~(<<y, x>> \in R)
  BY <1>2, <1>5, WFMin
<1>7. x \in Nat /\ x \notin S /\ x # 0
  BY <1>4
<1>8. x - 1 \in Nat /\ x - 1 < x /\ (x - 1) + 1 = x
  BY <1>7
<1>9. <<x - 1, x>> \in R
  BY <1>3, <1>7, <1>8
<1>10. x - 1 \notin T
  BY <1>6, <1>9
<1>11. x - 1 \in S
  BY <1>4, <1>8, <1>10
<1> QED
  BY <1>7, <1>8, <1>11

(* The boxes of the loop in wm_init, as far as it has come.                *)
Boxes(f, n, v) ==
  f = [m \in 0 .. n |-> IF m = 0 THEN [items |-> <<>>, sel |-> 0, left |-> v]
                        ELSE Offer(f[m - 1], Offers[m])]

LEMMA BoxesExist == ASSUME NEW v PROVE \A n \in Nat : \E f : Boxes(f, n, v)
<1>1. PICK S : S = {n \in Nat : \E f : Boxes(f, n, v)}
  OBVIOUS
<1>2. PICK b : b = [items |-> <<>>, sel |-> 0, left |-> v]
  OBVIOUS
<1>3. 0 \in S
  <2>1. PICK f : f = [m \in 0 .. 0 |-> b]
    OBVIOUS
  <2>2. \A m \in 0 .. 0 : m = 0
    OBVIOUS
  <2>3. f = [m \in 0 .. 0 |-> IF m = 0 THEN b ELSE Offer(f[m - 1], Offers[m])]
    BY <2>1, <2>2
  <2>4. Boxes(f, 0, v)
    BY <1>2, <2>3 DEF Boxes
  <2> QED
    BY <1>1, <2>4
<1>4. ASSUME NEW n \in Nat, n \in S PROVE n + 1 \in S
  <2>1. PICK f : Boxes(f, n, v)
    BY <1>1, <1>4
  <2>2. f = [m \in 0 .. n |-> IF m = 0 THEN b ELSE Offer(f[m - 1], Offers[m])]
    BY <1>2, <2>1 DEF Boxes
  <2>3. PICK e : e = Offer(f[n], Offers[n + 1])
    OBVIOUS
  <2>4. PICK g : g = [m \in 0 .. n + 1 |-> IF m = n + 1 THEN e ELSE f[m]]
    OBVIOUS
  <2>5. ASSUME NEW m \in 0 .. n + 1
        PROVE  g[m] = IF m = 0 THEN b ELSE Offer(g[m - 1], Offers[m])
    <3>1. CASE m = n + 1
      <4>1. m - 1 = n /\ n \in 0 .. n + 1 /\ n # n + 1 /\ m # 0
        BY <3>1
      <4>2. g[m - 1] = f[n] /\ g[m] = e
        BY <2>4, <3>1, <4>1
      <4> QED
        BY <2>3, <3>1, <4>1, <4>2
    <3>2. CASE m = 0
      <4>1. 0 \in 0 .. n /\ 0 \in 0 .. n + 1 /\ 0 # n + 1
        OBVIOUS
      <4> QED
        BY <2>2, <2>4, <3>2, <4>1
    <3>3. CASE m # 0 /\ m # n + 1
      <4>1. m \in 0 .. n /\ m - 1 \in 0 .. n /\ m - 1 \in 0 .. n + 1 /\ m - 1 # n + 1
        BY <3>3
      <4>2. g[m] = f[m] /\ g[m - 1] = f[m - 1]
        BY <2>4, <3>3, <4>1
      <4>3. f[m] = Offer(f[m - 1], Offers[m])
        BY <2>2, <3>3, <4>1
      <4> QED
        BY <3>3, <4>2, <4>3
    <3> QED
      BY <3>1, <3>2, <3>3
  <2>6. g = [m \in 0 .. n + 1 |-> g[m]]
    BY <2>4
  <2>7. g = [m \in 0 .. n + 1 |-> IF m = 0 THEN b ELSE Offer(g[m - 1], Offers[m])]
    BY <2>5, <2>6
  <2>8. Boxes(g, n + 1, v)
    BY <1>2, <2>7 DEF Boxes
  <2> QED
    BY <1>1, <2>8
<1>5. \A n \in Nat : n \in S
  BY <1>3, <1>4, SetInduction
<1> QED
  BY <1>1, <1>5

(* The lifetime v is still to be offered, or is selected.                  *)
Waits(b, v) == b.left = v
Chosen(b, v) == b.left = Unlimited /\ b.sel \in 1 .. Len(b.items) /\ b.items[b.sel] = v
IsBox(b) == b \in [items : Seq(Int), sel : Nat, left : Int]

(* A lifetime is added to the box, or added and selected.                  *)
LEMMA PutFact ==
  ASSUME NEW v \in Int, NEW b, IsBox(b), NEW val \in Int,
         NEW c, c = [b EXCEPT !.items = Append(@, val)]
  PROVE  /\ IsBox(c) /\ c.left = b.left /\ c.sel = b.sel
         /\ Len(b.items) \in Nat /\ Len(c.items) = Len(b.items) + 1
         /\ c.items[Len(b.items) + 1] = val
         /\ Chosen(b, v) => Chosen(c, v)
<1>1. PICK it, sl, lf : it = b.items /\ sl = b.sel /\ lf = b.left
  OBVIOUS
<1>2. PICK jt : jt = Append(it, val)
  OBVIOUS
<1>3. it \in Seq(Int) /\ sl \in Nat /\ lf \in Int /\ Len(it) \in Nat
  <2>1. it \in Seq(Int) /\ sl \in Nat /\ lf \in Int
    BY <1>1 DEF IsBox
  <2> QED
    BY <2>1
<1>4. c.items = jt /\ c.sel = sl /\ c.left = lf /\ c \in [items : Seq(Int), sel : Nat, left : Int]
  <2>1. jt \in Seq(Int)
    BY <1>2, <1>3
  <2> QED
    BY <1>1, <1>2, <1>3, <2>1 DEF IsBox
<1>5. /\ Len(jt) = Len(it) + 1 /\ jt[Len(it) + 1] = val
      /\ \A n \in 1 .. Len(it) : jt[n] = it[n]
  BY <1>2, <1>3
<1>6. ASSUME Chosen(b, v) PROVE Chosen(c, v)
  <2>1. lf = Unlimited /\ sl \in 1 .. Len(it) /\ it[sl] = v
    BY <1>1, <1>6 DEF Chosen
  <2>2. sl \in 1 .. Len(jt) /\ jt[sl] = v
    BY <1>3, <1>5, <2>1
  <2> QED
    BY <1>4, <2>1, <2>2 DEF Chosen
<1> QED
  BY <1>1, <1>3, <1>4, <1>5, <1>6 DEF IsBox

LEMMA SelectFact ==
  ASSUME NEW v \in Int, NEW b, IsBox(b), Unlimited \in Int,
         NEW c, c = [[b EXCEPT !.items = Append(@, v)] EXCEPT !.sel = Len(b.items) + 1, !.left = Unlimited]
  PROVE  IsBox(c) /\ Chosen(c, v)
<1>1. PICK d : d = [b EXCEPT !.items = Append(@, v)]
  OBVIOUS
<1>2. /\ IsBox(d) /\ Len(b.items) \in Nat /\ Len(d.items) = Len(b.items) + 1
      /\ d.items[Len(b.items) + 1] = v
  BY <1>1, PutFact
<1>3. PICK it, n : it = d.items /\ n = Len(b.items) + 1
  OBVIOUS
<1>4. it \in Seq(Int) /\ n \in Nat /\ d \in [items : Seq(Int), sel : Nat, left : Int]
  BY <1>2, <1>3 DEF IsBox
<1>5. c = [d EXCEPT !.sel = n, !.left = Unlimited]
  BY <1>1, <1>3
<1>6. c = [items |-> it, sel |-> n, left |-> Unlimited]
  BY <1>3, <1>4, <1>5
<1> QED
  BY <1>2, <1>3, <1>4, <1>6 DEF IsBox, Chosen

LEMMA OfferFact ==
  ASSUME NEW v \in Int, v < Unlimited, NEW b, IsBox(b), Waits(b, v) \/ Chosen(b, v),
         NEW val \in Int, val <= Unlimited, Unlimited \in Int
  PROVE  /\ IsBox(Offer(b, val)) /\ (Waits(Offer(b, val), v) \/ Chosen(Offer(b, val), v))
         /\ val = Unlimited => Chosen(Offer(b, val), v)
<1>1. PICK s, t : /\ s = [[b EXCEPT !.items = Append(@, v)] EXCEPT !.sel = Len(b.items) + 1, !.left = Unlimited]
                  /\ t = [b EXCEPT !.items = Append(@, val)]
  OBVIOUS
<1>2. IsBox(s) /\ Chosen(s, v)
  BY <1>1, SelectFact
<1>3. IsBox(t) /\ t.left = b.left /\ (Chosen(b, v) => Chosen(t, v))
  BY <1>1, PutFact
<1>4. CASE Waits(b, v) /\ val > v
  <2>1. PICK u : u = [s EXCEPT !.items = Append(@, val)]
    OBVIOUS
  <2>2. IsBox(u) /\ Chosen(u, v)
    BY <1>2, <2>1, PutFact
  <2>3. Offer(b, val) = IF val = Unlimited THEN s ELSE u
    <3>1. b.left = v /\ s.left = Unlimited /\ val # v
      BY <1>2, <1>4 DEF Waits, Chosen
    <3>2. Offer(b, val) = IF val = Unlimited THEN s
                          ELSE IF val = s.left
                               THEN [[s EXCEPT !.items = Append(@, val)] EXCEPT !.sel = Len(s.items) + 1,
                                                                              !.left = Unlimited]
                               ELSE u
      BY <1>1, <1>4, <2>1, <3>1 DEF Offer
    <3> QED
      BY <3>1, <3>2
  <2> QED
    BY <1>2, <2>2, <2>3
<1>5. CASE Waits(b, v) /\ ~(val > v)
  <2>1. b.left = v /\ val # Unlimited /\ ~(val > b.left)
    BY <1>5 DEF Waits
  <2>2. Offer(b, val) = IF val = v THEN s ELSE t
    BY <1>1, <2>1 DEF Offer
  <2> QED
    BY <1>2, <1>3, <2>1, <2>2 DEF Waits
<1>6. CASE Chosen(b, v)
  <2>1. b.left = Unlimited /\ ~(val > b.left)
    BY <1>6 DEF Chosen
  <2>2. Offer(b, val) = IF val = Unlimited THEN b ELSE t
    BY <1>1, <2>1 DEF Offer
  <2> QED
    BY <1>3, <1>6, <2>2
<1> QED
  BY <1>4, <1>5, <1>6

(* After all offers the lifetime is selected.                              *)
LEMMA OffersFact ==
  /\ Unlimited \in Int /\ Unlimited > 2000
  /\ Len(Offers) \in Nat /\ Len(Offers) > 0 /\ Offers[Len(Offers)] = Unlimited
  /\ \A n \in 1 .. Len(Offers) : Offers[n] \in Int /\ Offers[n] <= Unlimited
<1>1. /\ Lifetimes \in Seq(Int) /\ Unlimited \in Int /\ Unlimited > 2000
      /\ \A n \in 1 .. Len(Lifetimes) : Lifetimes[n] < Unlimited
  BY CfgAssumption
<1>2. /\ Len(Lifetimes) \in Nat /\ Len(Offers) = Len(Lifetimes) + 1
      /\ Offers[Len(Lifetimes) + 1] = Unlimited
      /\ \A n \in 1 .. Len(Lifetimes) : Offers[n] = Lifetimes[n] /\ Lifetimes[n] \in Int
  BY <1>1 DEF Offers
<1> QED
  BY <1>1, <1>2

LEMMA BoxesStart ==
  ASSUME NEW v, NEW N \in Nat, NEW f, Boxes(f, N, v)
  PROVE  /\ f[0] = [items |-> <<>>, sel |-> 0, left |-> v]
         /\ \A n \in 1 .. N : f[n] = Offer(f[n - 1], Offers[n])
<1>1. PICK e : e = [items |-> <<>>, sel |-> 0, left |-> v]
  OBVIOUS
<1>2. PICK g : g = f
  OBVIOUS
<1>3. g = [m \in 0 .. N |-> IF m = 0 THEN e ELSE Offer(f[m - 1], Offers[m])]
  BY <1>1, <1>2, Zenon DEF Boxes
<1>4. 0 \in 0 .. N /\ \A n \in 1 .. N : n \in 0 .. N /\ n # 0
  OBVIOUS
<1>5. g[0] = e /\ \A n \in 1 .. N : g[n] = Offer(f[n - 1], Offers[n])
  BY <1>3, <1>4
<1> QED
  BY <1>1, <1>2, <1>5

LEMMA LifetimeRange ==
  ASSUME NEW v \in Allowed("CacheLifetime") PROVE v \in Int /\ v <= 2000
  BY SMTT(20) DEF Allowed

Along(f, n, v) == IsBox(f[n]) /\ (Waits(f[n], v) \/ Chosen(f[n], v))

LEMMA BoxesEnd ==
  ASSUME NEW v \in Allowed("CacheLifetime"), NEW N, N = Len(Offers), NEW f, Boxes(f, N, v)
  PROVE  Chosen(f[N], v)
<1>1. /\ Unlimited \in Int /\ v \in Int /\ v < Unlimited
      /\ N \in Nat /\ N > 0 /\ Offers[N] = Unlimited
      /\ \A n \in 1 .. N : Offers[n] \in Int /\ Offers[n] <= Unlimited
  BY OffersFact, LifetimeRange
<1>2. /\ f[0] = [items |-> <<>>, sel |-> 0, left |-> v]
      /\ \A n \in 1 .. N : f[n] = Offer(f[n - 1], Offers[n])
  BY <1>1, BoxesStart
<1>3. PICK S : S = {n \in Nat : n <= N => Along(f, n, v)}
  OBVIOUS
<1>4. 0 \in S
  <2>1. <<>> \in Seq(Int)
    OBVIOUS
  <2>2. IsBox(f[0]) /\ Waits(f[0], v)
    BY <1>1, <1>2, <2>1 DEF IsBox, Waits
  <2> QED
    BY <1>3, <2>2 DEF Along
<1>5. ASSUME NEW n \in Nat, n \in S PROVE n + 1 \in S
  <2> SUFFICES ASSUME n + 1 <= N
               PROVE  IsBox(f[n + 1]) /\ (Waits(f[n + 1], v) \/ Chosen(f[n + 1], v))
    BY <1>3 DEF Along
  <2>1. IsBox(f[n]) /\ (Waits(f[n], v) \/ Chosen(f[n], v))
    BY <1>1, <1>3, <1>5 DEF Along
  <2>2. n + 1 \in 1 .. N /\ (n + 1) - 1 = n
    BY <1>1
  <2>3. f[n + 1] = Offer(f[n], Offers[n + 1])
    BY <1>2, <2>2
  <2>4. Offers[n + 1] \in Int /\ Offers[n + 1] <= Unlimited
    BY <1>1, <2>2
  <2> QED
    BY <1>1, <2>1, <2>3, <2>4, OfferFact
<1>6. \A n \in Nat : n \in S
  BY <1>4, <1>5, SetInduction
<1>7. N - 1 \in Nat /\ N - 1 <= N /\ N \in 1 .. N /\ Unlimited <= Unlimited
  BY <1>1
<1>8. IsBox(f[N - 1]) /\ (Waits(f[N - 1], v) \/ Chosen(f[N - 1], v))
  BY <1>3, <1>6, <1>7 DEF Along
<1>9. f[N] = Offer(f[N - 1], Unlimited)
  BY <1>1, <1>2, <1>7
<1> QED
  BY <1>1, <1>7, <1>8, <1>9, OfferFact

LEMMA BoxesChosen ==
  ASSUME NEW v, NEW n, \E f : Boxes(f, n, v)
  PROVE  Boxes(CHOOSE f : Boxes(f, n, v), n, v)
  BY Zenon

LEMMA LifetimeBoxes ==
  ASSUME NEW v
  PROVE  LifetimeBox(v) = (CHOOSE f : Boxes(f, Len(Offers), v))[Len(Offers)]
  BY Zenon DEF LifetimeBox, Boxes

(* The control of the lifetimes shows the lifetime that is set.            *)
LEMMA LifetimeChosen ==
  ASSUME NEW v \in Allowed("CacheLifetime") PROVE Chosen(LifetimeBox(v), v)
<1>1. \E f : Boxes(f, Len(Offers), v)
  <2>1. Len(Offers) \in Nat
    BY OffersFact
  <2> QED
    BY <2>1, BoxesExist
<1>2. PICK g : g = CHOOSE f : Boxes(f, Len(Offers), v)
  OBVIOUS
<1>3. Boxes(g, Len(Offers), v)
  BY <1>1, <1>2, BoxesChosen, Zenon
<1>4. Chosen(g[Len(Offers)], v)
  BY <1>3, BoxesEnd
<1> QED
  BY <1>2, <1>4, LifetimeBoxes, Zenon

LEMMA BoxFact == ASSUME NEW v \in Allowed("CacheLifetime") PROVE Box("CacheLifetime", v) = v
<1>1. PICK b : b = LifetimeBox(v)
  OBVIOUS
<1>2. Chosen(b, v)
  BY <1>1, LifetimeChosen
<1>3. b.sel \in 1 .. Len(b.items) /\ b.items[b.sel] = v
  BY <1>2 DEF Chosen
<1>4. b.sel # 0
  BY <1>3
<1> QED
  BY <1>1, <1>3, <1>4 DEF Box

-----------------------------------------------------------------------------
(* Settings with legal values.                                             *)
Legal(c) == IsSettings(c) /\ \A k \in Keys : c[k] \in Allowed(k)

LEMMA LegalIsConfig == ASSUME NEW c, Legal(c) PROVE IsConfig(c)
<1>1. c = [k \in Keys |-> c[k]] /\ \A k \in Keys : c[k] \in Allowed(k)
  BY DEF Legal, IsSettings
<1>2. DOMAIN c = Keys
  BY <1>1
<1> QED
  BY <1>1, <1>2 DEF IsConfig

LEMMA DefaultsLegal == Legal(Defaults)
<1>1. \A k \in Keys : Defaults[k] \in Allowed(k)
  BY DEF Defaults, Keys, Allowed
<1> QED
  BY <1>1, DefaultsAreSettings DEF Legal

LEMMA AllowedIsNat == ASSUME NEW k \in Keys, NEW v \in Allowed(k) PROVE v \in Nat
  BY DEF Keys, Allowed

(* What the setters and the load of a setting give back.                   *)
LEMMA SetFact ==
  ASSUME NEW k \in Keys, NEW v \in Int
  PROVE  Set(k, v) \in Allowed(k) /\ (v \in Allowed(k) => Set(k, v) = v)
<1>1. CASE k = "CompressionLevel"
  BY <1>1 DEF Set, Allowed, Between
<1>2. CASE k = "CacheLifetime"
  BY <1>2, SMTT(20) DEF Set, Allowed, Between
<1>3. CASE k = "FileTimeFlags"
  <2>1. v % 4 \in 0 .. 3 /\ (v \in 0 .. 3 => v % 4 = v)
    OBVIOUS
  <2> QED
    BY <1>3, <2>1 DEF Set, Allowed
<1>4. CASE k = "FileAttrFlags"
  <2>1. v % 16 \in 0 .. 15 /\ (v \in 0 .. 15 => v % 16 = v)
    OBVIOUS
  <2> QED
    BY <1>4, <2>1 DEF Set, Allowed
<1> QED
  BY <1>1, <1>2, <1>3, <1>4 DEF Keys

LEMMA LoadFact ==
  ASSUME NEW k \in Keys, NEW v \in Int
  PROVE  Load(k, v) \in Allowed(k) /\ (v \in Allowed(k) => Load(k, v) = v)
<1>1. Defaults[k] \in Allowed(k)
  BY DefaultsLegal DEF Legal
<1>2. v \in Allowed(k) => v >= 0
  BY AllowedIsNat
<1> QED
  BY <1>1, <1>2, SetFact DEF Load

LEMMA BoxKeeps ==
  ASSUME NEW k \in Keys, NEW v \in Allowed(k) PROVE Box(k, v) = v
<1>1. CASE k = "CacheLifetime"
  BY <1>1, BoxFact
<1>2. CASE k # "CacheLifetime"
  BY <1>2 DEF Box
<1> QED
  BY <1>1, <1>2

LEMMA MeaningLegal ==
  ASSUME NEW text, \A k \in Keys : text[k] \in Int PROVE Legal(Meaning(text))
<1>1. \A k \in Keys : Meaning(text)[k] = Load(k, text[k])
  BY DEF Meaning
<1>2. IsSettings(Meaning(text))
  BY DEF Meaning, IsSettings
<1> QED
  BY <1>1, <1>2, LoadFact DEF Legal

LEMMA LegalExcept ==
  ASSUME NEW c, Legal(c), NEW k \in Keys, NEW v \in Allowed(k), NEW d, d = [c EXCEPT ![k] = v]
  PROVE  Legal(d) /\ d[k] = v /\ \A l \in Keys : l # k => d[l] = c[l]
<1>1. c = [l \in Keys |-> c[l]]
  BY DEF Legal, IsSettings
<1>2. /\ d = [l \in Keys |-> d[l]] /\ d[k] = v
      /\ \A l \in Keys : l # k => d[l] = c[l]
  BY <1>1, Except
<1> QED
  BY <1>2 DEF Legal, IsSettings

-----------------------------------------------------------------------------
(* The variables that Shape does not name are functions too.               *)
Forms ==
  /\ shown = [p \in Procs |-> shown[p]] /\ touched = [p \in Procs |-> touched[p]]
  /\ loads = [p \in Procs |-> loads[p]] /\ lang = [p \in Procs |-> lang[p]]
  /\ calm = [p \in Procs |-> calm[p]] /\ ini = [k \in Keys |-> ini[k]]
  /\ setup \in [files : SUBSET STRING, wanted : [full : STRING, base : STRING]]

(* Every setting has a legal value, and what stands in the ini is a number. *)
Values ==
  /\ \A p \in Procs : Legal(cfg[p]) /\ Legal(dlg[p]) /\ Legal(shown[p])
  /\ \A r \in Readers : Legal(rdr[r].copy)
  /\ Legal(saved) /\ \A k \in Keys : ini[k] \in Int

(* How far a process may be, and how often it has loaded.                  *)
CountsAt(p) ==
  /\ pc[p] \in {"off", "read", "assign", "loaded", "idle", "dialog", "ok", "commit",
               "check", "save"}
  /\ at[p] \in 1 .. 5 /\ (pc[p] = "save" => at[p] <= 4) /\ (pc[p] = "check" => at[p] = 1)
  /\ loads[p] \in 0 .. MaxDialogs + 1
  /\ pc[p] = "off" => loads[p] = 0
  /\ pc[p] \in {"read", "assign", "loaded"} => loads[p] <= MaxDialogs
  /\ touched[p] \subseteq Keys /\ calm[p] \in BOOLEAN

Counts == \A p \in Procs : CountsAt(p)

Langs == \A p \in Procs : lang[p] \in setup.files \cup {"en", "none"}

(* The settings the user did not touch are those the dialog began with.    *)
Untouched ==
  \A p \in Procs :
    /\ pc[p] = "dialog" => dlg[p] = shown[p]
    /\ pc[p] \in {"ok", "commit", "check", "save"} =>
         \A k \in Keys \ touched[p] : dlg[p][k] = shown[p][k]

Flags == hasIni \in BOOLEAN /\ known \in BOOLEAN

(* What a step of a process does to the other processes.                   *)
Others(p) ==
  \A q \in Procs : q # p =>
    /\ cfg'[q] = cfg[q] /\ dlg'[q] = dlg[q] /\ pc'[q] = pc[q] /\ at'[q] = at[q]
    /\ shown'[q] = shown[q] /\ touched'[q] = touched[q] /\ loads'[q] = loads[q]
    /\ lang'[q] = lang[q]

Local(p) ==
  \/ Start(p) \/ Configure(p) \/ ReadKey(p) \/ TakeLock(p) \/ AssignField(p)
  \/ Loaded(p) \/ Ok(p) \/ Cancel(p) \/ BeginSave(p) \/ SaveKey(p) \/ Crash(p)

LEMMA OthersStay ==
  ASSUME Shape, Forms, NEW p \in Procs, Local(p) PROVE Others(p)
<1>1. CASE Start(p) \/ Configure(p)
  BY <1>1 DEF Start, Configure, BeginLoad, Others, userVars, Shape, Forms
<1>2. CASE ReadKey(p) \/ TakeLock(p)
  BY <1>2 DEF ReadKey, TakeLock, Others, userVars, Shape, Forms
<1>3. CASE AssignField(p)
  BY <1>3 DEF AssignField, Others, userVars, Shape, Forms
<1>4. CASE Loaded(p)
  BY <1>4 DEF Loaded, Others, userVars, Shape, Forms
<1>5. CASE Ok(p)
  BY <1>5 DEF Ok, Others, userVars, Shape, Forms
<1>6. CASE Cancel(p) \/ BeginSave(p) \/ SaveKey(p)
  BY <1>6 DEF Cancel, BeginSave, SaveKey, Others, userVars, Shape, Forms
<1>7. CASE Crash(p)
  BY <1>7 DEF Crash, Others, userVars, Shape, Forms
<1> QED
  BY <1>1, <1>2, <1>3, <1>4, <1>5, <1>6, <1>7 DEF Local

LEMMA FormsStep ==
  ASSUME Shape, Forms, [Next]_vars PROVE Forms'
<1>1. ASSUME NEW p \in Procs, Start(p) \/ Configure(p) PROVE Forms'
  BY <1>1 DEF Start, Configure, BeginLoad, iniVars, userVars, Forms
<1>2. ASSUME NEW p \in Procs, ReadKey(p) \/ TakeLock(p) \/ Cancel(p) PROVE Forms'
  BY <1>2 DEF ReadKey, TakeLock, Cancel, iniVars, userVars, knownVars, Forms
<1>3. ASSUME NEW p \in Procs, AssignField(p) PROVE Forms'
  BY <1>3 DEF AssignField, iniVars, userVars, knownVars, Forms
<1>4. ASSUME NEW p \in Procs, Loaded(p) PROVE Forms'
  BY <1>4 DEF Loaded, iniVars, userVars, knownVars, Forms
<1>5. ASSUME NEW p \in Procs, Ok(p) PROVE Forms'
  BY <1>5 DEF Ok, iniVars, knownVars, Forms
<1>6. ASSUME NEW p \in Procs, BeginSave(p) \/ SaveKey(p) PROVE Forms'
  BY <1>6 DEF BeginSave, SaveKey, iniVars, userVars, Forms
<1>7. ASSUME NEW p \in Procs, Crash(p) PROVE Forms'
  BY <1>7 DEF Crash, iniVars, knownVars, Forms
<1>8. ASSUME NEW r \in Readers, BeginCopy(r) \/ CopyField(r) \/ EndCopy(r) PROVE Forms'
  BY <1>8 DEF BeginCopy, CopyField, EndCopy, iniVars, userVars, knownVars, Forms
<1>9. CASE ByHand
  <2>1. UNCHANGED <<shown, touched, loads, lang>> /\ calm' = [p \in Procs |-> FALSE]
    BY <1>9 DEF ByHand, userVars
  <2>2. ini' = [k \in Keys |-> ini'[k]]
    BY <1>9 DEF ByHand, Forms
  <2>3. setup' = setup \/ setup' = [setup EXCEPT !.wanted = NoLang]
    BY <1>9 DEF ByHand
  <2>4. NoLang \in [full : STRING, base : STRING]
    BY CfgAssumption
  <2>5. setup' \in [files : SUBSET STRING, wanted : [full : STRING, base : STRING]]
    BY <2>3, <2>4 DEF Forms
  <2> QED
    BY <2>1, <2>2, <2>5 DEF Forms
<1>10. CASE UNCHANGED vars
  BY <1>10 DEF vars, iniVars, userVars, knownVars, Forms
<1> QED
  BY <1>1, <1>2, <1>3, <1>4, <1>5, <1>6, <1>7, <1>8, <1>9, <1>10 DEF Next

LEMMA ValuesAfter ==
  ASSUME Values, NEW p \in Procs, Others(p),
         Legal(cfg'[p]), Legal(dlg'[p]), Legal(shown'[p]),
         \A r \in Readers : Legal(rdr'[r].copy),
         Legal(saved'), \A k \in Keys : ini'[k] \in Int
  PROVE  Values'
<1>1. ASSUME NEW q \in Procs PROVE Legal(cfg'[q]) /\ Legal(dlg'[q]) /\ Legal(shown'[q])
  <2>1. CASE q = p
    BY <2>1
  <2>2. CASE q # p
    BY <2>2 DEF Others, Values
  <2> QED
    BY <2>1, <2>2
<1> QED
  BY <1>1 DEF Values, Legal, IsSettings

LEMMA OkLegal ==
  ASSUME NEW d, Legal(d), NEW c \in Picks,
         NEW e, e = [k \in Keys |-> Set(k, IF k \in DOMAIN c THEN c[k] ELSE Box(k, d[k]))]
  PROVE  Legal(e) /\ \A k \in Keys \ DOMAIN c : e[k] = d[k]
<1>1. ASSUME NEW k \in Keys PROVE e[k] \in Allowed(k) /\ (k \notin DOMAIN c => e[k] = d[k])
  <2>1. CASE k \in DOMAIN c
    <3>1. c[k] \in Int
      BY <2>1, CfgAssumption
    <3>2. e[k] = Set(k, c[k])
      BY <2>1
    <3> QED
      BY <2>1, <3>1, <3>2, SetFact
  <2>2. CASE k \notin DOMAIN c
    <3>1. d[k] \in Allowed(k)
      BY DEF Legal
    <3>2. d[k] \in Int /\ Box(k, d[k]) = d[k]
      BY <3>1, AllowedIsNat, BoxKeeps
    <3>3. e[k] = Set(k, d[k])
      BY <2>2, <3>2
    <3> QED
      BY <3>1, <3>2, <3>3, SetFact
  <2> QED
    BY <2>1, <2>2
<1> QED
  BY <1>1 DEF Legal, IsSettings

LEMMA ValuesStep ==
  ASSUME IInv, Forms, Values, Counts, [Next]_vars PROVE Values'
<1>0. /\ Shape
      /\ \A p \in Procs : Legal(cfg[p]) /\ Legal(dlg[p]) /\ Legal(shown[p])
      /\ \A r \in Readers : Legal(rdr[r].copy)
      /\ Legal(saved) /\ \A k \in Keys : ini[k] \in Int
  BY DEF IInv, Values
<1>1. ASSUME NEW p \in Procs, Start(p) \/ Configure(p) PROVE Values'
  <2>1. dlg'[p] = Defaults /\ UNCHANGED <<cfg, shown, rdr, saved, ini>>
    BY <1>0, <1>1 DEF Start, Configure, BeginLoad, iniVars, userVars, Shape
  <2>2. Others(p)
    BY <1>0, <1>1, OthersStay DEF Local
  <2> QED
    BY <1>0, <2>1, <2>2, DefaultsLegal, ValuesAfter
<1>2. ASSUME NEW p \in Procs, ReadKey(p) PROVE Values'
  <2>1. at[p] \in 1 .. 4
    BY <1>0, <1>2, OrderIsComplete DEF ReadKey, Shape
  <2>2. PICK k \in Keys : k = Order[at[p]]
    BY <2>1, OrderIsComplete
  <2>3. PICK d : d = [dlg[p] EXCEPT ![k] = Load(k, ini[k])]
    OBVIOUS
  <2>4. dlg'[p] = d /\ UNCHANGED <<cfg, shown, rdr, saved, ini>>
    BY <1>0, <1>2, <2>2, <2>3 DEF ReadKey, iniVars, userVars, knownVars, Shape
  <2>5. Legal(d)
    BY <1>0, <2>3, LoadFact, LegalExcept
  <2>6. Others(p)
    BY <1>0, <1>2, OthersStay DEF Local
  <2> QED
    BY <1>0, <2>4, <2>5, <2>6, ValuesAfter
<1>3. ASSUME NEW p \in Procs, TakeLock(p) \/ Cancel(p) \/ BeginSave(p) PROVE Values'
  <2>1. UNCHANGED <<cfg, dlg, shown, rdr, saved, ini>>
    BY <1>3 DEF TakeLock, Cancel, BeginSave, iniVars, userVars, knownVars
  <2>2. Others(p)
    BY <1>0, <1>3, OthersStay DEF Local
  <2> QED
    BY <1>0, <2>1, <2>2, ValuesAfter
<1>4. ASSUME NEW p \in Procs, AssignField(p) PROVE Values'
  <2>1. at[p] \in 1 .. 4
    BY <1>4 DEF IInv, Shape, CfgParts, AssignField, Assigning
  <2>2. PICK k \in Keys : k = AssignOrder[at[p]]
    BY <2>1, OrderIsComplete
  <2>3. PICK d : d = [cfg[p] EXCEPT ![k] = dlg[p][k]]
    OBVIOUS
  <2>4. cfg'[p] = d /\ UNCHANGED <<dlg, shown, rdr, saved, ini>>
    BY <1>0, <1>4, <2>2, <2>3 DEF AssignField, iniVars, userVars, knownVars, Shape
  <2>5. dlg[p][k] \in Allowed(k)
    BY <1>0 DEF Legal
  <2>6. Legal(d)
    BY <1>0, <2>3, <2>5, LegalExcept
  <2>7. Others(p)
    BY <1>0, <1>4, OthersStay DEF Local
  <2> QED
    BY <1>0, <2>4, <2>6, <2>7, ValuesAfter
<1>5. ASSUME NEW p \in Procs, Loaded(p) PROVE Values'
  <2>1. UNCHANGED <<cfg, rdr, saved, ini>>
    BY <1>5 DEF Loaded, iniVars, knownVars
  <2>2. dlg'[p] \in {dlg[p], cfg[p]} /\ shown'[p] \in {shown[p], cfg[p]}
    BY <1>0, <1>5 DEF Loaded, Shape, Forms
  <2>3. Others(p)
    BY <1>0, <1>5, OthersStay DEF Local
  <2> QED
    BY <1>0, <2>1, <2>2, <2>3, ValuesAfter
<1>6. ASSUME NEW p \in Procs, Ok(p) PROVE Values'
  <2>1. UNCHANGED <<cfg, shown, rdr, saved, ini>>
    BY <1>6 DEF Ok, iniVars, knownVars
  <2>2. PICK c \in Picks : dlg' = [dlg EXCEPT ![p] = [k \in Keys |->
          Set(k, IF k \in DOMAIN c THEN c[k] ELSE Box(k, dlg[p][k]))]]
    BY <1>6 DEF Ok
  <2>3. PICK e : e = [k \in Keys |-> Set(k, IF k \in DOMAIN c THEN c[k] ELSE Box(k, dlg[p][k]))]
    OBVIOUS
  <2>4. dlg'[p] = e
    BY <1>0, <2>2, <2>3 DEF Shape
  <2>5. Legal(e)
    BY <1>0, <2>3, OkLegal
  <2>6. Others(p)
    BY <1>0, <1>6, OthersStay DEF Local
  <2> QED
    BY <1>0, <2>1, <2>4, <2>5, <2>6, ValuesAfter
<1>7. ASSUME NEW p \in Procs, SaveKey(p) PROVE Values'
  <2>1. at[p] \in 1 .. 4
    BY <1>7 DEF Counts, CountsAt, SaveKey
  <2>2. PICK k \in Keys : k = Order[at[p]]
    BY <2>1, OrderIsComplete
  <2>3. ini' = [ini EXCEPT ![k] = dlg[p][k]] /\ UNCHANGED <<cfg, dlg, shown, rdr>>
    BY <1>7, <2>2 DEF SaveKey, userVars
  <2>4. saved' \in {dlg[p], saved}
    BY <1>7 DEF SaveKey
  <2>5. dlg[p][k] \in Allowed(k)
    BY <1>0 DEF Legal
  <2>6. dlg[p][k] \in Int
    BY <2>5, AllowedIsNat
  <2>7. \A l \in Keys : ini'[l] \in Int
    BY <1>0, <2>3, <2>6 DEF Forms
  <2>8. Others(p)
    BY <1>0, <1>7, OthersStay DEF Local
  <2> QED
    BY <1>0, <2>3, <2>4, <2>7, <2>8, ValuesAfter
<1>8. ASSUME NEW p \in Procs, Crash(p) PROVE Values'
  <2>1. /\ cfg'[p] = Defaults /\ dlg'[p] = Defaults /\ shown'[p] = Defaults
        /\ UNCHANGED <<saved, ini>>
    BY <1>0, <1>8 DEF Crash, iniVars, knownVars, Shape, Forms
  <2>2. \A r \in Readers : rdr'[r].copy \in {Defaults, rdr[r].copy}
    BY <1>8 DEF Crash
  <2>3. Others(p)
    BY <1>0, <1>8, OthersStay DEF Local
  <2>4. \A r \in Readers : Legal(rdr'[r].copy)
    BY <1>0, <2>2, DefaultsLegal
  <2> QED
    BY <1>0, <2>1, <2>3, <2>4, DefaultsLegal, ValuesAfter
<1>9. ASSUME NEW r \in Readers, BeginCopy(r) \/ CopyField(r) \/ EndCopy(r) PROVE Values'
  <2>1. UNCHANGED <<cfg, dlg, shown, saved, ini>> /\ ProcOf[r] \in Procs
    BY <1>9, CfgAssumption DEF BeginCopy, CopyField, EndCopy, iniVars, userVars, knownVars
  <2>2. \A q \in Readers : q # r => rdr'[q] = rdr[q]
    BY <1>0, <1>9 DEF BeginCopy, CopyField, EndCopy, Shape
  <2>3. Legal(rdr'[r].copy)
    <3>1. CASE BeginCopy(r)
      <4>1. rdr'[r].copy = rdr[r].copy
        BY <1>0, <3>1 DEF BeginCopy, Shape
      <4> QED
        BY <1>0, <4>1
    <3>2. CASE EndCopy(r)
      <4>1. rdr'[r].copy = Defaults
        BY <1>0, <3>2 DEF EndCopy, Shape
      <4> QED
        BY <4>1, DefaultsLegal
    <3>3. CASE CopyField(r)
      <4>1. rdr[r].at \in 1 .. 4
        BY <3>3, OrderIsComplete DEF CopyField, Copying
      <4>2. PICK k \in Keys : k = AssignOrder[rdr[r].at]
        BY <4>1, OrderIsComplete
      <4>3. PICK c : c = [rdr[r].copy EXCEPT ![k] = cfg[ProcOf[r]][k]]
        OBVIOUS
      <4>4. rdr'[r].copy = c
        BY <1>0, <3>3, <4>2, <4>3 DEF CopyField, Shape
      <4>5. cfg[ProcOf[r]][k] \in Allowed(k)
        BY <1>0, <2>1 DEF Legal
      <4> QED
        BY <1>0, <4>3, <4>4, <4>5, LegalExcept
    <3> QED
      BY <1>9, <3>1, <3>2, <3>3
  <2> QED
    BY <1>0, <2>1, <2>2, <2>3 DEF Values, Legal, IsSettings
<1>10. CASE ByHand
  <2>1. UNCHANGED <<cfg, dlg, shown, rdr>> /\ saved' \in {Meaning(ini'), saved}
    BY <1>10 DEF ByHand, userVars
  <2>2. \A k \in Keys : ini'[k] \in Int
    <3>1. CASE ini' = [k \in Keys |-> -1]
      BY <3>1
    <3>2. CASE \E k \in Keys : \E v \in Raw[k] : ini' = [ini EXCEPT ![k] = v]
      <4>1. PICK k \in Keys : \E v \in Raw[k] : ini' = [ini EXCEPT ![k] = v]
        BY <3>2
      <4>2. PICK v \in Raw[k] : ini' = [ini EXCEPT ![k] = v]
        BY <4>1
      <4>3. v \in Int
        BY CfgAssumption
      <4> QED
        BY <1>0, <4>2, <4>3 DEF Forms
    <3> QED
      BY <1>10, <3>1, <3>2 DEF ByHand
  <2>3. Legal(saved')
    BY <1>0, <2>1, <2>2, MeaningLegal
  <2> QED
    BY <1>0, <2>1, <2>2, <2>3 DEF Values, Legal, IsSettings
<1>11. CASE UNCHANGED vars
  BY <1>11 DEF vars, iniVars, userVars, knownVars, Values, Legal, IsSettings
<1> QED
  BY <1>1, <1>2, <1>3, <1>4, <1>5, <1>6, <1>7, <1>8, <1>9, <1>10, <1>11 DEF Next

-----------------------------------------------------------------------------
LEMMA LangFact ==
  ASSUME NEW l PROVE UpdateLang(l) \in setup.files \cup {"en"}
<1>1. \A m : LangFile(m) # "none" => LangFile(m) \in setup.files
  BY DEF LangFile
<1> QED
  BY <1>1 DEF UpdateLang

LEMMA LangsStep ==
  ASSUME Shape, Forms, Langs, [Next]_vars PROVE Langs'
<1>1. setup'.files = setup.files
  <2>1. CASE ByHand
    BY <2>1 DEF ByHand, Forms
  <2>2. CASE setup' = setup
    BY <2>2
  <2> QED
    BY <2>1, <2>2 DEF Next, vars, iniVars, Start, Configure, BeginLoad, ReadKey, TakeLock,
       AssignField, Loaded, Ok, Cancel, BeginSave, SaveKey, Crash, BeginCopy, CopyField, EndCopy
<1>2. ASSUME NEW p \in Procs PROVE lang'[p] \in {lang[p], Lang}
  <2>1. CASE lang' = lang
    BY <2>1
  <2>2. CASE \E q \in Procs : lang' = [lang EXCEPT ![q] = Lang]
    BY <2>2 DEF Forms
  <2> QED
    BY <2>1, <2>2 DEF Next, vars, Start, Configure, BeginLoad, ReadKey, TakeLock, AssignField,
       Loaded, Ok, Cancel, BeginSave, SaveKey, Crash, BeginCopy, CopyField, EndCopy, ByHand
<1>3. Lang \in setup.files \cup {"en"}
  BY LangFact DEF Lang
<1> QED
  BY <1>1, <1>2, <1>3 DEF Langs

LEMMA CountsStep ==
  ASSUME IInv, Forms, Flags, Counts, [Next]_vars PROVE Counts'
<1>0. Shape /\ MaxDialogs \in Nat
  BY CfgAssumption DEF IInv
<1>1. ASSUME NEW p \in Procs, NEW q \in Procs, q # p, Local(p) PROVE CountsAt(q)'
  <2>1. Others(p) /\ CountsAt(q)
    BY <1>0, <1>1, OthersStay DEF Counts
  <2>2. calm'[q] \in BOOLEAN
    <3>1. CASE BeginSave(p)
      BY <2>1, <3>1 DEF BeginSave, CountsAt
    <3>2. CASE Start(p) \/ Configure(p)
      BY <1>1, <2>1, <3>2 DEF Start, Configure, BeginLoad, Forms, CountsAt
    <3> QED
      BY <1>1, <2>1, <3>1, <3>2 DEF Local, ReadKey, TakeLock, AssignField, Loaded, Ok, Cancel,
         SaveKey, Crash, knownVars, CountsAt
  <2> QED
    BY <1>1, <2>1, <2>2 DEF Others, CountsAt
<1>2. ASSUME NEW p \in Procs, Local(p) PROVE CountsAt(p)'
  <2>0. CountsAt(p)
    BY DEF Counts
  <2>1. CASE Start(p)
    BY <1>0, <2>0, <2>1 DEF Start, BeginLoad, userVars, Flags, CountsAt, Shape, Forms
  <2>2. CASE Configure(p)
    BY <1>0, <2>0, <2>2 DEF Configure, BeginLoad, userVars, Flags, CountsAt, Shape, Forms
  <2>3. CASE ReadKey(p)
    BY <1>0, <2>0, <2>3, OrderIsComplete DEF ReadKey, userVars, knownVars, CountsAt, Shape
  <2>4. CASE TakeLock(p)
    BY <1>0, <2>0, <2>4 DEF TakeLock, userVars, knownVars, CountsAt, Shape
  <2>5. CASE AssignField(p)
    <3>1. at[p] \in 1 .. 4
      BY <2>5 DEF IInv, Shape, CfgParts, AssignField, Assigning
    <3>2. pc'[p] \in {pc[p], "loaded", "check"} /\ (pc'[p] = "check" => at'[p] = 1)
      BY <1>0, <2>5, OrderIsComplete DEF AssignField, Shape
    <3>3. pc'[p] = "loaded" => pc[p] = "assign"
      BY <1>0, <2>5 DEF AssignField, Shape
    <3>4. at'[p] \in 1 .. 5 /\ UNCHANGED <<loads, touched>>
      BY <1>0, <2>5, <3>1, OrderIsComplete DEF AssignField, userVars, Shape
    <3>5. calm'[p] \in BOOLEAN
      BY <2>0, <2>5 DEF AssignField, knownVars, CountsAt
    <3>6. pc[p] \in {"assign", "commit"}
      BY <2>5 DEF AssignField
    <3> QED
      BY <2>0, <3>2, <3>3, <3>4, <3>5, <3>6 DEF CountsAt
  <2>6. CASE Loaded(p)
    BY <1>0, <2>0, <2>6 DEF Loaded, knownVars, CountsAt, Shape, Forms
  <2>7. CASE Ok(p)
    <3>1. touched'[p] \subseteq Keys
      BY <2>7, CfgAssumption DEF Ok, Forms
    <3>2. UNCHANGED <<at, loads, calm>> /\ pc'[p] = "ok"
      BY <1>0, <2>7 DEF Ok, knownVars, Shape
    <3> QED
      BY <2>0, <3>1, <3>2 DEF CountsAt
  <2>8. CASE Cancel(p)
    BY <1>0, <2>0, <2>8 DEF Cancel, userVars, knownVars, CountsAt, Shape
  <2>9. CASE SaveKey(p)
    BY <1>0, <2>0, <2>9, OrderIsComplete DEF SaveKey, userVars, CountsAt, Shape
  <2>10. CASE Crash(p)
    BY <1>0, <2>0, <2>10 DEF Crash, knownVars, CountsAt, Shape, Forms
  <2>11. CASE BeginSave(p)
    <3>1. pc'[p] \in {"save", "idle"} /\ pc[p] = "check" /\ UNCHANGED <<at, loads, touched>>
      BY <1>0, <2>11 DEF BeginSave, userVars, Shape
    <3>2. calm'[p] \in BOOLEAN
      BY <2>0, <2>11 DEF BeginSave, CountsAt
    <3> QED
      BY <2>0, <3>1, <3>2 DEF CountsAt
  <2> QED
    BY <1>2, <2>1, <2>2, <2>3, <2>4, <2>5, <2>6, <2>7, <2>8, <2>9, <2>10, <2>11 DEF Local
<1>3. ASSUME UNCHANGED <<pc, at, loads, touched>>, NEW q \in Procs, calm'[q] \in BOOLEAN
      PROVE  CountsAt(q)'
  BY <1>3 DEF Counts, CountsAt
<1>4. ASSUME NEW r \in Readers, BeginCopy(r) \/ CopyField(r) \/ EndCopy(r), NEW q \in Procs
      PROVE  CountsAt(q)'
  <2>1. UNCHANGED <<pc, at, loads, touched, calm>>
    BY <1>4 DEF BeginCopy, CopyField, EndCopy, userVars, knownVars
  <2> QED
    BY <2>1 DEF Counts, CountsAt
<1>5. ASSUME ByHand, NEW q \in Procs PROVE CountsAt(q)'
  BY <1>3, <1>5 DEF ByHand, userVars
<1>6. ASSUME UNCHANGED vars, NEW q \in Procs PROVE CountsAt(q)'
  BY <1>6 DEF vars, userVars, knownVars, Counts, CountsAt
<1>7. ASSUME NEW p \in Procs, Local(p), NEW q \in Procs PROVE CountsAt(q)'
  BY <1>1, <1>2, <1>7
<1> QED
  BY <1>4, <1>5, <1>6, <1>7 DEF Next, Local, Counts

LEMMA FlagsStep == ASSUME Flags, [Next]_vars PROVE Flags'
<1>1. hasIni' \in BOOLEAN
  BY DEF Flags, Next, vars, iniVars, Start, Configure, BeginLoad, ReadKey, TakeLock,
     AssignField, Loaded, Ok, Cancel, BeginSave, SaveKey, Crash, BeginCopy, CopyField, EndCopy, ByHand
<1>2. known' \in BOOLEAN
  BY DEF Flags, Next, vars, knownVars, Start, Configure, BeginLoad, ReadKey, TakeLock,
     AssignField, Loaded, Ok, Cancel, BeginSave, SaveKey, Crash, BeginCopy, CopyField, EndCopy, ByHand
<1> QED
  BY <1>1, <1>2 DEF Flags

LEMMA UntouchedStep ==
  ASSUME IInv, Forms, Values, Untouched, [Next]_vars PROVE Untouched'
<1>0. Shape
  BY DEF IInv
<1> DEFINE At(p) == /\ pc[p] = "dialog" => dlg[p] = shown[p]
                    /\ pc[p] \in {"ok", "commit", "check", "save"} =>
                         \A k \in Keys \ touched[p] : dlg[p][k] = shown[p][k]
<1>1. \A p \in Procs : At(p)
  BY DEF Untouched
<1>2. ASSUME NEW p \in Procs, Local(p), NEW q \in Procs, q # p PROVE At(q)'
  <2>1. Others(p)
    BY <1>0, <1>2, OthersStay
  <2> QED
    BY <1>1, <1>2, <2>1 DEF Others
<1>3. ASSUME NEW p \in Procs, Local(p) PROVE At(p)'
  <2>1. CASE Start(p) \/ Configure(p) \/ Cancel(p) \/ Crash(p)
    <3>1. pc'[p] \in {"read", "loaded", "idle", "off"}
      BY <1>0, <2>1 DEF Start, Configure, BeginLoad, Cancel, Crash, Shape
    <3> QED
      BY <3>1
  <2>2. CASE ReadKey(p)
    <3>1. pc'[p] = "read"
      BY <1>0, <2>2 DEF ReadKey, Shape
    <3> QED
      BY <3>1
  <2>3. CASE TakeLock(p)
    <3>1. UNCHANGED <<dlg, shown, touched>>
      BY <2>3 DEF TakeLock, userVars
    <3>2. pc'[p] = "assign" \/ (pc'[p] = "commit" /\ pc[p] = "ok")
      BY <1>0, <2>3 DEF TakeLock, Shape
    <3> QED
      BY <1>1, <3>1, <3>2
  <2>4. CASE AssignField(p)
    <3>1. UNCHANGED <<dlg, shown, touched>>
      BY <2>4 DEF AssignField, userVars
    <3>2. \/ pc'[p] \in {"assign", "loaded"}
         \/ (pc'[p] \in {"commit", "check"} /\ pc[p] = "commit")
      BY <1>0, <2>4 DEF AssignField, Shape
    <3> QED
      BY <1>1, <3>1, <3>2
  <2>5. CASE Loaded(p)
    BY <1>0, <2>5 DEF Loaded, Shape, Forms
  <2>6. CASE Ok(p)
    <3>1. PICK c \in Picks :
            /\ touched' = [touched EXCEPT ![p] = DOMAIN c]
            /\ dlg' = [dlg EXCEPT ![p] = [k \in Keys |->
                 Set(k, IF k \in DOMAIN c THEN c[k] ELSE Box(k, dlg[p][k]))]]
      BY <2>6 DEF Ok
    <3>2. PICK e : e = [k \in Keys |-> Set(k, IF k \in DOMAIN c THEN c[k] ELSE Box(k, dlg[p][k]))]
      OBVIOUS
    <3>3. dlg'[p] = e /\ touched'[p] = DOMAIN c
      BY <1>0, <3>1, <3>2 DEF Shape, Forms
    <3>4. Legal(dlg[p])
      BY DEF Values
    <3>5. \A k \in Keys \ DOMAIN c : e[k] = dlg[p][k]
      BY <3>2, <3>4, OkLegal
    <3>6. shown'[p] = shown[p] /\ dlg[p] = shown[p] /\ pc'[p] = "ok"
      BY <1>0, <1>1, <2>6 DEF Ok, Shape
    <3> QED
      BY <3>3, <3>5, <3>6
  <2>7. CASE BeginSave(p) \/ SaveKey(p)
    <3>1. UNCHANGED <<dlg, shown, touched>> /\ pc[p] \in {"check", "save"}
      BY <2>7 DEF BeginSave, SaveKey, userVars
    <3>2. pc'[p] \in {"save", "idle"}
      BY <1>0, <2>7 DEF BeginSave, SaveKey, Shape
    <3> QED
      BY <1>1, <3>1, <3>2
  <2> QED
    BY <1>3, <2>1, <2>2, <2>3, <2>4, <2>5, <2>6, <2>7 DEF Local
<1>4. ASSUME UNCHANGED <<pc, dlg, shown, touched>>, NEW q \in Procs PROVE At(q)'
  BY <1>1, <1>4
<1>5. ASSUME NEW r \in Readers, BeginCopy(r) \/ CopyField(r) \/ EndCopy(r)
      PROVE  UNCHANGED <<pc, dlg, shown, touched>>
  BY <1>5 DEF BeginCopy, CopyField, EndCopy, userVars
<1>6. ASSUME ByHand \/ UNCHANGED vars PROVE UNCHANGED <<pc, dlg, shown, touched>>
  BY <1>6 DEF ByHand, vars, userVars
<1>7. \A q \in Procs : At(q)'
  <2> HIDE DEF At
  <2> QED
    BY <1>2, <1>3, <1>4, <1>5, <1>6 DEF Next, Local
<1> QED
  BY <1>7 DEF Untouched

Places == \A r \in Readers : rdr[r].at \in 0 .. 5

LEMMA PlacesStep == ASSUME Shape, Places, [Next]_vars PROVE Places'
<1>1. ASSUME NEW r \in Readers, BeginCopy(r) \/ CopyField(r) \/ EndCopy(r) PROVE Places'
  BY <1>1, OrderIsComplete DEF BeginCopy, CopyField, EndCopy, Copying, Places, Shape
<1>2. ASSUME NEW p \in Procs, Crash(p) PROVE Places'
  BY <1>2 DEF Crash, Places
<1>3. CASE UNCHANGED rdr
  BY <1>3 DEF Places
<1> QED
  BY <1>1, <1>2, <1>3 DEF Next, vars, Start, Configure, BeginLoad, ReadKey, TakeLock,
     AssignField, Loaded, Ok, Cancel, BeginSave, SaveKey, ByHand

LEMMA MoreInit == Init => Forms /\ Values /\ Counts /\ Langs /\ Flags /\ Untouched /\ Places
<1> SUFFICES ASSUME Init PROVE Forms /\ Values /\ Counts /\ Langs /\ Flags /\ Untouched /\ Places
  OBVIOUS
<1>1. Forms
  BY CfgAssumption DEF Init, Forms
<1>2. Values
  BY DefaultsLegal, CfgAssumption DEF Init, Values
<1>3. Counts /\ Langs /\ Flags /\ Untouched /\ Places
  BY CfgAssumption DEF Init, Counts, CountsAt, Langs, Flags, Untouched, Places
<1> QED
  BY <1>1, <1>2, <1>3

(* With the copies, what every setting, place and count may be.            *)
Sound == IInv /\ Forms /\ Values /\ Counts /\ Langs /\ Flags /\ Untouched /\ Places

LEMMA SoundStep == Sound /\ [Next]_vars => Sound'
<1> SUFFICES ASSUME Sound, [Next]_vars PROVE Sound'
  OBVIOUS
<1>1. Shape
  BY DEF Sound, IInv
<1> QED
  BY <1>1, StepInv, FormsStep, ValuesStep, CountsStep, LangsStep, FlagsStep, UntouchedStep, PlacesStep DEF Sound

THEOREM Soundness == Spec => []Sound
<1>1. Init => Sound
  BY InitInv, MoreInit DEF Sound
<1> QED
  BY <1>1, SoundStep, PTL DEF Spec

(* The settings in memory, in a dialog and in a copy are legal whatever    *)
(* stands in the ini, and the language has a file.                         *)
THEOREM TypeCorrect == Spec => []TypeOK
<1>1. Sound => TypeOK
  <2> SUFFICES ASSUME Sound PROVE TypeOK
    OBVIOUS
  <2>1. ASSUME NEW p \in Procs
        PROVE  /\ IsConfig(cfg[p]) /\ IsConfig(dlg[p]) /\ IsConfig(shown[p]) /\ CountsAt(p)
               /\ lang[p] \in setup.files \cup {"en", "none"}
    BY LegalIsConfig DEF Sound, Values, Counts, Langs
  <2>2. ASSUME NEW r \in Readers
        PROVE  IsConfig(rdr[r].copy) /\ rdr[r].at \in 0 .. Len(AssignOrder) + 1
    <3>1. rdr[r].at \in Nat /\ Legal(rdr[r].copy) /\ rdr[r].at <= 5
      BY DEF Sound, Places, IInv, Shape, Values
    <3> QED
      BY <3>1, LegalIsConfig, OrderIsComplete
  <2>3. DOMAIN ini = Keys /\ hasIni \in BOOLEAN /\ known \in BOOLEAN /\ IsConfig(saved)
    BY LegalIsConfig DEF Sound, Values, Forms, Flags
  <2> QED
    BY <2>1, <2>2, <2>3, OrderIsComplete DEF TypeOK, CountsAt
<1> QED
  BY <1>1, Soundness, PTL

(* A setting the user does not touch in the dialog is assigned and saved   *)
(* as it was shown (wm_init, wm_command_ok).                               *)
THEOREM UntouchedKept == Spec => []DialogKeepsUntouched
<1>1. Sound => DialogKeepsUntouched
  BY DEF Sound, Untouched, DialogKeepsUntouched
<1> QED
  BY <1>1, Soundness, PTL

-----------------------------------------------------------------------------
(* The order of the ini has every setting, once.                           *)
LEMMA IniOrder ==
  /\ \A k \in Keys : \E i \in 1 .. 4 : k = Order[i]
  /\ \A i, j \in 1 .. 4 : Order[i] = Order[j] => i = j
<1>1. /\ Order[1] = "CompressionLevel" /\ Order[2] = "CacheLifetime"
      /\ Order[3] = "FileTimeFlags" /\ Order[4] = "FileAttrFlags"
  BY DEF Order
<1>2. \A i \in 1 .. 4 : i = 1 \/ i = 2 \/ i = 3 \/ i = 4
  OBVIOUS
<1> QED
  BY <1>1, <1>2 DEF Keys

(* The settings before the n-th are the same in both.                      *)
Same(c, d, n) == \A i \in 1 .. 4 : i < n => c[Order[i]] = d[Order[i]]

LEMMA SameAll ==
  ASSUME NEW c, NEW d, IsSettings(c), IsSettings(d), Same(c, d, 5) PROVE c = d
<1>1. \A i \in 1 .. 4 : c[Order[i]] = d[Order[i]]
  BY DEF Same
<1>2. \A k \in Keys : c[k] = d[k]
  BY <1>1, IniOrder
<1> QED
  BY <1>2 DEF IsSettings

LEMMA SameMore ==
  ASSUME NEW c, IsSettings(c), NEW d, NEW n \in 1 .. 4, Same(c, d, n), NEW v, v = d[Order[n]],
         NEW e, e = [c EXCEPT ![Order[n]] = v]
  PROVE  IsSettings(e) /\ Same(e, d, n + 1)
<1>1. Order[n] \in Keys /\ c = [k \in Keys |-> c[k]]
  BY OrderIsComplete DEF IsSettings
<1>2. /\ e = [k \in Keys |-> e[k]] /\ e[Order[n]] = v
      /\ \A k \in Keys : k # Order[n] => e[k] = c[k]
  BY <1>1, Except
<1>3. ASSUME NEW i \in 1 .. 4, i < n + 1 PROVE e[Order[i]] = d[Order[i]]
  <2>1. CASE i = n
    BY <1>2, <2>1
  <2>2. CASE i # n
    <3>1. i < n /\ Order[i] # Order[n] /\ Order[i] \in Keys
      BY <1>3, <2>2, IniOrder, OrderIsComplete
    <3> QED
      BY <1>2, <3>1 DEF Same
  <2> QED
    BY <2>1, <2>2
<1> QED
  BY <1>2, <1>3 DEF IsSettings, Same

(* What a load has read so far is what was saved, and what a save has      *)
(* written so far stands in the ini, as long as nobody interferes.         *)
Undisturbed(p) ==
  calm[p] =>
    /\ pc[p] = "save" => Saving = {p} /\ Same(ini, dlg[p], at[p])
    /\ pc[p] \in {"read", "assign"} => known
    /\ pc[p] = "read" => Same(dlg[p], saved, at[p])
    /\ pc[p] = "assign" => dlg[p] = saved

Known == known => Saving = {} /\ Meaning(ini) = saved

IniSound == Known /\ \A p \in Procs : Undisturbed(p)

(* A step of p that neither is nor becomes a save.                         *)
LEMMA NoSaveStep ==
  ASSUME IniSound, NEW p \in Procs, Others(p), UNCHANGED <<ini, known, saved>>,
         \A q \in Procs : q # p => calm'[q] = calm[q],
         pc[p] # "save", pc'[p] # "save", Undisturbed(p)'
  PROVE  IniSound'
<1>1. Saving' = Saving
  BY DEF Saving, Others
<1>2. Known'
  BY <1>1 DEF IniSound, Known, Meaning
<1>3. ASSUME NEW q \in Procs, q # p PROVE Undisturbed(q)'
  <2>1. Undisturbed(q)
    BY DEF IniSound
  <2> QED
    BY <1>1, <1>3, <2>1 DEF Undisturbed, Others, Same
<1> QED
  BY <1>2, <1>3 DEF IniSound

LEMMA SaveKeyUndisturbed ==
  ASSUME Sound, IniSound, NEW p \in Procs, SaveKey(p) PROVE IniSound'
<1>0. /\ Shape /\ Forms /\ CountsAt(p) /\ Legal(dlg[p]) /\ IsSettings(dlg[p]) /\ known \in BOOLEAN
      /\ ini = [k \in Keys |-> ini[k]] /\ pc[p] = "save"
  BY DEF Sound, IInv, Counts, Values, Flags, Forms, Legal, SaveKey
<1>1. Others(p)
  BY <1>0, OthersStay DEF Local
<1>2. at[p] \in 1 .. 4
  BY <1>0 DEF CountsAt
<1>3. PICK k \in Keys : k = Order[at[p]]
  BY <1>2, OrderIsComplete
<1>4. p \in Saving /\ known = FALSE
  BY <1>0 DEF Saving, IniSound, Known
<1>5. /\ ini' = [ini EXCEPT ![k] = dlg[p][k]] /\ UNCHANGED <<dlg, calm>>
      /\ known' = (known \/ (at[p] = 4 /\ calm[p]))
      /\ saved' = IF at[p] = 4 /\ calm[p] THEN dlg[p] ELSE saved
      /\ at'[p] = IF at[p] = 4 THEN 1 ELSE at[p] + 1
      /\ pc'[p] = IF at[p] = 4 THEN "idle" ELSE "save"
  BY <1>0, <1>3, OrderIsComplete DEF SaveKey, Shape
<1>6. ASSUME NEW q \in Procs, q # p PROVE Undisturbed(q)'
  <2>1. Undisturbed(q) /\ pc'[q] = pc[q] /\ calm'[q] = calm[q]
    BY <1>1, <1>5, <1>6 DEF IniSound, Others
  <2>2. calm[q] => pc[q] \notin {"save", "read", "assign"}
    BY <1>4, <1>6, <2>1 DEF Undisturbed
  <2> QED
    BY <2>1, <2>2 DEF Undisturbed
<1>7. CASE ~calm[p]
  <2>1. known' = FALSE
    BY <1>4, <1>5, <1>7
  <2>2. Undisturbed(p)'
    BY <1>5, <1>7 DEF Undisturbed
  <2> QED
    BY <1>6, <2>1, <2>2 DEF IniSound, Known
<1>8. CASE calm[p]
  <2>1. Saving = {p} /\ Same(ini, dlg[p], at[p])
    BY <1>0, <1>8 DEF IniSound, Undisturbed
  <2>2. IsSettings(ini') /\ Same(ini', dlg[p], at[p] + 1)
    BY <1>0, <1>2, <1>3, <1>5, <2>1, SameMore DEF IsSettings
  <2>3. CASE at[p] # 4
    <3>1. Saving' = {p}
      BY <1>1, <1>5, <2>1, <2>3 DEF Saving, Others
    <3>2. Undisturbed(p)'
      BY <1>5, <2>2, <2>3, <3>1 DEF Undisturbed, Same
    <3>3. known' = FALSE
      BY <1>4, <1>5, <2>3
    <3> QED
      BY <1>6, <3>2, <3>3 DEF IniSound, Known
  <2>4. CASE at[p] = 4
    <3>1. Saving' = {}
      BY <1>1, <1>5, <2>1, <2>4 DEF Saving, Others
    <3>2. ini' = dlg[p]
      BY <1>0, <2>2, <2>4, SameAll
    <3>3. ASSUME NEW l \in Keys PROVE Load(l, ini'[l]) = dlg[p][l]
      <4>1. dlg[p][l] \in Allowed(l)
        BY <1>0 DEF Legal
      <4> QED
        BY <3>2, <4>1, AllowedIsNat, LoadFact
    <3>4. Meaning(ini') = dlg[p]
      BY <1>0, <3>3 DEF Meaning, IsSettings
    <3>5. Known'
      BY <1>5, <1>8, <2>4, <3>1, <3>4 DEF Known, Meaning
    <3>6. Undisturbed(p)'
      BY <1>5, <2>4 DEF Undisturbed
    <3> QED
      BY <1>6, <3>5, <3>6 DEF IniSound
  <2> QED
    BY <2>3, <2>4
<1> QED
  BY <1>7, <1>8

LEMMA AssignFieldUndisturbed ==
  ASSUME Sound, IniSound, NEW p \in Procs, AssignField(p) PROVE IniSound'
<1>0. Shape /\ Forms /\ pc[p] \in {"assign", "commit"}
  BY DEF Sound, IInv, AssignField
<1>1. Others(p) /\ UNCHANGED <<ini, dlg, calm, known, saved>>
  BY <1>0, OthersStay DEF Local, AssignField, iniVars, knownVars
<1>2. pc'[p] \in {"assign", "commit", "loaded", "check"} /\ (pc'[p] = "assign" => pc[p] = "assign")
  BY <1>0, OrderIsComplete DEF AssignField, Shape
<1>3. Undisturbed(p)
  BY DEF IniSound
<1>4. Undisturbed(p)'
  BY <1>1, <1>2, <1>3 DEF Undisturbed
<1> QED
  BY <1>0, <1>1, <1>2, <1>4, NoSaveStep

LEMMA BeginSaveUndisturbed ==
  ASSUME Sound, IniSound, NEW p \in Procs, BeginSave(p) PROVE IniSound'
<1>0. Shape /\ Forms /\ CountsAt(p) /\ pc[p] = "check"
  BY DEF Sound, IInv, Counts, BeginSave
<1>1. Others(p) /\ UNCHANGED <<ini, dlg, at, saved>>
  BY <1>0, OthersStay DEF Local, BeginSave, iniVars
<1>2. CASE hasIni
  <2>1. /\ calm' = [q \in Procs |-> q = p /\ Saving = {}] /\ known' = FALSE
        /\ pc'[p] = "save" /\ at'[p] = 1
    BY <1>0, <1>1, <1>2 DEF BeginSave, CountsAt, Shape
  <2>2. Saving = {} => Saving' = {p}
    BY <1>1, <2>1 DEF Saving, Others
  <2>3. ASSUME NEW q \in Procs PROVE Undisturbed(q)'
    <3>1. CASE q = p
      <4>1. calm'[p] => Saving' = {p}
        BY <2>1, <2>2
      <4>2. Same(ini', dlg'[p], at'[p]) /\ pc'[p] = "save"
        BY <2>1 DEF Same
      <4> QED
        BY <3>1, <4>1, <4>2 DEF Undisturbed, Same
    <3>2. CASE q # p
      BY <2>1, <3>2 DEF Undisturbed
    <3> QED
      BY <3>1, <3>2
  <2> QED
    BY <2>1, <2>3 DEF IniSound, Known
<1>3. CASE ~hasIni
  <2>1. calm' = calm /\ known' = known /\ pc'[p] = "idle"
    BY <1>0, <1>3 DEF BeginSave, Shape
  <2>2. Undisturbed(p)'
    BY <2>1 DEF Undisturbed
  <2> QED
    BY <1>0, <1>1, <2>1, <2>2, NoSaveStep
<1> QED
  BY <1>2, <1>3

LEMMA ByHandUndisturbed ==
  ASSUME Sound, IniSound, ByHand PROVE IniSound'
<1>1. Saving' = Saving /\ calm' = [p \in Procs |-> FALSE]
  BY DEF ByHand, Saving
<1>2. known' => saved' = Meaning(ini')
  BY DEF ByHand
<1>3. known' => Saving = {}
  <2>1. CASE known' = (Saving = {})
    BY <2>1
  <2>2. CASE known' = known
    BY <2>2 DEF IniSound, Known
  <2> QED
    BY <2>1, <2>2 DEF ByHand
<1>4. Known'
  BY <1>1, <1>2, <1>3 DEF Known, Meaning
<1> QED
  BY <1>1, <1>4 DEF IniSound, Undisturbed

LEMMA IniSoundStep == Sound /\ IniSound /\ [Next]_vars => IniSound'
<1> SUFFICES ASSUME Sound, IniSound, [Next]_vars PROVE IniSound'
  OBVIOUS
<1>0. Shape /\ Forms /\ Counts /\ Values /\ Flags
  BY DEF Sound, IInv
<1>1. ASSUME NEW p \in Procs, Start(p) \/ Configure(p) PROVE IniSound'
  <2>1. UNCHANGED <<ini, known, saved>> /\ Others(p) /\ calm' = [calm EXCEPT ![p] = known]
    BY <1>0, <1>1, OthersStay DEF Local, Start, Configure, BeginLoad, iniVars
  <2>2. pc[p] # "save" /\ pc'[p] \in {"read", "loaded"} /\ at'[p] = 1
    BY <1>0, <1>1 DEF Start, Configure, BeginLoad, Shape
  <2>3. calm'[p] = known /\ \A q \in Procs : q # p => calm'[q] = calm[q]
    BY <1>0, <2>1 DEF Forms
  <2>4. Undisturbed(p)'
    BY <2>1, <2>2, <2>3 DEF Undisturbed, Same
  <2> QED
    BY <2>1, <2>2, <2>3, <2>4, NoSaveStep
<1>2. ASSUME NEW p \in Procs, ReadKey(p) PROVE IniSound'
  <2>1. at[p] \in 1 .. 4 /\ pc[p] = "read"
    <3>1. at[p] \in Nat \ {0}
      BY <1>0 DEF Shape
    <3>2. at[p] <= 4 /\ pc[p] = "read"
      BY <1>2, OrderIsComplete DEF ReadKey
    <3> QED
      BY <3>1, <3>2
  <2>2. PICK k \in Keys : k = Order[at[p]]
    BY <2>1, OrderIsComplete
  <2>3. UNCHANGED <<ini, known, saved, calm, pc>> /\ Others(p)
    BY <1>0, <1>2, OthersStay DEF Local, ReadKey, iniVars, knownVars
  <2>4. dlg'[p] = [dlg[p] EXCEPT ![k] = Load(k, ini[k])] /\ at'[p] = at[p] + 1
    BY <1>0, <1>2, <2>2 DEF ReadKey, Shape
  <2>5. Undisturbed(p)'
    <3>1. CASE ~calm[p]
      BY <2>3, <3>1 DEF Undisturbed
    <3>2. CASE calm[p]
      <4>1. known /\ Meaning(ini) = saved /\ Same(dlg[p], saved, at[p])
        BY <2>1, <3>2 DEF IniSound, Undisturbed, Known
      <4>2. Load(k, ini[k]) = saved[k]
        BY <4>1 DEF Meaning
      <4>3. Same(dlg'[p], saved, at[p] + 1)
        BY <1>0, <2>1, <2>2, <2>4, <4>1, <4>2, SameMore DEF Shape
      <4> QED
        BY <2>1, <2>3, <2>4, <4>1, <4>3 DEF Undisturbed, Same
    <3> QED
      BY <3>1, <3>2
  <2> QED
    BY <2>1, <2>3, <2>5, NoSaveStep
<1>3. ASSUME NEW p \in Procs, TakeLock(p) PROVE IniSound'
  <2>1. UNCHANGED <<ini, known, saved, calm, dlg>> /\ Others(p)
    BY <1>0, <1>3, OthersStay DEF Local, TakeLock, iniVars, knownVars
  <2>2. \/ pc[p] = "read" /\ pc'[p] = "assign" /\ at[p] > 4
        \/ pc[p] = "ok" /\ pc'[p] = "commit"
    BY <1>0, <1>3, OrderIsComplete DEF TakeLock, Shape
  <2>3. Undisturbed(p)'
    <3>1. CASE pc[p] = "read" /\ pc'[p] = "assign" /\ at[p] > 4 /\ calm[p]
      <4>1. at[p] = 5
        BY <1>0, <3>1 DEF Counts, CountsAt
      <4>2. known /\ Same(dlg[p], saved, 5)
        BY <3>1, <4>1 DEF IniSound, Undisturbed
      <4>3. dlg[p] = saved
        BY <1>0, <4>2, SameAll DEF Values, Legal
      <4> QED
        BY <2>1, <3>1, <4>2, <4>3 DEF Undisturbed
    <3>2. CASE ~calm[p] \/ pc'[p] = "commit"
      BY <2>1, <3>2 DEF Undisturbed
    <3> QED
      BY <2>2, <3>1, <3>2
  <2> QED
    BY <2>1, <2>2, <2>3, NoSaveStep
<1>4. ASSUME NEW p \in Procs, Loaded(p) \/ Ok(p) \/ Cancel(p) PROVE IniSound'
  <2>1. UNCHANGED <<ini, known, saved, calm>> /\ Others(p)
    BY <1>0, <1>4, OthersStay DEF Local, Loaded, Ok, Cancel, iniVars, knownVars
  <2>2. pc[p] \in {"loaded", "dialog"} /\ pc'[p] \in {"idle", "dialog", "ok"}
    BY <1>0, <1>4 DEF Loaded, Ok, Cancel, Shape
  <2>3. Undisturbed(p)'
    BY <2>2 DEF Undisturbed
  <2> QED
    BY <2>1, <2>2, <2>3, NoSaveStep
<1>5. ASSUME NEW p \in Procs, Crash(p) PROVE IniSound'
  <2>1. UNCHANGED <<ini, known, saved, calm>> /\ Others(p) /\ pc'[p] = "off"
    BY <1>0, <1>5, OthersStay DEF Local, Crash, iniVars, knownVars, Shape
  <2>2. Saving' = Saving \ {p}
    BY <2>1 DEF Saving, Others
  <2>3. Known'
    BY <2>1, <2>2 DEF IniSound, Known, Meaning
  <2>4. ASSUME NEW q \in Procs PROVE Undisturbed(q)'
    <3>1. CASE q = p
      BY <2>1, <3>1 DEF Undisturbed
    <3>2. CASE q # p
      <4>1. Undisturbed(q)
        BY DEF IniSound
      <4> QED
        BY <2>1, <2>2, <3>2, <4>1 DEF Undisturbed, Others, Same
    <3> QED
      BY <3>1, <3>2
  <2> QED
    BY <2>3, <2>4 DEF IniSound
<1>6. ASSUME UNCHANGED <<pc, at, dlg, ini, calm, known, saved>> PROVE IniSound'
  BY <1>6 DEF IniSound, Undisturbed, Known, Saving, Meaning, Same
<1>7. ASSUME NEW r \in Readers, BeginCopy(r) \/ CopyField(r) \/ EndCopy(r) PROVE IniSound'
  BY <1>6, <1>7 DEF BeginCopy, CopyField, EndCopy, iniVars, knownVars
<1>8. CASE UNCHANGED vars
  BY <1>6, <1>8 DEF vars, iniVars, knownVars
<1> QED
  BY <1>1, <1>2, <1>3, <1>4, <1>5, <1>7, <1>8, SaveKeyUndisturbed, AssignFieldUndisturbed,
     BeginSaveUndisturbed, ByHandUndisturbed DEF Next

THEOREM IniSoundness == Spec => []IniSound
<1>1. Init => IniSound
  <2> SUFFICES ASSUME Init PROVE IniSound
    OBVIOUS
  <2>1. Saving = {} /\ saved = Defaults /\ ini = [k \in Keys |-> -1]
    BY DEF Init, Saving
  <2>2. Meaning(ini) = saved
    <3>1. \A k \in Keys : Load(k, ini[k]) = Defaults[k]
      BY <2>1 DEF Load
    <3> QED
      BY <2>1, <3>1, DefaultsAreSettings DEF Meaning, IsSettings
  <2>3. \A p \in Procs : calm[p] = FALSE
    BY DEF Init
  <2> QED
    BY <2>1, <2>2, <2>3 DEF IniSound, Known, Undisturbed
<1> QED
  BY <1>1, Soundness, IniSoundStep, PTL DEF Spec

(* A load with which nobody interfered gives what the last save that was   *)
(* alone has written: load_from_ini undoes save_to_ini.                    *)
THEOREM LoadUndoesSave == Spec => []LoadsWhole
<1>1. IniSound => LoadsWhole
  BY DEF IniSound, Undisturbed, LoadsWhole
<1> QED
  BY <1>1, IniSoundness, PTL

=============================================================================
