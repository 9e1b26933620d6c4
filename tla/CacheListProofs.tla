-------------------------- MODULE CacheListProofs --------------------------
(***************************************************************************)
(* Proofs about CacheList, for any finite set of threads, any files and    *)
(* any number of slots.  The inductive invariant IInv is a conjunction of  *)
(* named parts; none is inductive alone, each is preserved by every step   *)
(* from a state that satisfies the parts its lemma assumes:                *)
(*   TypeOK         the state is well formed;                              *)
(*   ControlInv     who owns which lock, reference, request and archive;   *)
(*   RefcountExact  every slot counts its holders exactly;                 *)
(*   LiveInv        nobody holds, or looks at, a slot without a cache;     *)
(*   BuildInv       what a builder has made of its cache so far;           *)
(*   UnreadyInv     an unready cache has a builder at work on it;          *)
(*   GrantInv       a published index is complete and no older than its    *)
(*                  recorded attributes, no newer than the file;           *)
(*   AskInv         a request is no newer than the file it names;          *)
(*   LockInv        the locks of the caches are held by who should;        *)
(*   GoneInv        after the unloading nothing is left.                   *)
(***************************************************************************)
EXTENDS CacheList, FiniteSetTheorems, TLAPS

Builder == {"build"} \cup Scanning

(* Locks, references, requests and the archive list follow the steps.      *)
ControlInv ==
  \A t \in Threads :
    /\ listOwner = t <=> pc[t] \in Locked
    /\ pc[t] \in {"wait", "check"} => scan \in Slots
    /\ arcOwner = t <=> pc[t] = "delrel"
    /\ ref[t] # NoSlot <=> pc[t] \in Holding
    /\ t \in arclist <=> pc[t] \in {"rdlock", "open", "del"}
    /\ ask[t] # NoRequest <=> pc[t] \in Opening
    /\ pc[t] = "gone" => \A u \in Threads : pc[u] = "gone"

(* A cache in use is live; so is the one get_cache is looking at.          *)
LiveInv ==
  \A t \in Threads :
    /\ ref[t] # NoSlot => status[ref[t]] # "Free"
    /\ pc[t] \in {"wait", "check"} => status[scan] # "Free" /\ file[scan] = ask[t].file

(* The status a builder has left behind, by where it stands; until the     *)
(* cache is published the builder is its only holder.                      *)
BuildInv ==
  \A t \in Threads :
    /\ pc[t] = "build" => status[ref[t]] = "Alloc"
    /\ pc[t] \in {"opening", "single", "builderr"} => status[ref[t]] = "Zombie"
    /\ pc[t] = "scan" => status[ref[t]] = "Init"
    /\ pc[t] = "fin" => status[ref[t]] \in {"Init", "Zombie"}
    /\ pc[t] \in Builder \cup {"builderr"} =>
         \A u \in Threads \ {t} : ref[u] # ref[t]
    /\ pc[t] \in {"build"} \cup Building \cup (Granted \cap Opening) =>
         file[ref[t]] = ask[t].file /\ attr[ref[t]] = ask[t].attr

(* A slot short of ready has a builder that will move it on.               *)
UnreadyInv ==
  \A s \in Slots : status[s] \in {"Alloc", "Init"} =>
    \E t \in Threads : ref[t] = s /\ pc[t] \in Builder

(* The index lies between the recorded attributes and the file on disk.    *)
Indexed(s) ==
  /\ file[s] \in Files
  /\ attr[s] # 0 /\ attr[s] <= content[s] /\ content[s] <= version[file[s]]

GrantInv ==
  /\ \A s \in Slots : status[s] = "Ready" => Indexed(s)
  /\ \A t \in Threads : pc[t] \in Granted \cup {"unlock"} =>
       status[ref[t]] \in {"Ready", "Zombie"} /\ Indexed(ref[t])
  /\ \A t \in Threads : pc[t] = "fin" => Indexed(ref[t])
  /\ \A t \in Threads : pc[t] = "open" => writer[ref[t]] = NoThread

AskInv == \A t \in Threads : pc[t] \in Opening => ask[t].attr <= version[ask[t].file]

LockInv ==
  \A s \in Slots :
    /\ readers[s] = {t \in Threads : pc[t] = "open" /\ ref[t] = s}
    /\ \A t \in Threads : writer[s] = t <=> pc[t] \in Building /\ ref[t] = s

GoneInv ==
  (\E t \in Threads : pc[t] = "gone") =>
    \A s \in Slots : status[s] = "Free" /\ refcount[s] = 0

IInv ==
  /\ TypeOK /\ ControlInv /\ RefcountExact /\ LiveInv /\ BuildInv
  /\ UnreadyInv /\ GrantInv /\ AskInv /\ LockInv /\ GoneInv

-----------------------------------------------------------------------------
(* Types.                                                                  *)

(* Every label an action goes to is one.                                   *)
LEMMA Labels ==
  {"idle", "zombies", "arcfile", "gone", "open", "del", "delrel", "lock", "search",
   "wait", "check", "create", "build", "opening", "scan", "single", "fin", "unlock",
   "builderr", "arcopen", "add", "rdlock", "drop"} = PCs
  BY DEF PCs, Opening, Locked, Building, Scanning

(* Release keeps the times, the counts and the references well typed.      *)
LEMMA ReleaseType ==
  ASSUME TypeOK, NEW t \in Threads, Release(t)
  PROVE  /\ aged' \in [Slots -> BOOLEAN]
         /\ refcount' \in [Slots -> Nat]
         /\ ref' \in [Threads -> Slots \cup {NoSlot}]
<1>1. aged' \in [Slots -> BOOLEAN]
  BY DEF Release, TypeOK
<1>2. refcount' \in [Slots -> Nat]
  <2>1. CASE ref[t] \in Slots
    BY <2>1 DEF Release, TypeOK
  <2>2. CASE ref[t] \notin Slots
    BY <2>2 DEF Release, TypeOK
  <2>3. QED
    BY <2>1, <2>2
<1>3. ref' \in [Threads -> Slots \cup {NoSlot}]
  BY DEF Release, TypeOK
<1>4. QED
  BY <1>1, <1>2, <1>3

(* The file a builder scans is the one its thread asked for.               *)
LEMMA BuilderFile ==
  ASSUME TypeOK, ControlInv, BuildInv, NEW t \in Threads, pc[t] \in Building
  PROVE  /\ ref[t] \in Slots
         /\ file[ref[t]] \in Files
         /\ ask[t] \in [file : Files, attr : Versions]
         /\ file[ref[t]] = ask[t].file /\ attr[ref[t]] = ask[t].attr
<1>1. ref[t] \in Slots
  BY DEF TypeOK, ControlInv, Holding
<1>2. ask[t] \in [file : Files, attr : Versions]
  BY DEF TypeOK, ControlInv, Opening
<1>3. QED
  BY <1>1, <1>2 DEF BuildInv

(* cache::init keeps the state well formed.                                *)
LEMMA BuildType ==
  ASSUME TypeOK, ControlInv, BuildInv, NEW t \in Threads, BuildStep(t)
  PROVE  TypeOK'
<1> USE Labels DEF TypeOK, listVars, arcVars, Goto, SetStatus, Clear
<1>1. CASE InitBegin(t)
  BY <1>1 DEF InitBegin
<1>2. CASE InitOpen(t)
  BY <1>2 DEF InitOpen
<1>3. CASE InitScan(t)
  <2>1. version[file[ref[t]]] \in Versions
    BY <1>3, BuilderFile DEF InitScan, Building, Scanning
  <2>2. QED
    BY <1>3, <2>1 DEF InitScan
<1>4. CASE InitFallback(t)
  BY <1>4 DEF InitFallback
<1>5. CASE InitReady(t)
  BY <1>5 DEF InitReady
<1>6. CASE InitUnlock(t)
  BY <1>6 DEF InitUnlock
<1>7. CASE InitFail(t)
  BY <1>7 DEF InitFail
<1>8. CASE GetCacheError(t)
  <2>1. ask' \in [Threads -> [file : Files, attr : Versions] \cup {NoRequest}]
    BY <1>8 DEF GetCacheError
  <2>2. QED
    BY <1>8, <2>1, ReleaseType DEF GetCacheError
<1>9. QED
  BY <1>1, <1>2, <1>3, <1>4, <1>5, <1>6, <1>7, <1>8 DEF BuildStep

(* Every step keeps the state well formed.                                 *)
LEMMA TypeStep ==
  ASSUME TypeOK, ControlInv, BuildInv, [Next]_vars
  PROVE  TypeOK'
<1> USE Labels, BoundsAssumption, FilesAssumption, ThreadsAssumption
    DEF TypeOK, cacheVars, listVars, arcVars, Goto
<1>1. ASSUME NEW f \in Files, Modify(f) PROVE TypeOK'
  BY <1>1 DEF Modify, Versions
<1>2. ASSUME NEW s \in Slots, Age(s) PROVE TypeOK'
  BY <1>2 DEF Age
<1>3. ASSUME NEW t \in Threads, HostStep(t) PROVE TypeOK'
  BY <1>3 DEF HostStep, BeginOpen, CloseFile
<1>4. ASSUME NEW t \in Threads, DeleteZombies(t) PROVE TypeOK'
  BY <1>4 DEF DeleteZombies, FreeSlots
<1>5. ASSUME NEW t \in Threads, ArcfileInit(t) PROVE TypeOK'
  <2>1. ASSUME NEW f \in Files,
               ask' = [ask EXCEPT ![t] = [file |-> f, attr |-> version[f]]]
        PROVE  ask' \in [Threads -> [file : Files, attr : Versions] \cup {NoRequest}]
    BY <2>1
  <2>2. pc' \in [Threads -> PCs]
    BY <1>5 DEF ArcfileInit
  <2>3. QED
    BY <1>5, <2>1, <2>2 DEF ArcfileInit
<1>6. ASSUME NEW t \in Threads, GetCacheLock(t) PROVE TypeOK'
  BY <1>6 DEF GetCacheLock
<1>7. ASSUME NEW t \in Threads, Search(t) PROVE TypeOK'
  <2>1. pc' \in [Threads -> PCs]
    BY <1>7 DEF Search
  <2>2. scan' \in 0 .. MaxItems
    BY <1>7 DEF Search, Slots
  <2>3. QED
    BY <1>7, <2>1, <2>2 DEF Search
<1>8. ASSUME NEW t \in Threads, WaitReady(t) \/ Miss(t) PROVE TypeOK'
  BY <1>8 DEF WaitReady, Miss
<1>9. ASSUME NEW t \in Threads, Reuse(t) PROVE TypeOK'
  <2>1. scan \in Slots
    BY <1>9 DEF Reuse, ControlInv
  <2>2. QED
    BY <1>9, <2>1 DEF Reuse, NoSlot
<1>10. ASSUME NEW t \in Threads, MarkStale(t) PROVE TypeOK'
  BY <1>10 DEF MarkStale
<1>11. ASSUME NEW t \in Threads, Create(t) PROVE TypeOK'
  <2>1. ask[t] \in [file : Files, attr : Versions]
    BY <1>11 DEF Create, ControlInv, Opening, Locked
  <2>2. QED
    BY <1>11, <2>1 DEF Create, FreeItems, NoSlot
<1>12. ASSUME NEW t \in Threads, CreateFail(t) PROVE TypeOK'
  BY <1>12 DEF CreateFail, NoSlot
<1>13. ASSUME NEW t \in Threads, BuildStep(t) PROVE TypeOK'
  BY <1>13, BuildType
<1>14. ASSUME NEW t \in Threads, ArchiveInit(t) \/ ArclistAdd(t) PROVE TypeOK'
  BY <1>14 DEF ArchiveInit, ArclistAdd
<1>15. ASSUME NEW t \in Threads, ReadLock(t) PROVE TypeOK'
  BY <1>15 DEF ReadLock
<1>16. ASSUME NEW t \in Threads, DropArchive(t) PROVE TypeOK'
  BY <1>16, ReleaseType DEF DropArchive
<1>17. ASSUME NEW t \in Threads, CloseStep(t) PROVE TypeOK'
  BY <1>17, ReleaseType DEF CloseStep, ArclistDel, DeleteArchive
<1>18. CASE Destroy
  <2>1. \A s \in Slots : Cardinality({t \in arclist : ref[t] = s}) \in Nat
    BY FS_Subset, FS_CardinalityType
  <2>2. refcount' \in [Slots -> Nat]
    BY <1>18, <2>1 DEF Destroy
  <2>3. ref' \in [Threads -> Slots \cup {NoSlot}]
    BY <1>18 DEF Destroy
  <2>4. readers' \in [Slots -> SUBSET Threads]
    BY <1>18 DEF Destroy
  <2>5. QED
    BY <1>18, <2>2, <2>3, <2>4 DEF Destroy, FreeSlots
<1>19. CASE UNCHANGED vars
  BY <1>19 DEF vars
<1>20. QED
  BY <1>1, <1>2, <1>3, <1>4, <1>5, <1>6, <1>7, <1>8, <1>9, <1>10, <1>11, <1>12,
     <1>13, <1>14, <1>15, <1>16, <1>17, <1>18, <1>19
  DEF Next, OpenStep, GetCacheStep, Terminated

-----------------------------------------------------------------------------
(* Who owns what.                                                          *)

(* Every step keeps locks, references, requests and archives with the      *)
(* steps that own them.                                                    *)
LEMMA ControlStep ==
  ASSUME TypeOK, ControlInv, [Next]_vars
  PROVE  ControlInv'
<1> USE ThreadsAssumption
    DEF TypeOK, ControlInv, cacheVars, listVars, arcVars, Goto, ListFree, Release,
        Locked, Scanning, Building, Granted, Holding, Opening
<1>1. ASSUME NEW f \in Files, Modify(f) PROVE ControlInv'
  BY <1>1 DEF Modify
<1>2. ASSUME NEW s \in Slots, Age(s) PROVE ControlInv'
  BY <1>2 DEF Age
<1>3. ASSUME NEW t \in Threads, BeginOpen(t) PROVE ControlInv'
  BY <1>3 DEF BeginOpen
<1>4. ASSUME NEW t \in Threads, DeleteZombies(t) PROVE ControlInv'
  BY <1>4 DEF DeleteZombies
<1>5. ASSUME NEW t \in Threads, ArcfileInit(t) PROVE ControlInv'
  BY <1>5, FilesAssumption DEF ArcfileInit, NoRequest
<1>6. ASSUME NEW t \in Threads, GetCacheLock(t) PROVE ControlInv'
  BY <1>6 DEF GetCacheLock
<1>7. ASSUME NEW t \in Threads, Search(t) PROVE ControlInv'
  BY <1>7 DEF Search
<1>8. ASSUME NEW t \in Threads, WaitReady(t) \/ Miss(t) PROVE ControlInv'
  BY <1>8 DEF WaitReady, Miss
<1>9. ASSUME NEW t \in Threads, Reuse(t) PROVE ControlInv'
  BY <1>9 DEF Reuse, NoSlot, Slots
<1>10. ASSUME NEW t \in Threads, MarkStale(t) PROVE ControlInv'
  BY <1>10 DEF MarkStale
<1>11. ASSUME NEW t \in Threads, Create(t) PROVE ControlInv'
  BY <1>11 DEF Create, FreeItems, NoSlot, Slots
<1>12. ASSUME NEW t \in Threads, CreateFail(t) PROVE ControlInv'
  BY <1>12 DEF CreateFail
<1>13. ASSUME NEW t \in Threads, InitBegin(t) \/ InitOpen(t) \/ InitScan(t) PROVE ControlInv'
  BY <1>13 DEF InitBegin, InitOpen, InitScan
<1>14. ASSUME NEW t \in Threads, InitFallback(t) \/ InitReady(t) PROVE ControlInv'
  BY <1>14 DEF InitFallback, InitReady
<1>15. ASSUME NEW t \in Threads, InitUnlock(t) \/ InitFail(t) PROVE ControlInv'
  BY <1>15 DEF InitUnlock, InitFail
<1>16. ASSUME NEW t \in Threads, GetCacheError(t) PROVE ControlInv'
  BY <1>16 DEF GetCacheError
<1>17. ASSUME NEW t \in Threads, ArchiveInit(t) PROVE ControlInv'
  BY <1>17 DEF ArchiveInit
<1>18. ASSUME NEW t \in Threads, ArclistAdd(t) PROVE ControlInv'
  BY <1>18 DEF ArclistAdd
<1>19. ASSUME NEW t \in Threads, ReadLock(t) PROVE ControlInv'
  BY <1>19 DEF ReadLock
<1>20. ASSUME NEW t \in Threads, DropArchive(t) PROVE ControlInv'
  BY <1>20 DEF DropArchive
<1>21. ASSUME NEW t \in Threads, CloseFile(t) PROVE ControlInv'
  BY <1>21 DEF CloseFile
<1>22. ASSUME NEW t \in Threads, ArclistDel(t) PROVE ControlInv'
  BY <1>22 DEF ArclistDel
<1>23. ASSUME NEW t \in Threads, DeleteArchive(t) PROVE ControlInv'
  BY <1>23 DEF DeleteArchive
<1>24. CASE Destroy
  BY <1>24 DEF Destroy
<1>25. CASE UNCHANGED vars
  BY <1>25 DEF vars
<1>26. QED
  BY <1>1, <1>2, <1>3, <1>4, <1>5, <1>6, <1>7, <1>8, <1>9, <1>10, <1>11, <1>12,
     <1>13, <1>14, <1>15, <1>16, <1>17, <1>18, <1>19, <1>20, <1>21, <1>22, <1>23,
     <1>24, <1>25
  DEF Next, HostStep, OpenStep, GetCacheStep, BuildStep, CloseStep, Terminated

-----------------------------------------------------------------------------
(* Reference counts.                                                       *)

(* The holders of a slot can be counted.                                   *)
LEMMA HoldersFinite ==
  \A s : IsFiniteSet(Holders(s)) /\ Cardinality(Holders(s)) \in Nat
  BY ThreadsAssumption, FS_Subset, FS_CardinalityType DEF Holders

(* A slot whose count is zero has no holder, and the converse.             *)
LEMMA ZeroCount ==
  ASSUME RefcountExact, NEW s \in Slots
  PROVE  refcount[s] = 0 <=> Holders(s) = {}
  BY HoldersFinite, FS_EmptySet DEF RefcountExact

(* A thread that takes a reference becomes one more holder.                *)
LEMMA TakeReference ==
  ASSUME TypeOK, NEW t \in Threads, NEW s \in Slots, ref[t] = NoSlot,
         ref' = [ref EXCEPT ![t] = s]
  PROVE  /\ Cardinality(Holders(s)') = Cardinality(Holders(s)) + 1
         /\ \A r \in Slots \ {s} : Holders(r)' = Holders(r)
<1>1. Holders(s)' = Holders(s) \cup {t} /\ t \notin Holders(s)
  BY DEF Holders, TypeOK, NoSlot, Slots
<1>2. \A r \in Slots \ {s} : Holders(r)' = Holders(r)
  BY DEF Holders, TypeOK, NoSlot, Slots
<1>3. QED
  BY <1>1, <1>2, HoldersFinite, FS_AddElement

(* A thread that gives its reference back leaves one holder less.          *)
LEMMA GiveReference ==
  ASSUME TypeOK, NEW t \in Threads, NEW s \in Slots, ref[t] = s,
         ref' = [ref EXCEPT ![t] = NoSlot]
  PROVE  /\ Cardinality(Holders(s)) # 0
         /\ Cardinality(Holders(s)') = Cardinality(Holders(s)) - 1
         /\ \A r \in Slots \ {s} : Holders(r)' = Holders(r)
<1>1. Holders(s)' = Holders(s) \ {t} /\ t \in Holders(s)
  BY DEF Holders, TypeOK, NoSlot, Slots
<1>2. \A r \in Slots \ {s} : Holders(r)' = Holders(r)
  BY DEF Holders, TypeOK, NoSlot, Slots
<1>3. Cardinality(Holders(s) \ {t}) = Cardinality(Holders(s)) - 1
  BY <1>1, HoldersFinite, FS_RemoveElement
<1>4. Cardinality(Holders(s)) # 0
  BY <1>1, HoldersFinite, FS_EmptySet
<1>5. QED
  BY <1>1, <1>2, <1>3, <1>4

(* Release brings the count of the slot and its holders down together.     *)
LEMMA ReleaseCounts ==
  ASSUME TypeOK, RefcountExact, NEW t \in Threads, ref[t] # NoSlot, Release(t)
  PROVE  RefcountExact'
<1> PICK s \in Slots : ref[t] = s
  BY DEF TypeOK
<1>1. /\ Cardinality(Holders(s)) # 0
      /\ Cardinality(Holders(s)') = Cardinality(Holders(s)) - 1
      /\ \A r \in Slots \ {s} : Holders(r)' = Holders(r)
  BY GiveReference DEF Release
<1>2. refcount[s] \in Nat /\ refcount[s] # 0
  BY <1>1 DEF TypeOK, RefcountExact
<1>3. refcount' = [refcount EXCEPT ![s] = refcount[s] - 1]
  <2>1. refcount[s] > 0
    BY <1>2
  <2>2. refcount' = [refcount EXCEPT ![s] = IF @ > 0 THEN @ - 1 ELSE @]
    BY DEF Release
  <2>3. QED
    BY <2>1, <2>2
<1>4. ASSUME NEW r \in Slots PROVE refcount'[r] = Cardinality(Holders(r)')
  <2>1. CASE r = s
    BY <2>1, <1>1, <1>3 DEF RefcountExact, TypeOK
  <2>2. CASE r # s
    BY <2>2, <1>1, <1>3 DEF RefcountExact, TypeOK
  <2>3. QED
    BY <2>1, <2>2
<1>5. QED
  BY <1>4 DEF RefcountExact

(* Every step keeps the counts exact.                                      *)
LEMMA CountStep ==
  ASSUME TypeOK, ControlInv, RefcountExact, [Next]_vars
  PROVE  RefcountExact'
<1>1. CASE UNCHANGED <<refcount, ref>>
  BY <1>1 DEF RefcountExact, Holders
<1>2. ASSUME NEW t \in Threads, Reuse(t) PROVE RefcountExact'
  <2>1. scan \in Slots /\ ref[t] = NoSlot
    BY <1>2 DEF Reuse, ControlInv, Holding, Building, Scanning, Granted
  <2> PICK s \in Slots : s = scan
    BY <2>1
  <2>2. ref' = [ref EXCEPT ![t] = s] /\ refcount' = [refcount EXCEPT ![s] = @ + 1]
    BY <1>2 DEF Reuse
  <2>3. QED
    BY <2>1, <2>2, TakeReference DEF RefcountExact, TypeOK
<1>3. ASSUME NEW t \in Threads, Create(t) PROVE RefcountExact'
  <2>1. ref[t] = NoSlot
    BY <1>3 DEF Create, ControlInv, Holding, Building, Scanning, Granted
  <2>2. PICK s \in FreeItems : /\ ref' = [ref EXCEPT ![t] = s]
                               /\ refcount' = [refcount EXCEPT ![s] = 1]
    BY <1>3 DEF Create
  <2>3. s \in Slots /\ Cardinality(Holders(s)) = 0
    BY <2>2 DEF FreeItems, RefcountExact
  <2>4. /\ Cardinality(Holders(s)') = Cardinality(Holders(s)) + 1
        /\ \A r \in Slots \ {s} : Holders(r)' = Holders(r)
    BY <2>1, <2>2, <2>3, TakeReference
  <2>5. ASSUME NEW r \in Slots PROVE refcount'[r] = Cardinality(Holders(r)')
    BY <2>2, <2>3, <2>4 DEF RefcountExact, TypeOK
  <2>6. QED
    BY <2>5 DEF RefcountExact
<1>4. ASSUME NEW t \in Threads, GetCacheError(t) \/ DropArchive(t) \/ DeleteArchive(t)
      PROVE  RefcountExact'
  <2>1. ref[t] # NoSlot /\ Release(t)
    BY <1>4 DEF GetCacheError, DropArchive, DeleteArchive, ControlInv, Holding, Granted
  <2>2. QED
    BY <2>1, ReleaseCounts
<1>5. CASE Destroy
  <2>1. \A t \in Threads : ref[t] # NoSlot => t \in arclist
    BY <1>5 DEF Destroy, ControlInv, Holding, Building, Scanning, Granted
  <2>2. \A t \in Threads : ref'[t] = NoSlot
    BY <1>5, <2>1 DEF Destroy
  <2>3. \A s \in Slots : Holders(s)' = {}
    BY <2>2 DEF Holders, NoSlot, Slots
  <2>4. \A s \in Slots : {t \in arclist : ref[t] = s} = Holders(s)
    BY <2>1 DEF Holders, NoSlot, Slots, TypeOK
  <2>5. ASSUME NEW s \in Slots PROVE refcount'[s] = 0
    <3>1. refcount[s] = Cardinality({t \in arclist : ref[t] = s}) /\ refcount[s] \in Nat
      BY <2>4 DEF RefcountExact, TypeOK
    <3>2. QED
      BY <1>5, <3>1 DEF Destroy
  <2>6. QED
    BY <2>3, <2>5, FS_EmptySet DEF RefcountExact
<1>6. QED
  BY <1>1, <1>2, <1>3, <1>4, <1>5
  DEF Next, HostStep, OpenStep, GetCacheStep, BuildStep, CloseStep, Terminated,
      Modify, Age, BeginOpen, DeleteZombies, ArcfileInit, GetCacheLock, Search,
      WaitReady, MarkStale, Miss, CreateFail, InitBegin, InitOpen, InitScan,
      InitFallback, InitReady, InitUnlock, InitFail, ArchiveInit, ArclistAdd,
      ReadLock, CloseFile, ArclistDel, cacheVars, vars

-----------------------------------------------------------------------------
(* Caches in use are live.                                                 *)

(* Every step keeps the caches in use live: what delete_zombies and the    *)
(* unloading may delete has no holder.                                     *)
LEMMA LiveStep ==
  ASSUME TypeOK, ControlInv, RefcountExact, LiveInv, [Next]_vars
  PROVE  LiveInv'
<1> USE DEF TypeOK, cacheVars, listVars, arcVars, Goto, ListFree, Release,
           SetStatus, Clear, FreeSlots, NoSlot, Slots, LiveInv, Locked
<1>1. ASSUME NEW f \in Files, Modify(f) PROVE LiveInv'
  BY <1>1 DEF Modify
<1>2. ASSUME NEW s \in Slots, Age(s) PROVE LiveInv'
  BY <1>2 DEF Age
<1>3. ASSUME NEW t \in Threads, BeginOpen(t) PROVE LiveInv'
  BY <1>3 DEF BeginOpen
<1>4. ASSUME NEW t \in Threads, DeleteZombies(t) PROVE LiveInv'
  <2>1. \A t1 \in Threads : ref[t1] # NoSlot => ~Reclaimable(ref[t1])
    BY ZeroCount DEF Reclaimable, Holders
  <2>2. \A t1 \in Threads : pc[t1] \notin {"wait", "check"}
    BY <1>4, ThreadsAssumption DEF DeleteZombies, ControlInv
  <2>3. QED
    BY <1>4, <2>1, <2>2 DEF DeleteZombies
<1>5. ASSUME NEW t \in Threads, ArcfileInit(t) PROVE LiveInv'
  BY <1>5 DEF ArcfileInit
<1>6. ASSUME NEW t \in Threads, GetCacheLock(t) PROVE LiveInv'
  BY <1>6, ThreadsAssumption DEF GetCacheLock, ControlInv
<1>7. ASSUME NEW t \in Threads, Search(t) PROVE LiveInv'
  BY <1>7 DEF Search, IsSameFile, ControlInv
<1>8. ASSUME NEW t \in Threads, WaitReady(t) PROVE LiveInv'
  BY <1>8 DEF WaitReady
<1>9. ASSUME NEW t \in Threads, Reuse(t) PROVE LiveInv'
  BY <1>9 DEF Reuse, ControlInv
<1>10. ASSUME NEW t \in Threads, MarkStale(t) PROVE LiveInv'
  BY <1>10 DEF MarkStale, ControlInv
<1>11. ASSUME NEW t \in Threads, Miss(t) PROVE LiveInv'
  BY <1>11 DEF Miss
<1>12. ASSUME NEW t \in Threads, Create(t) PROVE LiveInv'
  BY <1>12 DEF Create, FreeItems, ControlInv
<1>13. ASSUME NEW t \in Threads, CreateFail(t) PROVE LiveInv'
  BY <1>13 DEF CreateFail, ControlInv
<1>14. ASSUME NEW t \in Threads, InitBegin(t) PROVE LiveInv'
  BY <1>14 DEF InitBegin, ControlInv
<1>15. ASSUME NEW t \in Threads, InitOpen(t) PROVE LiveInv'
  BY <1>15 DEF InitOpen, ControlInv
<1>16. ASSUME NEW t \in Threads, InitScan(t) PROVE LiveInv'
  BY <1>16 DEF InitScan
<1>17. ASSUME NEW t \in Threads, InitFallback(t) PROVE LiveInv'
  BY <1>17 DEF InitFallback
<1>18. ASSUME NEW t \in Threads, InitReady(t) PROVE LiveInv'
  BY <1>18 DEF InitReady
<1>19. ASSUME NEW t \in Threads, InitUnlock(t) PROVE LiveInv'
  BY <1>19 DEF InitUnlock
<1>20. ASSUME NEW t \in Threads, InitFail(t) PROVE LiveInv'
  BY <1>20 DEF InitFail
<1>21. ASSUME NEW t \in Threads, GetCacheError(t) PROVE LiveInv'
  BY <1>21 DEF GetCacheError
<1>22. ASSUME NEW t \in Threads, ArchiveInit(t) PROVE LiveInv'
  BY <1>22 DEF ArchiveInit
<1>23. ASSUME NEW t \in Threads, ArclistAdd(t) PROVE LiveInv'
  BY <1>23 DEF ArclistAdd
<1>24. ASSUME NEW t \in Threads, ReadLock(t) PROVE LiveInv'
  BY <1>24 DEF ReadLock
<1>25. ASSUME NEW t \in Threads, DropArchive(t) PROVE LiveInv'
  BY <1>25 DEF DropArchive
<1>26. ASSUME NEW t \in Threads, CloseFile(t) PROVE LiveInv'
  BY <1>26 DEF CloseFile
<1>27. ASSUME NEW t \in Threads, ArclistDel(t) PROVE LiveInv'
  BY <1>27 DEF ArclistDel
<1>28. ASSUME NEW t \in Threads, DeleteArchive(t) PROVE LiveInv'
  BY <1>28 DEF DeleteArchive
<1>29. CASE Destroy
  BY <1>29 DEF Destroy, ControlInv, Holding, Building, Scanning, Granted
<1>30. CASE UNCHANGED vars
  BY <1>30 DEF vars
<1>31. QED
  BY <1>1, <1>2, <1>3, <1>4, <1>5, <1>6, <1>7, <1>8, <1>9, <1>10, <1>11, <1>12,
     <1>13, <1>14, <1>15, <1>16, <1>17, <1>18, <1>19, <1>20, <1>21, <1>22, <1>23,
     <1>24, <1>25, <1>26, <1>27, <1>28, <1>29, <1>30
  DEF Next, HostStep, OpenStep, GetCacheStep, BuildStep, CloseStep, Terminated

-----------------------------------------------------------------------------
(* The locks of the caches.                                                *)

(* A free slot has no holder.                                              *)
LEMMA FreeUnheld ==
  ASSUME TypeOK, LiveInv, NEW s \in Slots, status[s] = "Free"
  PROVE  \A t \in Threads : ref[t] # s
  BY DEF LiveInv, NoSlot, Slots

(* Every step keeps the locks of the caches with their builders and        *)
(* readers.                                                                *)
LEMMA LockStep ==
  ASSUME TypeOK, ControlInv, RefcountExact, LiveInv, LockInv, [Next]_vars
  PROVE  LockInv'
<1> USE DEF TypeOK, cacheVars, listVars, arcVars, Goto, ListFree, Release,
           SetStatus, Clear, FreeSlots, NoSlot, Slots, LockInv, Building, Scanning
<1>1. ASSUME NEW f \in Files, Modify(f) PROVE LockInv'
  BY <1>1 DEF Modify
<1>2. ASSUME NEW s \in Slots, Age(s) PROVE LockInv'
  BY <1>2 DEF Age
<1>3. ASSUME NEW t \in Threads, BeginOpen(t) PROVE LockInv'
  BY <1>3 DEF BeginOpen
<1>4. ASSUME NEW t \in Threads, DeleteZombies(t) PROVE LockInv'
  BY <1>4 DEF DeleteZombies
<1>5. ASSUME NEW t \in Threads, ArcfileInit(t) PROVE LockInv'
  BY <1>5 DEF ArcfileInit
<1>6. ASSUME NEW t \in Threads, GetCacheLock(t) PROVE LockInv'
  BY <1>6 DEF GetCacheLock
<1>7. ASSUME NEW t \in Threads, Search(t) PROVE LockInv'
  BY <1>7 DEF Search
<1>8. ASSUME NEW t \in Threads, WaitReady(t) PROVE LockInv'
  BY <1>8 DEF WaitReady
<1>9. ASSUME NEW t \in Threads, Reuse(t) PROVE LockInv'
  BY <1>9 DEF Reuse, ControlInv, Holding, Granted
<1>10. ASSUME NEW t \in Threads, MarkStale(t) PROVE LockInv'
  BY <1>10 DEF MarkStale
<1>11. ASSUME NEW t \in Threads, Miss(t) PROVE LockInv'
  BY <1>11 DEF Miss
<1>12. ASSUME NEW t \in Threads, Create(t) PROVE LockInv'
  BY <1>12, FreeUnheld DEF Create, FreeItems, ControlInv, Holding, Granted
<1>13. ASSUME NEW t \in Threads, CreateFail(t) PROVE LockInv'
  BY <1>13 DEF CreateFail
<1>14. ASSUME NEW t \in Threads, InitBegin(t) PROVE LockInv'
  BY <1>14, ThreadsAssumption DEF InitBegin, ControlInv, Holding
<1>15. ASSUME NEW t \in Threads, InitOpen(t) PROVE LockInv'
  BY <1>15 DEF InitOpen
<1>16. ASSUME NEW t \in Threads, InitScan(t) PROVE LockInv'
  BY <1>16 DEF InitScan
<1>17. ASSUME NEW t \in Threads, InitFallback(t) PROVE LockInv'
  BY <1>17 DEF InitFallback
<1>18. ASSUME NEW t \in Threads, InitReady(t) PROVE LockInv'
  BY <1>18 DEF InitReady
<1>19. ASSUME NEW t \in Threads, InitUnlock(t) PROVE LockInv'
  BY <1>19, ThreadsAssumption DEF InitUnlock, ControlInv, Holding
<1>20. ASSUME NEW t \in Threads, InitFail(t) PROVE LockInv'
  BY <1>20, ThreadsAssumption DEF InitFail, ControlInv, Holding
<1>21. ASSUME NEW t \in Threads, GetCacheError(t) PROVE LockInv'
  BY <1>21 DEF GetCacheError, ControlInv
<1>22. ASSUME NEW t \in Threads, ArchiveInit(t) PROVE LockInv'
  BY <1>22 DEF ArchiveInit
<1>23. ASSUME NEW t \in Threads, ArclistAdd(t) PROVE LockInv'
  BY <1>23 DEF ArclistAdd
<1>24. ASSUME NEW t \in Threads, ReadLock(t) PROVE LockInv'
  BY <1>24 DEF ReadLock, ControlInv, Holding, Granted
<1>25. ASSUME NEW t \in Threads, DropArchive(t) PROVE LockInv'
  BY <1>25 DEF DropArchive, ControlInv
<1>26. ASSUME NEW t \in Threads, CloseFile(t) PROVE LockInv'
  BY <1>26 DEF CloseFile, ControlInv, Holding, Granted
<1>27. ASSUME NEW t \in Threads, ArclistDel(t) PROVE LockInv'
  BY <1>27 DEF ArclistDel
<1>28. ASSUME NEW t \in Threads, DeleteArchive(t) PROVE LockInv'
  BY <1>28 DEF DeleteArchive, ControlInv
<1>29. CASE Destroy
  <2>1. \A t \in Threads : ref[t] # NoSlot => t \in arclist
    BY <1>29 DEF Destroy, ControlInv, Holding, Granted
  <2>2. \A s \in Slots : Cardinality({t \in arclist : ref[t] = s}) = refcount[s]
    <3>1. \A s \in Slots : {t \in arclist : ref[t] = s} = Holders(s)
      BY <2>1 DEF Holders
    <3>2. ASSUME NEW s \in Slots
          PROVE  Cardinality({t \in arclist : ref[t] = s}) = refcount[s]
      <4>1. {t \in arclist : ref[t] = s} = Holders(s)
        BY <3>1
      <4>2. QED
        BY <4>1 DEF RefcountExact
    <3>3. QED
      BY <3>2
  <2>3. \A s \in Slots : readers'[s] = {}
    <3>1. ASSUME NEW s \in Slots PROVE readers'[s] = {}
      <4>1. CASE status[s] = "Free"
        BY <1>29, <4>1, FreeUnheld DEF Destroy
      <4>2. CASE status[s] # "Free"
        BY <1>29, <4>2, <2>2 DEF Destroy
      <4>3. QED
        BY <4>1, <4>2
    <3>2. QED
      BY <3>1
  <2>4. \A t \in Threads : pc[t] \notin Building /\ pc'[t] = "gone"
    BY <1>29 DEF Destroy
  <2>5. \A s \in Slots : \A t \in Threads : writer'[s] # t
    BY <1>29, <2>4 DEF Destroy
  <2>6. QED
    BY <2>3, <2>4, <2>5
<1>30. CASE UNCHANGED vars
  BY <1>30 DEF vars
<1>31. QED
  BY <1>1, <1>2, <1>3, <1>4, <1>5, <1>6, <1>7, <1>8, <1>9, <1>10, <1>11, <1>12,
     <1>13, <1>14, <1>15, <1>16, <1>17, <1>18, <1>19, <1>20, <1>21, <1>22, <1>23,
     <1>24, <1>25, <1>26, <1>27, <1>28, <1>29, <1>30
  DEF Next, HostStep, OpenStep, GetCacheStep, BuildStep, CloseStep, Terminated

-----------------------------------------------------------------------------
(* Builders.                                                               *)

(* Every step keeps what the builders have established; another thread's   *)
(* steps cannot touch a cache that is being built.                         *)
LEMMA BuildInvStep ==
  ASSUME TypeOK, ControlInv, LiveInv, RefcountExact, BuildInv, [Next]_vars
  PROVE  BuildInv'
<1> USE DEF TypeOK, cacheVars, listVars, arcVars, Goto, ListFree, Release,
           SetStatus, Clear, FreeSlots, NoSlot, Slots, BuildInv, Building, Scanning,
           Granted, Opening, Locked, Holding, Builder
<1>1. ASSUME NEW f \in Files, Modify(f) PROVE BuildInv'
  BY <1>1 DEF Modify
<1>2. ASSUME NEW s \in Slots, Age(s) PROVE BuildInv'
  BY <1>2 DEF Age
<1>3. ASSUME NEW t \in Threads, BeginOpen(t) PROVE BuildInv'
  BY <1>3 DEF BeginOpen
<1>4. ASSUME NEW t \in Threads, DeleteZombies(t) PROVE BuildInv'
  <2>1. \A t1 \in Threads : ref[t1] # NoSlot => ~Reclaimable(ref[t1])
    BY ZeroCount DEF Reclaimable, Holders
  <2>2. QED
    BY <1>4, <2>1 DEF DeleteZombies, ControlInv
<1>5. ASSUME NEW t \in Threads, ArcfileInit(t) PROVE BuildInv'
  BY <1>5 DEF ArcfileInit, ControlInv
<1>6. ASSUME NEW t \in Threads, GetCacheLock(t) PROVE BuildInv'
  BY <1>6 DEF GetCacheLock
<1>7. ASSUME NEW t \in Threads, Search(t) PROVE BuildInv'
  BY <1>7 DEF Search
<1>8. ASSUME NEW t \in Threads, WaitReady(t) PROVE BuildInv'
  BY <1>8 DEF WaitReady
<1>9. ASSUME NEW t \in Threads, Reuse(t) PROVE BuildInv'
  BY <1>9 DEF Reuse, ControlInv, LiveInv
<1>10. ASSUME NEW t \in Threads, MarkStale(t) PROVE BuildInv'
  BY <1>10 DEF MarkStale, ControlInv
<1>11. ASSUME NEW t \in Threads, Miss(t) PROVE BuildInv'
  BY <1>11 DEF Miss
<1>12. ASSUME NEW t \in Threads, Create(t) PROVE BuildInv'
  BY <1>12, FreeUnheld DEF Create, FreeItems, ControlInv
<1>13. ASSUME NEW t \in Threads, CreateFail(t) PROVE BuildInv'
  BY <1>13 DEF CreateFail
<1>14. ASSUME NEW t \in Threads, InitBegin(t) PROVE BuildInv'
  BY <1>14 DEF InitBegin, ControlInv
<1>15. ASSUME NEW t \in Threads, InitOpen(t) PROVE BuildInv'
  BY <1>15 DEF InitOpen, ControlInv
<1>16. ASSUME NEW t \in Threads, InitScan(t) PROVE BuildInv'
  BY <1>16 DEF InitScan, ControlInv
<1>17. ASSUME NEW t \in Threads, InitFallback(t) PROVE BuildInv'
  BY <1>17 DEF InitFallback, ControlInv
<1>18. ASSUME NEW t \in Threads, InitReady(t) PROVE BuildInv'
  BY <1>18 DEF InitReady, ControlInv
<1>19. ASSUME NEW t \in Threads, InitUnlock(t) PROVE BuildInv'
  BY <1>19 DEF InitUnlock, ControlInv
<1>20. ASSUME NEW t \in Threads, InitFail(t) PROVE BuildInv'
  BY <1>20 DEF InitFail, ControlInv
<1>21. ASSUME NEW t \in Threads, GetCacheError(t) PROVE BuildInv'
  BY <1>21 DEF GetCacheError, ControlInv
<1>22. ASSUME NEW t \in Threads, ArchiveInit(t) PROVE BuildInv'
  BY <1>22 DEF ArchiveInit
<1>23. ASSUME NEW t \in Threads, ArclistAdd(t) PROVE BuildInv'
  BY <1>23 DEF ArclistAdd
<1>24. ASSUME NEW t \in Threads, ReadLock(t) PROVE BuildInv'
  BY <1>24 DEF ReadLock
<1>25. ASSUME NEW t \in Threads, DropArchive(t) PROVE BuildInv'
  BY <1>25 DEF DropArchive, ControlInv
<1>26. ASSUME NEW t \in Threads, CloseFile(t) PROVE BuildInv'
  BY <1>26 DEF CloseFile
<1>27. ASSUME NEW t \in Threads, ArclistDel(t) PROVE BuildInv'
  BY <1>27 DEF ArclistDel
<1>28. ASSUME NEW t \in Threads, DeleteArchive(t) PROVE BuildInv'
  BY <1>28 DEF DeleteArchive, ControlInv
<1>29. CASE Destroy
  BY <1>29 DEF Destroy, ControlInv
<1>30. CASE UNCHANGED vars
  BY <1>30 DEF vars
<1>31. QED
  BY <1>1, <1>2, <1>3, <1>4, <1>5, <1>6, <1>7, <1>8, <1>9, <1>10, <1>11, <1>12,
     <1>13, <1>14, <1>15, <1>16, <1>17, <1>18, <1>19, <1>20, <1>21, <1>22, <1>23,
     <1>24, <1>25, <1>26, <1>27, <1>28, <1>29, <1>30
  DEF Next, HostStep, OpenStep, GetCacheStep, BuildStep, CloseStep, Terminated

(* Every step leaves an unready cache with a builder.                      *)
LEMMA UnreadyStep ==
  ASSUME TypeOK, ControlInv, LiveInv, RefcountExact, BuildInv, UnreadyInv,
         [Next]_vars
  PROVE  UnreadyInv'
<1> USE DEF TypeOK, cacheVars, listVars, arcVars, Goto, ListFree, Release,
           SetStatus, Clear, FreeSlots, NoSlot, Slots, UnreadyInv, Builder, Scanning
<1>1. ASSUME NEW f \in Files, Modify(f) PROVE UnreadyInv'
  BY <1>1 DEF Modify
<1>2. ASSUME NEW s \in Slots, Age(s) PROVE UnreadyInv'
  BY <1>2 DEF Age
<1>3. ASSUME NEW t \in Threads, BeginOpen(t) PROVE UnreadyInv'
  BY <1>3 DEF BeginOpen
<1>4. ASSUME NEW t \in Threads, DeleteZombies(t) PROVE UnreadyInv'
  <2>1. \A t1 \in Threads : ref[t1] # NoSlot => ~Reclaimable(ref[t1])
    BY ZeroCount DEF Reclaimable, Holders
  <2>2. QED
    BY <1>4, <2>1 DEF DeleteZombies, ControlInv
<1>5. ASSUME NEW t \in Threads, ArcfileInit(t) PROVE UnreadyInv'
  BY <1>5 DEF ArcfileInit
<1>6. ASSUME NEW t \in Threads, GetCacheLock(t) PROVE UnreadyInv'
  BY <1>6 DEF GetCacheLock
<1>7. ASSUME NEW t \in Threads, Search(t) PROVE UnreadyInv'
  BY <1>7 DEF Search
<1>8. ASSUME NEW t \in Threads, WaitReady(t) PROVE UnreadyInv'
  BY <1>8 DEF WaitReady
<1>9. ASSUME NEW t \in Threads, Reuse(t) PROVE UnreadyInv'
  BY <1>9 DEF Reuse, ControlInv, Holding, Building, Granted
<1>10. ASSUME NEW t \in Threads, MarkStale(t) PROVE UnreadyInv'
  BY <1>10 DEF MarkStale
<1>11. ASSUME NEW t \in Threads, Miss(t) PROVE UnreadyInv'
  BY <1>11 DEF Miss
<1>12. ASSUME NEW t \in Threads, Create(t) PROVE UnreadyInv'
  BY <1>12, FreeUnheld DEF Create, FreeItems, ControlInv
<1>13. ASSUME NEW t \in Threads, CreateFail(t) PROVE UnreadyInv'
  BY <1>13 DEF CreateFail
<1>14. ASSUME NEW t \in Threads, InitBegin(t) PROVE UnreadyInv'
  BY <1>14 DEF InitBegin
<1>15. ASSUME NEW t \in Threads, InitOpen(t) PROVE UnreadyInv'
  BY <1>15 DEF InitOpen
<1>16. ASSUME NEW t \in Threads, InitScan(t) PROVE UnreadyInv'
  BY <1>16 DEF InitScan
<1>17. ASSUME NEW t \in Threads, InitFallback(t) PROVE UnreadyInv'
  BY <1>17 DEF InitFallback
<1>18. ASSUME NEW t \in Threads, InitReady(t) PROVE UnreadyInv'
  BY <1>18 DEF InitReady, BuildInv
<1>19. ASSUME NEW t \in Threads, InitUnlock(t) PROVE UnreadyInv'
  BY <1>19 DEF InitUnlock
<1>20. ASSUME NEW t \in Threads, InitFail(t) PROVE UnreadyInv'
  BY <1>20 DEF InitFail, BuildInv
<1>21. ASSUME NEW t \in Threads, GetCacheError(t) PROVE UnreadyInv'
  BY <1>21 DEF GetCacheError, ControlInv
<1>22. ASSUME NEW t \in Threads, ArchiveInit(t) PROVE UnreadyInv'
  BY <1>22 DEF ArchiveInit
<1>23. ASSUME NEW t \in Threads, ArclistAdd(t) PROVE UnreadyInv'
  BY <1>23 DEF ArclistAdd
<1>24. ASSUME NEW t \in Threads, ReadLock(t) PROVE UnreadyInv'
  BY <1>24 DEF ReadLock
<1>25. ASSUME NEW t \in Threads, DropArchive(t) PROVE UnreadyInv'
  BY <1>25 DEF DropArchive, ControlInv
<1>26. ASSUME NEW t \in Threads, CloseFile(t) PROVE UnreadyInv'
  BY <1>26 DEF CloseFile
<1>27. ASSUME NEW t \in Threads, ArclistDel(t) PROVE UnreadyInv'
  BY <1>27 DEF ArclistDel
<1>28. ASSUME NEW t \in Threads, DeleteArchive(t) PROVE UnreadyInv'
  BY <1>28 DEF DeleteArchive, ControlInv
<1>29. CASE Destroy
  BY <1>29 DEF Destroy, ControlInv, Holding, Building, Granted
<1>30. CASE UNCHANGED vars
  BY <1>30 DEF vars
<1>31. QED
  BY <1>1, <1>2, <1>3, <1>4, <1>5, <1>6, <1>7, <1>8, <1>9, <1>10, <1>11, <1>12,
     <1>13, <1>14, <1>15, <1>16, <1>17, <1>18, <1>19, <1>20, <1>21, <1>22, <1>23,
     <1>24, <1>25, <1>26, <1>27, <1>28, <1>29, <1>30
  DEF Next, HostStep, OpenStep, GetCacheStep, BuildStep, CloseStep, Terminated

(* The file a request names can only have moved on since.                  *)
LEMMA AskStep ==
  ASSUME TypeOK, ControlInv, AskInv, [Next]_vars
  PROVE  AskInv'
<1> USE DEF TypeOK, cacheVars, listVars, arcVars, Goto, ListFree, Release,
           SetStatus, Clear, FreeSlots, NoSlot, Slots, AskInv, Opening, Locked, Building,
           Scanning, Versions
<1>1. ASSUME NEW f \in Files, Modify(f) PROVE AskInv'
  BY <1>1 DEF Modify, ControlInv
<1>2. ASSUME NEW s \in Slots, Age(s) PROVE AskInv'
  BY <1>2 DEF Age
<1>3. ASSUME NEW t \in Threads, BeginOpen(t) PROVE AskInv'
  BY <1>3 DEF BeginOpen
<1>4. ASSUME NEW t \in Threads, DeleteZombies(t) PROVE AskInv'
  BY <1>4 DEF DeleteZombies
<1>5. ASSUME NEW t \in Threads, ArcfileInit(t) PROVE AskInv'
  BY <1>5 DEF ArcfileInit, ControlInv
<1>6. ASSUME NEW t \in Threads, GetCacheLock(t) PROVE AskInv'
  BY <1>6 DEF GetCacheLock
<1>7. ASSUME NEW t \in Threads, Search(t) PROVE AskInv'
  BY <1>7 DEF Search
<1>8. ASSUME NEW t \in Threads, WaitReady(t) PROVE AskInv'
  BY <1>8 DEF WaitReady
<1>9. ASSUME NEW t \in Threads, Reuse(t) PROVE AskInv'
  BY <1>9 DEF Reuse
<1>10. ASSUME NEW t \in Threads, MarkStale(t) PROVE AskInv'
  BY <1>10 DEF MarkStale
<1>11. ASSUME NEW t \in Threads, Miss(t) PROVE AskInv'
  BY <1>11 DEF Miss
<1>12. ASSUME NEW t \in Threads, Create(t) PROVE AskInv'
  BY <1>12 DEF Create
<1>13. ASSUME NEW t \in Threads, CreateFail(t) PROVE AskInv'
  BY <1>13 DEF CreateFail
<1>14. ASSUME NEW t \in Threads, InitBegin(t) PROVE AskInv'
  BY <1>14 DEF InitBegin
<1>15. ASSUME NEW t \in Threads, InitOpen(t) PROVE AskInv'
  BY <1>15 DEF InitOpen
<1>16. ASSUME NEW t \in Threads, InitScan(t) PROVE AskInv'
  BY <1>16 DEF InitScan
<1>17. ASSUME NEW t \in Threads, InitFallback(t) PROVE AskInv'
  BY <1>17 DEF InitFallback
<1>18. ASSUME NEW t \in Threads, InitReady(t) PROVE AskInv'
  BY <1>18 DEF InitReady
<1>19. ASSUME NEW t \in Threads, InitUnlock(t) PROVE AskInv'
  BY <1>19 DEF InitUnlock
<1>20. ASSUME NEW t \in Threads, InitFail(t) PROVE AskInv'
  BY <1>20 DEF InitFail
<1>21. ASSUME NEW t \in Threads, GetCacheError(t) PROVE AskInv'
  BY <1>21 DEF GetCacheError
<1>22. ASSUME NEW t \in Threads, ArchiveInit(t) PROVE AskInv'
  BY <1>22 DEF ArchiveInit
<1>23. ASSUME NEW t \in Threads, ArclistAdd(t) PROVE AskInv'
  BY <1>23 DEF ArclistAdd
<1>24. ASSUME NEW t \in Threads, ReadLock(t) PROVE AskInv'
  BY <1>24 DEF ReadLock
<1>25. ASSUME NEW t \in Threads, DropArchive(t) PROVE AskInv'
  BY <1>25 DEF DropArchive
<1>26. ASSUME NEW t \in Threads, CloseFile(t) PROVE AskInv'
  BY <1>26 DEF CloseFile
<1>27. ASSUME NEW t \in Threads, ArclistDel(t) PROVE AskInv'
  BY <1>27 DEF ArclistDel
<1>28. ASSUME NEW t \in Threads, DeleteArchive(t) PROVE AskInv'
  BY <1>28 DEF DeleteArchive
<1>29. CASE Destroy
  BY <1>29 DEF Destroy
<1>30. CASE UNCHANGED vars
  BY <1>30 DEF vars
<1>31. QED
  BY <1>1, <1>2, <1>3, <1>4, <1>5, <1>6, <1>7, <1>8, <1>9, <1>10, <1>11, <1>12,
     <1>13, <1>14, <1>15, <1>16, <1>17, <1>18, <1>19, <1>20, <1>21, <1>22, <1>23,
     <1>24, <1>25, <1>26, <1>27, <1>28, <1>29, <1>30
  DEF Next, HostStep, OpenStep, GetCacheStep, BuildStep, CloseStep, Terminated

-----------------------------------------------------------------------------
(* Indexes.                                                                *)

(* Every step keeps published indexes complete and in their interval.      *)
LEMMA GrantStep ==
  ASSUME TypeOK, ControlInv, LiveInv, RefcountExact, BuildInv, AskInv, LockInv,
         GrantInv, [Next]_vars
  PROVE  GrantInv'
<1> USE DEF TypeOK, cacheVars, listVars, arcVars, Goto, ListFree, Release,
           SetStatus, Clear, FreeSlots, NoSlot, Slots, GrantInv, Indexed, Building,
           Scanning, Granted, Versions
<1>1. ASSUME NEW f \in Files, Modify(f) PROVE GrantInv'
  <2>1. \A g \in Files : /\ version[g] \in Nat /\ version'[g] \in Nat
                         /\ version[g] <= version'[g]
    BY <1>1, BoundsAssumption DEF Modify
  <2>2. \A s \in Slots : content[s] \in Nat
    BY BoundsAssumption
  <2>3. \A s \in Slots : Indexed(s) => Indexed(s)'
    BY <1>1, <2>1, <2>2 DEF Modify
  <2>4. \A t \in Threads :
          pc[t] \in Granted \cup {"unlock", "fin"} => ref[t] \in Slots
    BY DEF ControlInv, Holding
  <2>5. UNCHANGED <<status, pc, ref, writer>>
    BY <1>1 DEF Modify
  <2>6. QED
    BY <2>3, <2>4, <2>5
<1>2. ASSUME NEW s \in Slots, Age(s) PROVE GrantInv'
  BY <1>2 DEF Age
<1>3. ASSUME NEW t \in Threads, BeginOpen(t) PROVE GrantInv'
  BY <1>3 DEF BeginOpen
<1>4. ASSUME NEW t \in Threads, DeleteZombies(t) PROVE GrantInv'
  <2>1. \A t1 \in Threads : ref[t1] # NoSlot => ~Reclaimable(ref[t1])
    BY ZeroCount DEF Reclaimable, Holders
  <2>2. \A s \in Slots :
          ~Reclaimable(s) => Indexed(s) = Indexed(s)' /\ status'[s] = status[s]
    BY <1>4 DEF DeleteZombies
  <2>3. \A s \in Slots : Reclaimable(s) => status'[s] = "Free"
    BY <1>4 DEF DeleteZombies
  <2>4. QED
    BY <1>4, <2>1, <2>2, <2>3 DEF DeleteZombies, ControlInv, Holding
<1>5. ASSUME NEW t \in Threads, ArcfileInit(t) PROVE GrantInv'
  BY <1>5 DEF ArcfileInit
<1>6. ASSUME NEW t \in Threads, GetCacheLock(t) PROVE GrantInv'
  BY <1>6 DEF GetCacheLock
<1>7. ASSUME NEW t \in Threads, Search(t) PROVE GrantInv'
  BY <1>7 DEF Search
<1>8. ASSUME NEW t \in Threads, WaitReady(t) PROVE GrantInv'
  BY <1>8 DEF WaitReady
<1>9. ASSUME NEW t \in Threads, Reuse(t) PROVE GrantInv'
  BY <1>9 DEF Reuse, ControlInv, Holding
<1>10. ASSUME NEW t \in Threads, MarkStale(t) PROVE GrantInv'
  BY <1>10 DEF MarkStale
<1>11. ASSUME NEW t \in Threads, Miss(t) PROVE GrantInv'
  BY <1>11 DEF Miss
<1>12. ASSUME NEW t \in Threads, Create(t) PROVE GrantInv'
  BY <1>12, FreeUnheld DEF Create, FreeItems, ControlInv, Holding
<1>13. ASSUME NEW t \in Threads, CreateFail(t) PROVE GrantInv'
  BY <1>13 DEF CreateFail
<1>14. ASSUME NEW t \in Threads, InitBegin(t) PROVE GrantInv'
  BY <1>14 DEF InitBegin, ControlInv, Holding, BuildInv, Builder
<1>15. ASSUME NEW t \in Threads, InitOpen(t) PROVE GrantInv'
  BY <1>15 DEF InitOpen, ControlInv, Holding, BuildInv, Builder
<1>16. ASSUME NEW t \in Threads, InitScan(t) PROVE GrantInv'
  <2>1. ref[t] \in Slots /\ pc[t] \in Builder \cup {"builderr"}
    BY <1>16 DEF InitScan, ControlInv, Holding, Builder
  <2>2. Indexed(ref[t])'
    <3>1. attr[ref[t]] = ask[t].attr /\ file[ref[t]] = ask[t].file
      BY <1>16 DEF InitScan, BuildInv
    <3>2. ask[t] \in [file : Files, attr : Versions]
      BY <1>16 DEF InitScan, ControlInv, Opening
    <3>3. ask[t].attr <= version[ask[t].file]
      BY <1>16 DEF InitScan, AskInv, Opening
    <3>4. content'[ref[t]] = version[file[ref[t]]]
      BY <1>16, <2>1 DEF InitScan
    <3>5. QED
      BY <1>16, <3>1, <3>2, <3>3, <3>4, BoundsAssumption DEF InitScan
  <2>3. \A u \in Threads \ {t} : ref[u] # ref[t]
    BY <2>1 DEF BuildInv
  <2>4. status[ref[t]] # "Ready"
    BY <1>16 DEF InitScan, BuildInv
  <2>5. \A s \in Slots \ {ref[t]} : Indexed(s)' = Indexed(s)
    BY <1>16 DEF InitScan
  <2>6. QED
    BY <1>16, <2>1, <2>2, <2>3, <2>4, <2>5 DEF InitScan, ControlInv, Holding
<1>17. ASSUME NEW t \in Threads, InitFallback(t) PROVE GrantInv'
  BY <1>17 DEF InitFallback, ControlInv, Holding, BuildInv, Builder
<1>18. ASSUME NEW t \in Threads, InitReady(t) PROVE GrantInv'
  BY <1>18 DEF InitReady, ControlInv, Holding, BuildInv, Builder
<1>19. ASSUME NEW t \in Threads, InitUnlock(t) PROVE GrantInv'
  BY <1>19 DEF InitUnlock
<1>20. ASSUME NEW t \in Threads, InitFail(t) PROVE GrantInv'
  BY <1>20 DEF InitFail, ControlInv, Holding, BuildInv, Builder
<1>21. ASSUME NEW t \in Threads, GetCacheError(t) PROVE GrantInv'
  BY <1>21 DEF GetCacheError, ControlInv, Holding
<1>22. ASSUME NEW t \in Threads, ArchiveInit(t) PROVE GrantInv'
  BY <1>22 DEF ArchiveInit
<1>23. ASSUME NEW t \in Threads, ArclistAdd(t) PROVE GrantInv'
  BY <1>23 DEF ArclistAdd
<1>24. ASSUME NEW t \in Threads, ReadLock(t) PROVE GrantInv'
  BY <1>24 DEF ReadLock
<1>25. ASSUME NEW t \in Threads, DropArchive(t) PROVE GrantInv'
  BY <1>25 DEF DropArchive, ControlInv, Holding
<1>26. ASSUME NEW t \in Threads, CloseFile(t) PROVE GrantInv'
  BY <1>26 DEF CloseFile
<1>27. ASSUME NEW t \in Threads, ArclistDel(t) PROVE GrantInv'
  BY <1>27 DEF ArclistDel
<1>28. ASSUME NEW t \in Threads, DeleteArchive(t) PROVE GrantInv'
  BY <1>28 DEF DeleteArchive, ControlInv, Holding
<1>29. CASE Destroy
  BY <1>29 DEF Destroy, ControlInv, Holding, Building, Granted
<1>30. CASE UNCHANGED vars
  BY <1>30 DEF vars
<1>31. QED
  BY <1>1, <1>2, <1>3, <1>4, <1>5, <1>6, <1>7, <1>8, <1>9, <1>10, <1>11, <1>12,
     <1>13, <1>14, <1>15, <1>16, <1>17, <1>18, <1>19, <1>20, <1>21, <1>22, <1>23,
     <1>24, <1>25, <1>26, <1>27, <1>28, <1>29, <1>30
  DEF Next, HostStep, OpenStep, GetCacheStep, BuildStep, CloseStep, Terminated

-----------------------------------------------------------------------------
(* After the plugin is unloaded.                                           *)

(* Every step after the unloading leaves nothing behind.                   *)
LEMMA GoneStep ==
  ASSUME TypeOK, ControlInv, RefcountExact, GoneInv, [Next]_vars
  PROVE  GoneInv'
<1> USE DEF TypeOK, cacheVars, listVars, arcVars, Goto, ListFree, Release,
           SetStatus, Clear, FreeSlots, NoSlot, Slots, GoneInv
<1>1. ASSUME NEW f \in Files, Modify(f) PROVE GoneInv'
  BY <1>1 DEF Modify
<1>2. ASSUME NEW s \in Slots, Age(s) PROVE GoneInv'
  BY <1>2 DEF Age
<1>3. ASSUME NEW t \in Threads, BeginOpen(t) PROVE GoneInv'
  BY <1>3 DEF BeginOpen, ControlInv
<1>4. ASSUME NEW t \in Threads, DeleteZombies(t) PROVE GoneInv'
  BY <1>4 DEF DeleteZombies, ControlInv
<1>5. ASSUME NEW t \in Threads, ArcfileInit(t) PROVE GoneInv'
  BY <1>5 DEF ArcfileInit, ControlInv
<1>6. ASSUME NEW t \in Threads, GetCacheLock(t) PROVE GoneInv'
  BY <1>6 DEF GetCacheLock, ControlInv
<1>7. ASSUME NEW t \in Threads, Search(t) PROVE GoneInv'
  BY <1>7 DEF Search, ControlInv
<1>8. ASSUME NEW t \in Threads, WaitReady(t) PROVE GoneInv'
  BY <1>8 DEF WaitReady, ControlInv
<1>9. ASSUME NEW t \in Threads, Reuse(t) PROVE GoneInv'
  BY <1>9 DEF Reuse, ControlInv
<1>10. ASSUME NEW t \in Threads, MarkStale(t) PROVE GoneInv'
  BY <1>10 DEF MarkStale, ControlInv
<1>11. ASSUME NEW t \in Threads, Miss(t) PROVE GoneInv'
  BY <1>11 DEF Miss, ControlInv
<1>12. ASSUME NEW t \in Threads, Create(t) PROVE GoneInv'
  BY <1>12 DEF Create, ControlInv
<1>13. ASSUME NEW t \in Threads, CreateFail(t) PROVE GoneInv'
  BY <1>13 DEF CreateFail, ControlInv
<1>14. ASSUME NEW t \in Threads, InitBegin(t) PROVE GoneInv'
  BY <1>14 DEF InitBegin, ControlInv
<1>15. ASSUME NEW t \in Threads, InitOpen(t) PROVE GoneInv'
  BY <1>15 DEF InitOpen, ControlInv
<1>16. ASSUME NEW t \in Threads, InitScan(t) PROVE GoneInv'
  BY <1>16 DEF InitScan, ControlInv
<1>17. ASSUME NEW t \in Threads, InitFallback(t) PROVE GoneInv'
  BY <1>17 DEF InitFallback, ControlInv
<1>18. ASSUME NEW t \in Threads, InitReady(t) PROVE GoneInv'
  BY <1>18 DEF InitReady, ControlInv
<1>19. ASSUME NEW t \in Threads, InitUnlock(t) PROVE GoneInv'
  BY <1>19 DEF InitUnlock, ControlInv
<1>20. ASSUME NEW t \in Threads, InitFail(t) PROVE GoneInv'
  BY <1>20 DEF InitFail, ControlInv
<1>21. ASSUME NEW t \in Threads, GetCacheError(t) PROVE GoneInv'
  BY <1>21 DEF GetCacheError, ControlInv
<1>22. ASSUME NEW t \in Threads, ArchiveInit(t) PROVE GoneInv'
  BY <1>22 DEF ArchiveInit, ControlInv
<1>23. ASSUME NEW t \in Threads, ArclistAdd(t) PROVE GoneInv'
  BY <1>23 DEF ArclistAdd, ControlInv
<1>24. ASSUME NEW t \in Threads, ReadLock(t) PROVE GoneInv'
  BY <1>24 DEF ReadLock, ControlInv
<1>25. ASSUME NEW t \in Threads, DropArchive(t) PROVE GoneInv'
  BY <1>25 DEF DropArchive, ControlInv
<1>26. ASSUME NEW t \in Threads, CloseFile(t) PROVE GoneInv'
  BY <1>26 DEF CloseFile, ControlInv
<1>27. ASSUME NEW t \in Threads, ArclistDel(t) PROVE GoneInv'
  BY <1>27 DEF ArclistDel, ControlInv
<1>28. ASSUME NEW t \in Threads, DeleteArchive(t) PROVE GoneInv'
  BY <1>28 DEF DeleteArchive, ControlInv
<1>29. CASE Destroy
  <2>1. RefcountExact'
    BY <1>29, CountStep DEF Next
  <2>2. \A t \in Threads : ref'[t] = NoSlot
    BY <1>29 DEF Destroy, ControlInv, Holding, Building, Scanning, Granted
  <2>3. \A s \in Slots : refcount'[s] = 0
    BY <2>1, <2>2, FS_EmptySet DEF RefcountExact, Holders
  <2>4. QED
    BY <1>29, <2>3 DEF Destroy
<1>30. CASE UNCHANGED vars
  BY <1>30 DEF vars
<1>31. QED
  BY <1>1, <1>2, <1>3, <1>4, <1>5, <1>6, <1>7, <1>8, <1>9, <1>10, <1>11, <1>12,
     <1>13, <1>14, <1>15, <1>16, <1>17, <1>18, <1>19, <1>20, <1>21, <1>22, <1>23,
     <1>24, <1>25, <1>26, <1>27, <1>28, <1>29, <1>30
  DEF Next, HostStep, OpenStep, GetCacheStep, BuildStep, CloseStep, Terminated

-----------------------------------------------------------------------------
(* The inductive invariant, and what follows from it.                      *)

(* IInv holds initially and every step preserves it.                       *)
THEOREM Invariance == SafetySpec => []IInv
<1>1. Init => IInv
  <2> SUFFICES ASSUME Init PROVE IInv
    OBVIOUS
  <2> USE DEF Init
  <2>1. TypeOK
    BY ThreadsAssumption, FilesAssumption, BoundsAssumption, Labels
    DEF TypeOK, Versions, Slots, NoSlot, NoRequest
  <2>2. ControlInv
    BY ThreadsAssumption
    DEF ControlInv, Locked, Holding, Building, Scanning, Granted, Opening
  <2>3. \A s \in Slots : Holders(s) = {}
    BY DEF Holders, NoSlot, Slots
  <2>4. RefcountExact
    BY <2>3, FS_EmptySet DEF RefcountExact
  <2>5. LiveInv /\ BuildInv /\ UnreadyInv /\ AskInv /\ GoneInv
    BY DEF LiveInv, BuildInv, UnreadyInv, AskInv, GoneInv, Builder, Building,
       Scanning, Granted, Opening, Locked
  <2>6. GrantInv /\ LockInv
    BY ThreadsAssumption DEF GrantInv, LockInv, Building, Scanning, Granted
  <2>7. QED
    BY <2>1, <2>2, <2>4, <2>5, <2>6 DEF IInv
<1>2. IInv /\ [Next]_vars => IInv'
  BY TypeStep, ControlStep, CountStep, LiveStep, LockStep, BuildInvStep, UnreadyStep,
     AskStep, GrantStep, GoneStep
  DEF IInv
<1>3. QED
  BY <1>1, <1>2, PTL DEF SafetySpec

(* The state stays well formed.                                            *)
THEOREM TypeCorrect == SafetySpec => []TypeOK
<1>1. IInv => TypeOK
  BY DEF IInv
<1>2. QED
  BY <1>1, Invariance, PTL

(* No path through open_file, get_cache, cache::init or close_file loses a *)
(* reference or gives one back twice, whatever the interleaving.           *)
THEOREM ReferencesCounted == SafetySpec => []RefcountExact
<1>1. IInv => RefcountExact
  BY DEF IInv
<1>2. QED
  BY <1>1, Invariance, PTL

(* delete_zombies and the unloading of the plugin never delete a cache     *)
(* that a thread holds, has locked, or spins on in get_cache.              *)
THEOREM NeverFreedInUse == SafetySpec => []NoUseAfterFree
<1>1. IInv => NoUseAfterFree
  <2> SUFFICES ASSUME IInv PROVE NoUseAfterFree
    OBVIOUS
  <2>1. ASSUME NEW s \in Slots, writer[s] # NoThread \/ readers[s] # {}
        PROVE  \E t \in Threads : ref[t] = s
    BY <2>1 DEF IInv, TypeOK, LockInv
  <2>2. ASSUME NEW s \in Slots, writer[s] # NoThread \/ readers[s] # {}
        PROVE  status[s] # "Free"
    BY <2>1, <2>2, FreeUnheld DEF IInv
  <2>3. QED
    BY <2>2 DEF NoUseAfterFree, IInv, LiveInv
<1>2. QED
  BY <1>1, Invariance, PTL

(* Whoever open_file or get_cache has handed a cache to has a complete     *)
(* index that no builder is about to clear.                                *)
THEOREM IndexesComplete == SafetySpec => []GrantedIndexComplete
<1>1. IInv => GrantedIndexComplete
  <2> SUFFICES ASSUME IInv, NEW t \in Threads, pc[t] \in Granted
               PROVE  /\ status[ref[t]] \in {"Ready", "Zombie"}
                      /\ content[ref[t]] # 0
                      /\ pc[t] = "open" => writer[ref[t]] = NoThread
    BY DEF GrantedIndexComplete
  <2>1. ref[t] \in Slots
    BY DEF IInv, ControlInv, TypeOK, Holding
  <2>2. Indexed(ref[t])
    BY DEF IInv, GrantInv
  <2>3. attr[ref[t]] \in Nat /\ content[ref[t]] \in Nat
    BY <2>1, BoundsAssumption DEF IInv, TypeOK, Versions
  <2>4. content[ref[t]] # 0
    BY <2>2, <2>3 DEF Indexed
  <2>5. QED
    BY <2>4 DEF IInv, GrantInv
<1>2. QED
  BY <1>1, Invariance, PTL

(* A ready cache that looks up to date is up to date.                      *)
THEOREM ReadyIsCurrent == SafetySpec => []ReadyMeansCurrent
<1>1. IInv => ReadyMeansCurrent
  <2> SUFFICES ASSUME IInv, NEW s \in Slots, status[s] = "Ready",
                      attr[s] = version[file[s]]
               PROVE  content[s] = version[file[s]]
    BY DEF ReadyMeansCurrent
  <2>1. Indexed(s)
    BY DEF IInv, GrantInv
  <2>2. attr[s] \in Nat /\ content[s] \in Nat
    BY BoundsAssumption DEF IInv, TypeOK, Versions
  <2>3. QED
    BY <2>1, <2>2 DEF Indexed
<1>2. QED
  BY <1>1, Invariance, PTL

(* The spin of get_cache, with the list locked, always has a builder to    *)
(* wait for.                                                               *)
THEOREM SpinHasBuilder == SafetySpec => []WaitedForBuilder
<1>1. IInv => WaitedForBuilder
  <2> SUFFICES ASSUME IInv, NEW t \in Threads, pc[t] = "wait",
                      status[scan] \in {"Alloc", "Init"}
               PROVE  \E u \in Threads \ {t} :
                        ref[u] = scan /\ pc[u] \in {"build"} \cup Scanning
    BY DEF WaitedForBuilder
  <2>1. scan \in Slots
    BY DEF IInv, ControlInv
  <2>2. PICK u \in Threads : ref[u] = scan /\ pc[u] \in Builder
    BY <2>1 DEF IInv, UnreadyInv
  <2>3. u # t
    BY <2>2 DEF Builder, Scanning
  <2>4. QED
    BY <2>2, <2>3 DEF Builder
<1>2. QED
  BY <1>1, Invariance, PTL

(* Unloading leaves nothing behind.                                        *)
THEOREM UnloadLeavesNothing == SafetySpec => []NothingLeft
<1>1. IInv => NothingLeft
  BY ThreadsAssumption DEF IInv, GoneInv, NothingLeft
<1>2. QED
  BY <1>1, Invariance, PTL

-----------------------------------------------------------------------------
(* A published index is never rebuilt in place.                            *)

Frozen ==
  \A s \in Slots : status[s] = "Ready" =>
    \/ status'[s] = "Free"
    \/ /\ status'[s] \in {"Ready", "Zombie"}
       /\ file'[s] = file[s] /\ attr'[s] = attr[s] /\ content'[s] = content[s]

(* No step changes the index of a ready cache.                             *)
LEMMA FrozenStep ==
  ASSUME TypeOK, ControlInv, BuildInv, [Next]_vars
  PROVE  Frozen
<1> USE DEF TypeOK, cacheVars, listVars, arcVars, Goto, ListFree, Release,
           SetStatus, Clear, FreeSlots, NoSlot, Slots, Frozen, FreeItems, BuildInv
<1>1. ASSUME NEW f \in Files, Modify(f) PROVE Frozen
  BY <1>1 DEF Modify
<1>2. ASSUME NEW s \in Slots, Age(s) PROVE Frozen
  BY <1>2 DEF Age
<1>3. ASSUME NEW t \in Threads, BeginOpen(t) PROVE Frozen
  BY <1>3 DEF BeginOpen
<1>4. ASSUME NEW t \in Threads, DeleteZombies(t) PROVE Frozen
  BY <1>4 DEF DeleteZombies
<1>5. ASSUME NEW t \in Threads, ArcfileInit(t) PROVE Frozen
  BY <1>5 DEF ArcfileInit
<1>6. ASSUME NEW t \in Threads, GetCacheLock(t) PROVE Frozen
  BY <1>6 DEF GetCacheLock
<1>7. ASSUME NEW t \in Threads, Search(t) PROVE Frozen
  BY <1>7 DEF Search
<1>8. ASSUME NEW t \in Threads, WaitReady(t) PROVE Frozen
  BY <1>8 DEF WaitReady
<1>9. ASSUME NEW t \in Threads, Reuse(t) PROVE Frozen
  BY <1>9 DEF Reuse
<1>10. ASSUME NEW t \in Threads, MarkStale(t) PROVE Frozen
  BY <1>10 DEF MarkStale
<1>11. ASSUME NEW t \in Threads, Miss(t) PROVE Frozen
  BY <1>11 DEF Miss
<1>12. ASSUME NEW t \in Threads, Create(t) PROVE Frozen
  BY <1>12 DEF Create
<1>13. ASSUME NEW t \in Threads, CreateFail(t) PROVE Frozen
  BY <1>13 DEF CreateFail
<1>14. ASSUME NEW t \in Threads, InitBegin(t) PROVE Frozen
  BY <1>14 DEF InitBegin
<1>15. ASSUME NEW t \in Threads, InitOpen(t) PROVE Frozen
  BY <1>15 DEF InitOpen
<1>16. ASSUME NEW t \in Threads, InitScan(t) PROVE Frozen
  BY <1>16 DEF InitScan
<1>17. ASSUME NEW t \in Threads, InitFallback(t) PROVE Frozen
  BY <1>17 DEF InitFallback
<1>18. ASSUME NEW t \in Threads, InitReady(t) PROVE Frozen
  BY <1>18 DEF InitReady
<1>19. ASSUME NEW t \in Threads, InitUnlock(t) PROVE Frozen
  BY <1>19 DEF InitUnlock
<1>20. ASSUME NEW t \in Threads, InitFail(t) PROVE Frozen
  BY <1>20 DEF InitFail
<1>21. ASSUME NEW t \in Threads, GetCacheError(t) PROVE Frozen
  BY <1>21 DEF GetCacheError
<1>22. ASSUME NEW t \in Threads, ArchiveInit(t) PROVE Frozen
  BY <1>22 DEF ArchiveInit
<1>23. ASSUME NEW t \in Threads, ArclistAdd(t) PROVE Frozen
  BY <1>23 DEF ArclistAdd
<1>24. ASSUME NEW t \in Threads, ReadLock(t) PROVE Frozen
  BY <1>24 DEF ReadLock
<1>25. ASSUME NEW t \in Threads, DropArchive(t) PROVE Frozen
  BY <1>25 DEF DropArchive
<1>26. ASSUME NEW t \in Threads, CloseFile(t) PROVE Frozen
  BY <1>26 DEF CloseFile
<1>27. ASSUME NEW t \in Threads, ArclistDel(t) PROVE Frozen
  BY <1>27 DEF ArclistDel
<1>28. ASSUME NEW t \in Threads, DeleteArchive(t) PROVE Frozen
  BY <1>28 DEF DeleteArchive
<1>29. CASE Destroy
  BY <1>29 DEF Destroy
<1>30. CASE UNCHANGED vars
  BY <1>30 DEF vars
<1>31. QED
  BY <1>1, <1>2, <1>3, <1>4, <1>5, <1>6, <1>7, <1>8, <1>9, <1>10, <1>11, <1>12,
     <1>13, <1>14, <1>15, <1>16, <1>17, <1>18, <1>19, <1>20, <1>21, <1>22, <1>23,
     <1>24, <1>25, <1>26, <1>27, <1>28, <1>29, <1>30
  DEF Next, HostStep, OpenStep, GetCacheStep, BuildStep, CloseStep, Terminated

(* The index of a published cache stays as it is until the cache is        *)
(* deleted; the cache itself can only become a zombie.                     *)
THEOREM PublishedStaysFrozen == SafetySpec => PublishedFrozen
<1>1. IInv /\ [Next]_vars => [Frozen]_vars
  BY FrozenStep DEF IInv
<1>2. QED
  BY <1>1, Invariance, PTL DEF PublishedFrozen, Frozen, SafetySpec

-----------------------------------------------------------------------------
(* The refinement of IndexService.                                         *)

(* An archive that stays open keeps its cache, and the cache its index.    *)
SessionsStay ==
  \A u \in Threads : pc[u] = "open" /\ pc'[u] = "open" =>
    /\ ref'[u] = ref[u]
    /\ file'[ref[u]] = file[ref[u]] /\ content'[ref[u]] = content[ref[u]]

(* No step takes its cache or its index from an archive that stays open.   *)
LEMMA SessionsStayStep ==
  ASSUME TypeOK, ControlInv, RefcountExact, LiveInv, BuildInv, [Next]_vars
  PROVE  SessionsStay
<1> USE DEF TypeOK, cacheVars, listVars, arcVars, Goto, ListFree, Release,
           SetStatus, Clear, FreeSlots, NoSlot, Slots, SessionsStay, Holding, Granted,
           ControlInv
<1>1. ASSUME NEW f \in Files, Modify(f) PROVE SessionsStay
  BY <1>1 DEF Modify
<1>2. ASSUME NEW s \in Slots, Age(s) PROVE SessionsStay
  BY <1>2 DEF Age
<1>3. ASSUME NEW t \in Threads, BeginOpen(t) PROVE SessionsStay
  BY <1>3 DEF BeginOpen
<1>4. ASSUME NEW t \in Threads, DeleteZombies(t) PROVE SessionsStay
  <2>1. \A t1 \in Threads : ref[t1] # NoSlot => ~Reclaimable(ref[t1])
    BY ZeroCount DEF Reclaimable, Holders
  <2>2. QED
    BY <1>4, <2>1 DEF DeleteZombies
<1>5. ASSUME NEW t \in Threads, ArcfileInit(t) PROVE SessionsStay
  BY <1>5 DEF ArcfileInit
<1>6. ASSUME NEW t \in Threads, GetCacheLock(t) PROVE SessionsStay
  BY <1>6 DEF GetCacheLock
<1>7. ASSUME NEW t \in Threads, Search(t) PROVE SessionsStay
  BY <1>7 DEF Search
<1>8. ASSUME NEW t \in Threads, WaitReady(t) PROVE SessionsStay
  BY <1>8 DEF WaitReady
<1>9. ASSUME NEW t \in Threads, Reuse(t) PROVE SessionsStay
  BY <1>9 DEF Reuse
<1>10. ASSUME NEW t \in Threads, MarkStale(t) PROVE SessionsStay
  BY <1>10 DEF MarkStale
<1>11. ASSUME NEW t \in Threads, Miss(t) PROVE SessionsStay
  BY <1>11 DEF Miss
<1>12. ASSUME NEW t \in Threads, Create(t) PROVE SessionsStay
  BY <1>12, FreeUnheld DEF Create, FreeItems
<1>13. ASSUME NEW t \in Threads, CreateFail(t) PROVE SessionsStay
  BY <1>13 DEF CreateFail
<1>14. ASSUME NEW t \in Threads, InitBegin(t) PROVE SessionsStay
  BY <1>14 DEF InitBegin, BuildInv, Builder, Scanning
<1>15. ASSUME NEW t \in Threads, InitOpen(t) PROVE SessionsStay
  BY <1>15 DEF InitOpen
<1>16. ASSUME NEW t \in Threads, InitScan(t) PROVE SessionsStay
  BY <1>16 DEF InitScan, BuildInv, Builder, Scanning
<1>17. ASSUME NEW t \in Threads, InitFallback(t) PROVE SessionsStay
  BY <1>17 DEF InitFallback, BuildInv, Builder, Scanning
<1>18. ASSUME NEW t \in Threads, InitReady(t) PROVE SessionsStay
  BY <1>18 DEF InitReady
<1>19. ASSUME NEW t \in Threads, InitUnlock(t) PROVE SessionsStay
  BY <1>19 DEF InitUnlock
<1>20. ASSUME NEW t \in Threads, InitFail(t) PROVE SessionsStay
  BY <1>20 DEF InitFail
<1>21. ASSUME NEW t \in Threads, GetCacheError(t) PROVE SessionsStay
  BY <1>21 DEF GetCacheError
<1>22. ASSUME NEW t \in Threads, ArchiveInit(t) PROVE SessionsStay
  BY <1>22 DEF ArchiveInit
<1>23. ASSUME NEW t \in Threads, ArclistAdd(t) PROVE SessionsStay
  BY <1>23 DEF ArclistAdd
<1>24. ASSUME NEW t \in Threads, ReadLock(t) PROVE SessionsStay
  BY <1>24 DEF ReadLock
<1>25. ASSUME NEW t \in Threads, DropArchive(t) PROVE SessionsStay
  BY <1>25 DEF DropArchive
<1>26. ASSUME NEW t \in Threads, CloseFile(t) PROVE SessionsStay
  BY <1>26 DEF CloseFile
<1>27. ASSUME NEW t \in Threads, ArclistDel(t) PROVE SessionsStay
  BY <1>27 DEF ArclistDel
<1>28. ASSUME NEW t \in Threads, DeleteArchive(t) PROVE SessionsStay
  BY <1>28 DEF DeleteArchive
<1>29. CASE Destroy
  BY <1>29 DEF Destroy
<1>30. CASE UNCHANGED vars
  BY <1>30 DEF vars
<1>31. QED
  BY <1>1, <1>2, <1>3, <1>4, <1>5, <1>6, <1>7, <1>8, <1>9, <1>10, <1>11, <1>12,
     <1>13, <1>14, <1>15, <1>16, <1>17, <1>18, <1>19, <1>20, <1>21, <1>22, <1>23,
     <1>24, <1>25, <1>26, <1>27, <1>28, <1>29, <1>30
  DEF Next, HostStep, OpenStep, GetCacheStep, BuildStep, CloseStep, Terminated

Requests == [t \in Threads |-> RequestOf(t)]
Sessions == [t \in Threads |-> SessionOf(t)]

(* Functions that differ at most at t, written with EXCEPT.                *)
LEMMA ExceptAt ==
  ASSUME NEW F, NEW G, NEW t \in Threads, NEW e,
         F = [u \in Threads |-> F[u]], G = [u \in Threads |-> G[u]],
         G[t] = e, \A u \in Threads \ {t} : G[u] = F[u]
  PROVE  G = [F EXCEPT ![t] = e]
  OBVIOUS

(* A step that opens and closes nothing is a stutter of the service.       *)
LEMMA StutterStep ==
  ASSUME SessionsStay, UNCHANGED version,
         \A u \in Threads : /\ pc[u] = "open" <=> pc'[u] = "open"
                            /\ pc[u] \in Opening <=> pc'[u] \in Opening
                            /\ pc[u] \in Opening => ask'[u] = ask[u]
  PROVE  UNCHANGED <<version, Requests, Sessions>>
<1>1. \A u \in Threads : RequestOf(u)' = RequestOf(u)
  BY DEF RequestOf
<1>2. \A u \in Threads : SessionOf(u)' = SessionOf(u)
  BY DEF SessionOf, SessionsStay
<1>3. QED
  BY <1>1, <1>2 DEF Requests, Sessions

(* The steps between the start and the end of an open change nothing the   *)
(* caller can see.                                                         *)
LEMMA QuietStep ==
  ASSUME IInv, [Next]_vars, NEW t \in Threads,
         \/ BeginOpen(t) \/ DeleteZombies(t) \/ GetCacheLock(t) \/ Search(t)
         \/ WaitReady(t) \/ Reuse(t) \/ MarkStale(t) \/ Miss(t) \/ Create(t)
         \/ InitBegin(t) \/ InitOpen(t) \/ InitScan(t) \/ InitFallback(t)
         \/ InitReady(t) \/ InitUnlock(t) \/ InitFail(t) \/ ArchiveInit(t)
         \/ ArclistAdd(t) \/ ArclistDel(t) \/ DeleteArchive(t)
  PROVE  UNCHANGED <<version, Requests, Sessions>>
<1>1. SessionsStay
  BY SessionsStayStep DEF IInv
<1> USE DEF Goto, Opening, Locked, Building, Scanning, IInv, TypeOK
<1>2. UNCHANGED version
  BY DEF BeginOpen, DeleteZombies, GetCacheLock, Search, WaitReady, Reuse, MarkStale,
         Miss, Create, InitBegin, InitOpen, InitScan, InitFallback, InitReady,
         InitUnlock, InitFail, ArchiveInit, ArclistAdd, ArclistDel, DeleteArchive
<1>3. UNCHANGED ask
  BY DEF BeginOpen, DeleteZombies, GetCacheLock, Search, WaitReady, Reuse, MarkStale,
         Miss, Create, InitBegin, InitOpen, InitScan, InitFallback, InitReady,
         InitUnlock, InitFail, ArchiveInit, ArclistAdd, ArclistDel, DeleteArchive
<1>4. \A u \in Threads : /\ pc[u] = "open" <=> pc'[u] = "open"
                         /\ pc[u] \in Opening <=> pc'[u] \in Opening
  BY DEF BeginOpen, DeleteZombies, GetCacheLock, Search, WaitReady, Reuse, MarkStale,
         Miss, Create, InitBegin, InitOpen, InitScan, InitFallback, InitReady,
         InitUnlock, InitFail, ArchiveInit, ArclistAdd, ArclistDel, DeleteArchive
<1>5. QED
  BY <1>1, <1>2, <1>3, <1>4, StutterStep

(* The failing ends of open_file refuse the request.                       *)
LEMMA RefuseStep ==
  ASSUME IInv, [Next]_vars, NEW t \in Threads,
         CreateFail(t) \/ GetCacheError(t) \/ DropArchive(t)
  PROVE  Service!Refuse(t)
<1>1. SessionsStay
  BY SessionsStayStep DEF IInv
<1> USE DEF Goto, Opening, Locked, Building, Scanning, IInv, TypeOK
<1>2. /\ UNCHANGED version
      /\ pc[t] \in Opening /\ pc' = [pc EXCEPT ![t] = "idle"]
      /\ \A u \in Threads \ {t} : ask'[u] = ask[u]
  BY DEF CreateFail, GetCacheError, DropArchive
<1>3. ask[t] \in [file : Files, attr : Versions]
  BY <1>2 DEF ControlInv
<1>4. RequestOf(t) # Service!NoRequest /\ RequestOf(t)' = Service!NoRequest
  BY <1>2, <1>3, FilesAssumption DEF RequestOf, Service!NoRequest
<1>5. \A u \in Threads \ {t} : RequestOf(u)' = RequestOf(u)
  BY <1>2 DEF RequestOf
<1>6. \A u \in Threads : SessionOf(u)' = SessionOf(u)
  BY <1>1, <1>2 DEF SessionOf, SessionsStay
<1> HIDE DEF Goto, Opening, Locked, Building, Scanning, IInv, TypeOK
<1>7. Requests' = [Requests EXCEPT ![t] = Service!NoRequest]
  BY <1>4, <1>5, ExceptAt DEF Requests, Service!NoRequest
<1>8. Sessions' = Sessions /\ Requests[t] # Service!NoRequest
  BY <1>4, <1>6 DEF Requests, Sessions
<1>9. QED
  BY <1>2, <1>7, <1>8 DEF Service!Refuse, Requests, Sessions

(* The last step of a successful open_file grants the request, with an     *)
(* index in the interval the service allows.                               *)
LEMMA GrantServiceStep ==
  ASSUME IInv, [Next]_vars, NEW t \in Threads, ReadLock(t)
  PROVE  Service!Grant(t)
<1>1. SessionsStay
  BY SessionsStayStep DEF IInv
<1> USE DEF Goto, Opening, Locked, Building, Scanning, IInv, TypeOK
<1>2. /\ UNCHANGED <<version, ref, file, content>>
      /\ pc[t] = "rdlock" /\ pc' = [pc EXCEPT ![t] = "open"]
      /\ \A u \in Threads \ {t} : ask'[u] = ask[u]
  BY DEF ReadLock
<1>3. ask[t] \in [file : Files, attr : Versions]
  BY <1>2 DEF ControlInv
<1>4. RequestOf(t) = [file |-> ask[t].file, from |-> ask[t].attr]
      /\ RequestOf(t) # Service!NoRequest /\ RequestOf(t)' = Service!NoRequest
  BY <1>2, <1>3, FilesAssumption DEF RequestOf, Service!NoRequest
<1>5. /\ SessionOf(t)' = [file |-> file[ref[t]], content |-> content[ref[t]]]
      /\ \A u \in Threads \ {t} : SessionOf(u)' = SessionOf(u)
  BY <1>1, <1>2 DEF SessionOf, SessionsStay
<1>6. file[ref[t]] = ask[t].file /\ attr[ref[t]] = ask[t].attr
  BY <1>2 DEF BuildInv, Granted
<1>7. content[ref[t]] \in ask[t].attr .. version[ask[t].file]
  <2>1. ref[t] \in Slots /\ Indexed(ref[t])
    BY <1>2 DEF ControlInv, GrantInv, Granted, Holding
  <2>2. content[ref[t]] \in Nat /\ attr[ref[t]] \in Nat /\ version[file[ref[t]]] \in Nat
    BY <2>1, BoundsAssumption DEF Versions, Indexed
  <2>3. QED
    BY <1>6, <2>1, <2>2 DEF Indexed
<1>8. \A u \in Threads \ {t} : RequestOf(u)' = RequestOf(u)
  BY <1>2 DEF RequestOf
<1> HIDE DEF Goto, Opening, Locked, Building, Scanning, IInv, TypeOK
<1>9. Requests' = [Requests EXCEPT ![t] = Service!NoRequest]
  BY <1>4, <1>8, ExceptAt DEF Requests, Service!NoRequest
<1>10. Sessions' = [Sessions EXCEPT ![t] = [file |-> ask[t].file, content |-> content[ref[t]]]]
  BY <1>5, <1>6, ExceptAt DEF Sessions
<1>11. Requests[t] = [file |-> ask[t].file, from |-> ask[t].attr]
  BY <1>4 DEF Requests
<1>12. /\ Requests[t] # Service!NoRequest /\ UNCHANGED version
       /\ Requests[t].file = ask[t].file /\ Requests[t].from = ask[t].attr
  BY <1>2, <1>4, <1>11
<1>13. \E c \in Requests[t].from .. version[Requests[t].file] :
          Sessions' = [Sessions EXCEPT ![t] = [file |-> Requests[t].file, content |-> c]]
  BY <1>7, <1>10, <1>12
<1>14. QED
  BY <1>9, <1>12, <1>13 DEF Service!Grant, Requests, Sessions

(* close_file ends the session when it lets go of the cache's lock.        *)
LEMMA CloseServiceStep ==
  ASSUME IInv, [Next]_vars, NEW t \in Threads, CloseFile(t)
  PROVE  Service!Close(t)
<1>1. SessionsStay
  BY SessionsStayStep DEF IInv
<1> USE DEF Goto, Opening, Locked, Building, Scanning, IInv, TypeOK
<1>2. /\ UNCHANGED <<version, ask>>
      /\ pc[t] = "open" /\ pc' = [pc EXCEPT ![t] = "del"]
  BY DEF CloseFile
<1>3. ref[t] \in Slots /\ file[ref[t]] \in Files
  BY <1>2 DEF ControlInv, Holding, Granted, GrantInv, Indexed
<1>4. SessionOf(t) # Service!NoSession /\ SessionOf(t)' = Service!NoSession
  BY <1>2, <1>3, FilesAssumption DEF SessionOf, Service!NoSession
<1>5. \A u \in Threads \ {t} : SessionOf(u)' = SessionOf(u)
  BY <1>1, <1>2 DEF SessionOf, SessionsStay
<1>6. \A u \in Threads : RequestOf(u)' = RequestOf(u)
  BY <1>2 DEF RequestOf
<1> HIDE DEF Goto, Opening, Locked, Building, Scanning, IInv, TypeOK
<1>7. Sessions' = [Sessions EXCEPT ![t] = Service!NoSession]
  BY <1>4, <1>5, ExceptAt DEF Sessions, Service!NoSession
<1>8. Requests' = Requests /\ Sessions[t] # Service!NoSession
  BY <1>4, <1>6 DEF Requests, Sessions
<1>9. QED
  BY <1>2, <1>7, <1>8 DEF Service!Close, Requests, Sessions

(* Reading the attributes of the file asks, or gives up.                   *)
LEMMA AskServiceStep ==
  ASSUME IInv, [Next]_vars, NEW t \in Threads, ArcfileInit(t)
  PROVE  (\E f \in Files : Service!Ask(t, f)) \/ UNCHANGED <<version, Requests, Sessions>>
<1>1. SessionsStay
  BY SessionsStayStep DEF IInv
<1> USE DEF Goto, Opening, Locked, Building, Scanning, IInv, TypeOK
<1>2. CASE UNCHANGED ask /\ pc' = [pc EXCEPT ![t] = "idle"]
  BY <1>1, <1>2, StutterStep DEF ArcfileInit
<1>3. ASSUME NEW f \in Files, pc' = [pc EXCEPT ![t] = "lock"],
             ask' = [ask EXCEPT ![t] = [file |-> f, attr |-> version[f]]]
      PROVE  Service!Ask(t, f)
  <2>1. UNCHANGED version /\ pc[t] = "arcfile"
    BY DEF ArcfileInit
  <2>2. RequestOf(t) = Service!NoRequest /\ SessionOf(t) = Service!NoSession
    BY <2>1 DEF RequestOf, SessionOf, Service!NoRequest, Service!NoSession
  <2>3. RequestOf(t)' = [file |-> f, from |-> version[f]]
    BY <1>3 DEF RequestOf
  <2>4. \A u \in Threads \ {t} : RequestOf(u)' = RequestOf(u)
    BY <1>3 DEF RequestOf
  <2>5. \A u \in Threads : SessionOf(u)' = SessionOf(u)
    BY <1>1, <1>3, <2>1 DEF SessionOf, SessionsStay
  <2>6. QED
    BY <2>1, <2>2, <2>3, <2>4, <2>5 DEF Service!Ask
<1>4. QED
  BY <1>2, <1>3 DEF ArcfileInit

(* A file on disk changes for the service as for the cache list.           *)
LEMMA ModifyServiceStep ==
  ASSUME IInv, [Next]_vars, NEW f \in Files, Modify(f)
  PROVE  Service!Modify(f)
<1>1. \A u \in Threads : RequestOf(u)' = RequestOf(u) /\ SessionOf(u)' = SessionOf(u)
  BY DEF Modify, RequestOf, SessionOf, cacheVars
<1>2. QED
  BY <1>1 DEF Modify, Service!Modify

(* The unloading ends every session.                                       *)
LEMMA UnloadServiceStep ==
  ASSUME IInv, [Next]_vars, Destroy
  PROVE  Service!Unload
<1>1. \A u \in Threads : /\ RequestOf(u) = Service!NoRequest
                         /\ RequestOf(u)' = Service!NoRequest
                         /\ SessionOf(u)' = Service!NoSession
  BY DEF Destroy, RequestOf, SessionOf, Opening, Locked, Building, Scanning,
         Service!NoRequest, Service!NoSession
<1>2. QED
  BY <1>1 DEF Destroy, Service!Unload

(* The index open_file hands out shows one state of the file, no older     *)
(* than the start of the open and no newer than its end, and goes on       *)
(* showing it until close_file, whatever the other threads do to the list. *)
THEOREM Implementation == SafetySpec => ImplementsIndexService
<1>1. Init => Service!Init
  BY DEF Init, Service!Init, RequestOf, SessionOf, Opening, Locked, Building, Scanning,
         Service!NoRequest, Service!NoSession
<1>2. IInv /\ [Next]_vars => [Service!Next]_(Service!vars)
  <2> SUFFICES ASSUME IInv, [Next]_vars PROVE [Service!Next]_(Service!vars)
    OBVIOUS
  <2> USE DEF Service!Next, Service!vars, Requests, Sessions
  <2>1. ASSUME NEW f \in Files, Modify(f) PROVE [Service!Next]_(Service!vars)
    BY <2>1, ModifyServiceStep
  <2>2. ASSUME NEW s \in Slots, Age(s) PROVE UNCHANGED <<version, Requests, Sessions>>
    BY <2>2 DEF Age, listVars, arcVars, RequestOf, SessionOf
  <2>3. ASSUME NEW t \in Threads, HostStep(t) PROVE [Service!Next]_(Service!vars)
    BY <2>3, QuietStep, CloseServiceStep DEF HostStep
  <2>4. ASSUME NEW t \in Threads, OpenStep(t) PROVE [Service!Next]_(Service!vars)
    BY <2>4, QuietStep, RefuseStep, GrantServiceStep, AskServiceStep
    DEF OpenStep, GetCacheStep, BuildStep
  <2>5. ASSUME NEW t \in Threads, CloseStep(t) PROVE [Service!Next]_(Service!vars)
    BY <2>5, QuietStep DEF CloseStep
  <2>6. CASE Destroy
    BY <2>6, UnloadServiceStep
  <2>7. CASE UNCHANGED vars
    BY <2>7 DEF vars, RequestOf, SessionOf
  <2>8. QED
    BY <2>1, <2>2, <2>3, <2>4, <2>5, <2>6, <2>7 DEF Next, Terminated
<1>3. QED
  BY <1>1, <1>2, Invariance, PTL DEF SafetySpec, ImplementsIndexService, Service!Spec
=============================================================================
