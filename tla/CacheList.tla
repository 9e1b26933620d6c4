----------------------------- MODULE CacheList -----------------------------
(***************************************************************************)
(* The cache list of the plugin (wcx_cache.cpp) together with the two      *)
(* entry points that use it, plugin::open_file and plugin::close_file, and *)
(* the list of open archives.                                              *)
(*                                                                         *)
(* Total Commander opens archives from several threads.  The index of an   *)
(* archive is built once, by the first thread that opens it, and is shared *)
(* through a reference count by the others.  The list's lock protects the  *)
(* slots and their counters; the status of a cache is written by its       *)
(* builder with no lock of the list, and is read without its own lock.     *)
(*                                                                         *)
(* One action is one step between two accesses to state other threads can  *)
(* see.  A scoped lock whose body cannot interleave with anything is one   *)
(* action guarded by the lock being free; a lock held across several steps *)
(* has its owner in a variable.                                            *)
(*                                                                         *)
(* A scan reads an archive piece by piece while others may rewrite it, so  *)
(* that an index can mix two states of the file.  The model follows one    *)
(* item of every index, any of them: content is the state of the file that *)
(* item was read from, and what holds of it holds of each.                 *)
(***************************************************************************)
EXTENDS Naturals, FiniteSets

CONSTANTS
  Threads,     \* host threads that call the plugin
  MainThread,  \* the thread that loaded the DLL (m_main_thread_id)
  NoThread,    \* nobody owns the lock
  Files,       \* archive files; arcfile::is_same_file is equality here
  NoFile,      \* what a free slot and an idle thread name
  ArcType,     \* type arcfile::update_type detects for each file
  MaxItems,    \* cache_max_items: slots are 1 .. MaxItems - 1
  MaxVersion   \* bound on the number of times a file is rewritten

ArcTypes == {"pax", "framed", "plain", "unknown"}

ASSUME ThreadsAssumption ==
  /\ IsFiniteSet(Threads)
  /\ MainThread \in Threads
  /\ NoThread \notin Threads
ASSUME FilesAssumption == NoFile \notin Files /\ ArcType \in [Files -> ArcTypes]
ASSUME BoundsAssumption == MaxItems \in Nat \ {0} /\ MaxVersion \in Nat \ {0}

VARIABLES
  version,    \* [Files -> version]: size and times of the file on disk
  status,     \* [Slots -> cache::m_status], "Free" when m_object is NULL
  file,       \* [Slots -> the file m_arcfile names]
  attr,       \* [Slots -> the version m_arcfile's size and times describe]
  content,    \* [Slots -> the version one item was read from], 0 if none
  aged,       \* [Slots -> m_last_used_time is a cache lifetime or more ago]
  refcount,   \* [Slots -> cache_list::m_refcount]
  writer,     \* [Slots -> owner of the cache's lock in write mode]
  readers,    \* [Slots -> owners of the cache's lock in read mode]
  listOwner,  \* owner of cache_list::m_mutex across the steps of get_cache
  scan,       \* get_cache's loop index; the slot found once the loop ends
  arcOwner,   \* owner of the archive list's mutex across close_file
  arclist,    \* threads whose archive is a member of m_arclist
  pc,         \* where each thread is
  ask,        \* the arcfile of the open in progress: file and attributes
  ref         \* the slot each thread's archive (or open) owes a release

vars == <<version, status, file, attr, content, aged, refcount, writer,
          readers, listOwner, scan, arcOwner, arclist, pc, ask, ref>>

NoSlot == 0
Slots == 1 .. (MaxItems - 1)
Versions == 1 .. MaxVersion
NoRequest == [file |-> NoFile, attr |-> 0]

(* Steps of get_cache taken with the list's lock held.                     *)
Locked == {"search", "wait", "check", "create"}
(* Steps of cache::init between its first status write and its last.       *)
Scanning == {"opening", "scan", "single", "fin"}
(* Steps taken with the new cache's lock held in write mode.               *)
Building == Scanning \cup {"unlock"}
(* Steps at which the index has been handed to the caller.                 *)
Granted == {"arcopen", "add", "rdlock", "drop", "open", "del", "delrel"}
Holding == {"build", "builderr"} \cup Building \cup Granted
(* Steps of an open_file that has read the attributes of its file.         *)
Opening == {"lock", "build", "builderr", "arcopen", "add", "rdlock", "drop"}
             \cup Locked \cup Building
PCs == {"idle", "zombies", "arcfile", "gone", "open", "del", "delrel"} \cup Opening

cacheVars == <<status, file, attr, content, aged, refcount, writer, readers>>
listVars  == <<listOwner, scan>>
arcVars   == <<arcOwner, arclist>>

Goto(t, label) == pc' = [pc EXCEPT ![t] = label]
ListFree == listOwner = NoThread
Holders(s) == {t \in Threads : ref[t] = s}

Init ==
  /\ version = [f \in Files |-> 1]
  /\ status = [s \in Slots |-> "Free"]
  /\ file = [s \in Slots |-> NoFile]
  /\ attr = [s \in Slots |-> 0]
  /\ content = [s \in Slots |-> 0]
  /\ aged = [s \in Slots |-> FALSE]
  /\ refcount = [s \in Slots |-> 0]
  /\ writer = [s \in Slots |-> NoThread]
  /\ readers = [s \in Slots |-> {}]
  /\ listOwner = NoThread
  /\ scan = NoSlot
  /\ arcOwner = NoThread
  /\ arclist = {}
  /\ pc = [t \in Threads |-> "idle"]
  /\ ask = [t \in Threads |-> NoRequest]
  /\ ref = [t \in Threads |-> NoSlot]

-----------------------------------------------------------------------------
(* The environment: somebody rewrites an archive (every handle the plugin  *)
(* opens shares write access), and the clock runs.                         *)

Modify(f) ==
  /\ version[f] < MaxVersion
  /\ version' = [version EXCEPT ![f] = @ + 1]
  /\ UNCHANGED <<cacheVars, listVars, arcVars, pc, ask, ref>>

Age(s) ==
  /\ status[s] # "Free" /\ ~aged[s]
  /\ aged' = [aged EXCEPT ![s] = TRUE]
  /\ UNCHANGED <<version, status, file, attr, content, refcount, writer, readers,
                 listVars, arcVars, pc, ask, ref>>

-----------------------------------------------------------------------------
(* Freeing slots: `delete obj; m_object[i] = NULL` for every slot of S.    *)

FreeSlots(S) ==
  /\ status'  = [s \in Slots |-> IF s \in S THEN "Free" ELSE status[s]]
  /\ file'    = [s \in Slots |-> IF s \in S THEN NoFile ELSE file[s]]
  /\ attr'    = [s \in Slots |-> IF s \in S THEN 0 ELSE attr[s]]
  /\ content' = [s \in Slots |-> IF s \in S THEN 0 ELSE content[s]]
  /\ aged'    = [s \in Slots |-> IF s \in S THEN FALSE ELSE aged[s]]

(* Mutant: deletes zombies that are still in use.                          *)
ReclaimableIfUsed(s) ==
  /\ status[s] # "Free"
  /\ status[s] = "Zombie" \/ aged[s]

(* What delete_zombies may delete: unused, and a zombie or past its life.  *)
Reclaimable(s) ==
  /\ status[s] # "Free"
  /\ refcount[s] = 0
  /\ status[s] = "Zombie" \/ aged[s]

(* open_file: only the main thread's call goes through delete_zombies.     *)
BeginOpen(t) ==
  /\ pc[t] = "idle"
  /\ Goto(t, IF t = MainThread THEN "zombies" ELSE "arcfile")
  /\ UNCHANGED <<version, cacheVars, listVars, arcVars, ask, ref>>

DeleteZombies(t) ==
  /\ pc[t] = "zombies"
  /\ ListFree
  /\ FreeSlots({s \in Slots : Reclaimable(s)})
  /\ Goto(t, "arcfile")
  /\ UNCHANGED <<version, refcount, writer, readers, listVars, arcVars, ask, ref>>

(* arcfile.init(imName | imAttr | imType) reads the attributes of the file *)
(* from the disk, or fails.                                                *)
ArcfileInit(t) ==
  /\ pc[t] = "arcfile"
  /\ \/ \E f \in Files :
          /\ ask' = [ask EXCEPT ![t] = [file |-> f, attr |-> version[f]]]
          /\ Goto(t, "lock")
     \/ Goto(t, "idle") /\ UNCHANGED ask
  /\ UNCHANGED <<version, cacheVars, listVars, arcVars, ref>>

-----------------------------------------------------------------------------
(* cache_list::get_cache, under the list's lock.                           *)

GetCacheLock(t) ==
  /\ pc[t] = "lock"
  /\ ListFree
  /\ listOwner' = t
  /\ scan' = 1
  /\ Goto(t, "search")
  /\ UNCHANGED <<version, cacheVars, arcVars, ask, ref>>

(* cache::is_same_file: a zombie is never the same file.                   *)
IsSameFile(s, f) == status[s] \notin {"Free", "Zombie"} /\ file[s] = f

(* Mutant: the loop runs one slot past the end of the array.               *)
SearchPastEnd(t) ==
  /\ pc[t] = "search"
  /\ \/ /\ scan > MaxItems
        /\ Goto(t, "create")
        /\ UNCHANGED scan
     \/ /\ scan \in Slots
        /\ IsSameFile(scan, ask[t].file)
        /\ Goto(t, "wait")
        /\ UNCHANGED scan
     \/ /\ scan \in 1 .. MaxItems
        /\ scan \in Slots => ~IsSameFile(scan, ask[t].file)
        /\ scan' = scan + 1
        /\ UNCHANGED pc
  /\ UNCHANGED <<version, cacheVars, listOwner, arcVars, ask, ref>>

(* One turn of the search loop.  Builders change m_status meanwhile.       *)
Search(t) ==
  /\ pc[t] = "search"
  /\ \/ /\ scan \notin Slots
        /\ Goto(t, "create")
        /\ UNCHANGED scan
     \/ /\ scan \in Slots
        /\ IsSameFile(scan, ask[t].file)
        /\ Goto(t, "wait")
        /\ UNCHANGED scan
     \/ /\ scan \in Slots
        /\ ~IsSameFile(scan, ask[t].file)
        /\ scan' = scan + 1
        /\ UNCHANGED pc
  /\ UNCHANGED <<version, cacheVars, listOwner, arcVars, ask, ref>>

(* Mutant: waits for a ready cache only, and not for a failed build.       *)
WaitReadyOnly(t) ==
  /\ pc[t] = "wait"
  /\ status[scan] = "Ready"
  /\ Goto(t, "check")
  /\ UNCHANGED <<version, cacheVars, listVars, arcVars, ask, ref>>

(* `while (cache->m_status < stReady) Sleep(10)`, the lock still held.     *)
WaitReady(t) ==
  /\ pc[t] = "wait"
  /\ status[scan] \in {"Ready", "Zombie"}
  /\ Goto(t, "check")
  /\ UNCHANGED <<version, cacheVars, listVars, arcVars, ask, ref>>

(* Mutant: hands the cache out and forgets to count the reference.         *)
ReuseUncounted(t) ==
  /\ pc[t] = "check"
  /\ status[scan] = "Ready"
  /\ attr[scan] = ask[t].attr
  /\ ref' = [ref EXCEPT ![t] = scan]
  /\ listOwner' = NoThread
  /\ scan' = NoSlot
  /\ Goto(t, "arcopen")
  /\ UNCHANGED <<version, cacheVars, arcVars, ask>>

(* Mutant: does not compare the attributes.                                *)
ReuseAnyAttr(t) ==
  /\ pc[t] = "check"
  /\ status[scan] = "Ready"
  /\ refcount' = [refcount EXCEPT ![scan] = @ + 1]
  /\ ref' = [ref EXCEPT ![t] = scan]
  /\ listOwner' = NoThread
  /\ scan' = NoSlot
  /\ Goto(t, "arcopen")
  /\ UNCHANGED <<version, status, file, attr, content, aged, writer, readers,
                 arcVars, ask>>

(* The second read of m_status finds the cache ready and up to date.       *)
Reuse(t) ==
  /\ pc[t] = "check"
  /\ status[scan] = "Ready"
  /\ attr[scan] = ask[t].attr
  /\ refcount' = [refcount EXCEPT ![scan] = @ + 1]
  /\ ref' = [ref EXCEPT ![t] = scan]
  /\ listOwner' = NoThread
  /\ scan' = NoSlot
  /\ Goto(t, "arcopen")
  /\ UNCHANGED <<version, status, file, attr, content, aged, writer, readers,
                 arcVars, ask>>

(* Mutant: empties the stale cache at once instead of leaving it to        *)
(* delete_zombies.                                                         *)
MarkStaleAndEmpty(t) ==
  /\ pc[t] = "check"
  /\ status[scan] = "Ready"
  /\ attr[scan] # ask[t].attr
  /\ status' = [status EXCEPT ![scan] = "Zombie"]
  /\ content' = [content EXCEPT ![scan] = 0]
  /\ Goto(t, "create")
  /\ UNCHANGED <<version, file, attr, aged, refcount, writer, readers,
                 listVars, arcVars, ask, ref>>

(* ... finds it ready but for an older state of the file: signal to delete *)
MarkStale(t) ==
  /\ pc[t] = "check"
  /\ status[scan] = "Ready"
  /\ attr[scan] # ask[t].attr
  /\ status' = [status EXCEPT ![scan] = "Zombie"]
  /\ Goto(t, "create")
  /\ UNCHANGED <<version, file, attr, content, aged, refcount, writer, readers,
                 listVars, arcVars, ask, ref>>

(* ... or finds it not ready at all.                                       *)
Miss(t) ==
  /\ pc[t] = "check"
  /\ status[scan] # "Ready"
  /\ Goto(t, "create")
  /\ UNCHANGED <<version, cacheVars, listVars, arcVars, ask, ref>>

FreeItems == {s \in Slots : status[s] = "Free" /\ refcount[s] = 0}

(* get_free_item and create, then the list's lock is left.                 *)
Create(t) ==
  /\ pc[t] = "create"
  /\ ArcType[ask[t].file] # "unknown"
  /\ \E s \in FreeItems :
       /\ \A r \in FreeItems : s <= r
       /\ status' = [status EXCEPT ![s] = "Alloc"]
       /\ file' = [file EXCEPT ![s] = ask[t].file]
       /\ attr' = [attr EXCEPT ![s] = ask[t].attr]
       /\ aged' = [aged EXCEPT ![s] = TRUE]
       /\ refcount' = [refcount EXCEPT ![s] = 1]
       /\ ref' = [ref EXCEPT ![t] = s]
  /\ listOwner' = NoThread
  /\ scan' = NoSlot
  /\ Goto(t, "build")
  /\ UNCHANGED <<version, content, writer, readers, arcVars, ask>>

(* The type is unknown, no slot is free, or memory runs out.               *)
CreateFail(t) ==
  /\ pc[t] = "create"
  /\ listOwner' = NoThread
  /\ scan' = NoSlot
  /\ ask' = [ask EXCEPT ![t] = NoRequest]
  /\ Goto(t, "idle")
  /\ UNCHANGED <<version, cacheVars, arcVars, ref>>

-----------------------------------------------------------------------------
(* cache::init, run by the thread that created the slot with the list's    *)
(* lock released and the cache's own lock held in write mode.              *)

SetStatus(s, st) == status' = [status EXCEPT ![s] = st]

(* clear(): drop the blocks; m_status is a zombie's until the next write.  *)
Clear(s) ==
  /\ SetStatus(s, "Zombie")
  /\ content' = [content EXCEPT ![s] = 0]

InitBegin(t) ==
  /\ pc[t] = "build"
  /\ status[ref[t]] = "Alloc"
  /\ writer[ref[t]] = NoThread /\ readers[ref[t]] = {}
  /\ writer' = [writer EXCEPT ![ref[t]] = t]
  /\ Clear(ref[t])
  /\ Goto(t, "opening")
  /\ UNCHANGED <<version, file, attr, aged, refcount, readers, listVars, arcVars,
                 ask, ref>>

(* Mutant: publishes the cache before the archive is scanned.              *)
InitOpenReady(t) ==
  /\ pc[t] = "opening"
  /\ SetStatus(ref[t], "Ready")
  /\ Goto(t, "scan")
  /\ UNCHANGED <<version, file, attr, content, aged, refcount, writer, readers,
                 listVars, arcVars, ask, ref>>

(* CreateFileW succeeded.                                                  *)
InitOpen(t) ==
  /\ pc[t] = "opening"
  /\ SetStatus(ref[t], "Init")
  /\ Goto(t, "scan")
  /\ UNCHANGED <<version, file, attr, content, aged, refcount, writer, readers,
                 listVars, arcVars, ask, ref>>

(* The scan of a PAX or framed archive, or the single item of a plain one: *)
(* the item followed is read.                                              *)
InitScan(t) ==
  /\ pc[t] \in {"scan", "single"}
  /\ content' = [content EXCEPT ![ref[t]] = version[file[ref[t]]]]
  /\ Goto(t, "fin")
  /\ UNCHANGED <<version, status, file, attr, aged, refcount, writer, readers,
                 listVars, arcVars, ask, ref>>

(* The frames of a framed archive are not what they should be: clear again *)
(* and take the archive as one compressed item.                            *)
InitFallback(t) ==
  /\ pc[t] = "scan"
  /\ ArcType[file[ref[t]]] = "framed"
  /\ Clear(ref[t])
  /\ Goto(t, "single")
  /\ UNCHANGED <<version, file, attr, aged, refcount, writer, readers,
                 listVars, arcVars, ask, ref>>

(* Mutant: refreshes the recorded attributes once the scan is over.        *)
InitReadyUpdateAttr(t) ==
  /\ pc[t] = "fin"
  /\ SetStatus(ref[t], "Ready")
  /\ attr' = [attr EXCEPT ![ref[t]] = version[file[ref[t]]]]
  /\ Goto(t, "unlock")
  /\ UNCHANGED <<version, file, content, aged, refcount, writer, readers,
                 listVars, arcVars, ask, ref>>

(* Mutant: leaves the publication of the cache to its caller.              *)
InitReadySilently(t) ==
  /\ pc[t] = "fin"
  /\ Goto(t, "unlock")
  /\ UNCHANGED <<version, cacheVars, listVars, arcVars, ask, ref>>

(* The scan succeeded.                                                     *)
InitReady(t) ==
  /\ pc[t] = "fin"
  /\ SetStatus(ref[t], "Ready")
  /\ Goto(t, "unlock")
  /\ UNCHANGED <<version, file, attr, content, aged, refcount, writer, readers,
                 listVars, arcVars, ask, ref>>

InitUnlock(t) ==
  /\ pc[t] = "unlock"
  /\ writer' = [writer EXCEPT ![ref[t]] = NoThread]
  /\ Goto(t, "arcopen")
  /\ UNCHANGED <<version, status, file, attr, content, aged, refcount, readers,
                 listVars, arcVars, ask, ref>>

(* Opening the file, reading it or storing an item failed.                 *)
InitFail(t) ==
  /\ pc[t] \in {"opening", "scan", "single"}
  /\ pc[t] = "scan" => ArcType[file[ref[t]]] # "framed"
  /\ SetStatus(ref[t], "Zombie")
  /\ writer' = [writer EXCEPT ![ref[t]] = NoThread]
  /\ Goto(t, "builderr")
  /\ UNCHANGED <<version, file, attr, content, aged, refcount, readers,
                 listVars, arcVars, ask, ref>>

(* cache::release: note the time, then give the reference back.            *)
Release(t) ==
  /\ ListFree
  /\ aged' = [aged EXCEPT ![ref[t]] = FALSE]
  /\ refcount' = [refcount EXCEPT ![ref[t]] = IF @ > 0 THEN @ - 1 ELSE @]
  /\ ref' = [ref EXCEPT ![t] = NoSlot]

(* The error exit of get_cache after a failed init.                        *)
GetCacheError(t) ==
  /\ pc[t] = "builderr"
  /\ SetStatus(ref[t], "Zombie")
  /\ Release(t)
  /\ ask' = [ask EXCEPT ![t] = NoRequest]
  /\ Goto(t, "idle")
  /\ UNCHANGED <<version, file, attr, content, writer, readers, listVars, arcVars>>

-----------------------------------------------------------------------------
(* The rest of open_file, and close_file.                                  *)

(* archive::init takes the reference over and opens the file, or fails.    *)
ArchiveInit(t) ==
  /\ pc[t] = "arcopen"
  /\ Goto(t, "add") \/ Goto(t, "drop")
  /\ UNCHANGED <<version, cacheVars, listVars, arcVars, ask, ref>>

ArclistAdd(t) ==
  /\ pc[t] = "add"
  /\ arcOwner = NoThread
  /\ \/ arclist' = arclist \cup {t} /\ Goto(t, "rdlock")
     \/ UNCHANGED arclist /\ Goto(t, "drop")
  /\ UNCHANGED <<version, cacheVars, listVars, arcOwner, ask, ref>>

ReadLock(t) ==
  /\ pc[t] = "rdlock"
  /\ writer[ref[t]] = NoThread
  /\ readers' = [readers EXCEPT ![ref[t]] = @ \cup {t}]
  /\ ask' = [ask EXCEPT ![t] = NoRequest]
  /\ Goto(t, "open")
  /\ UNCHANGED <<version, status, file, attr, content, aged, refcount, writer,
                 listVars, arcVars, ref>>

(* Mutant: open_file's error exit deletes the archive but keeps its        *)
(* reference to the cache.                                                 *)
DropArchiveOnly(t) ==
  /\ pc[t] = "drop"
  /\ ref' = [ref EXCEPT ![t] = NoSlot]
  /\ ask' = [ask EXCEPT ![t] = NoRequest]
  /\ Goto(t, "idle")
  /\ UNCHANGED <<version, cacheVars, listVars, arcVars>>

(* `delete arc` on open_file's error exit: ~archive releases the cache.    *)
DropArchive(t) ==
  /\ pc[t] = "drop"
  /\ Release(t)
  /\ ask' = [ask EXCEPT ![t] = NoRequest]
  /\ Goto(t, "idle")
  /\ UNCHANGED <<version, status, file, attr, content, writer, readers, listVars,
                 arcVars>>

CloseFile(t) ==
  /\ pc[t] = "open"
  /\ readers' = [readers EXCEPT ![ref[t]] = @ \ {t}]
  /\ Goto(t, "del")
  /\ UNCHANGED <<version, status, file, attr, content, aged, refcount, writer,
                 listVars, arcVars, ask, ref>>

(* m_arclist.del unlinks the node under the archive list's lock ...        *)
ArclistDel(t) ==
  /\ pc[t] = "del"
  /\ arcOwner = NoThread
  /\ arcOwner' = t
  /\ arclist' = arclist \ {t}
  /\ Goto(t, "delrel")
  /\ UNCHANGED <<version, cacheVars, listVars, ask, ref>>

(* ... and deletes the archive, which releases its cache, before leaving.  *)
DeleteArchive(t) ==
  /\ pc[t] = "delrel"
  /\ Release(t)
  /\ arcOwner' = NoThread
  /\ Goto(t, "idle")
  /\ UNCHANGED <<version, status, file, attr, content, writer, readers, listVars,
                 arclist, ask>>

(* plugin::destroy when the host unloads the DLL with no call in progress: *)
(* m_arclist.clear deletes the archives left open, m_clist.clear the slots *)
(* whose count is then zero.                                               *)
Destroy ==
  LET left(s) == Cardinality({t \in arclist : ref[t] = s})
      count == [s \in Slots |-> IF refcount[s] > left(s) THEN refcount[s] - left(s) ELSE 0]
      unused == {s \in Slots : status[s] # "Free" /\ count[s] = 0}
  IN  /\ \A t \in Threads : pc[t] \in {"idle", "open"}
      /\ refcount' = count
      /\ FreeSlots(unused)
      /\ readers' = [s \in Slots |-> IF s \in unused THEN {} ELSE readers[s]]
      /\ arclist' = {}
      /\ ref' = [t \in Threads |-> IF t \in arclist THEN NoSlot ELSE ref[t]]
      /\ pc' = [t \in Threads |-> "gone"]
      /\ UNCHANGED <<version, writer, listVars, arcOwner, ask>>

Terminated ==
  /\ \A t \in Threads : pc[t] = "gone"
  /\ UNCHANGED vars

-----------------------------------------------------------------------------
(* Steps of get_cache, cache::init and the tail of open_file.              *)
GetCacheStep(t) ==
  \/ GetCacheLock(t) \/ Search(t) \/ WaitReady(t) \/ Reuse(t) \/ MarkStale(t)
  \/ Miss(t) \/ Create(t) \/ CreateFail(t)

BuildStep(t) ==
  \/ InitBegin(t) \/ InitOpen(t) \/ InitScan(t) \/ InitFallback(t)
  \/ InitReady(t) \/ InitUnlock(t) \/ InitFail(t) \/ GetCacheError(t)

OpenStep(t) ==
  \/ DeleteZombies(t) \/ ArcfileInit(t) \/ GetCacheStep(t) \/ BuildStep(t)
  \/ ArchiveInit(t) \/ ArclistAdd(t) \/ ReadLock(t) \/ DropArchive(t)

CloseStep(t) == ArclistDel(t) \/ DeleteArchive(t)

HostStep(t) == BeginOpen(t) \/ CloseFile(t)

Next ==
  \/ \E f \in Files : Modify(f)
  \/ \E s \in Slots : Age(s)
  \/ \E t \in Threads : HostStep(t) \/ OpenStep(t) \/ CloseStep(t)
  \/ Destroy
  \/ Terminated

(* A call in progress runs on.  The list's lock queues its waiters in      *)
(* order, so a thread for which it comes free again and again gets it.     *)
(* Nothing obliges the host to open, to close or to unload.                *)
Fairness ==
  \A t \in Threads :
    /\ WF_vars(OpenStep(t) \/ CloseStep(t))
    /\ SF_vars(DeleteZombies(t) \/ GetCacheLock(t) \/ GetCacheError(t)
                 \/ DropArchive(t) \/ DeleteArchive(t))
    /\ SF_vars(ArclistAdd(t) \/ ArclistDel(t))

SafetySpec == Init /\ [][Next]_vars
Spec == SafetySpec /\ Fairness

-----------------------------------------------------------------------------
(* The state is well formed.                                               *)
TypeOK ==
  /\ version \in [Files -> Versions]
  /\ status \in [Slots -> {"Free", "Alloc", "Init", "Ready", "Zombie"}]
  /\ file \in [Slots -> Files \cup {NoFile}]
  /\ attr \in [Slots -> Versions \cup {0}]
  /\ content \in [Slots -> Versions \cup {0}]
  /\ aged \in [Slots -> BOOLEAN]
  /\ refcount \in [Slots -> Nat]
  /\ writer \in [Slots -> Threads \cup {NoThread}]
  /\ readers \in [Slots -> SUBSET Threads]
  /\ listOwner \in Threads \cup {NoThread}
  /\ scan \in 0 .. MaxItems
  /\ arcOwner \in Threads \cup {NoThread}
  /\ arclist \in SUBSET Threads
  /\ pc \in [Threads -> PCs]
  /\ ask \in [Threads -> [file : Files, attr : Versions] \cup {NoRequest}]
  /\ ref \in [Threads -> Slots \cup {NoSlot}]

(* Every slot counts exactly the references its users still owe it: no     *)
(* path through open_file and close_file, failing ones included, loses a   *)
(* reference or gives one back twice.                                      *)
RefcountExact == \A s \in Slots : refcount[s] = Cardinality(Holders(s))

(* A cache somebody may still touch is never deleted: not the one an open  *)
(* archive or a builder works on, not one that is locked, and not the one  *)
(* get_cache spins on, which it holds no reference to.                     *)
NoUseAfterFree ==
  /\ \A t \in Threads : ref[t] # NoSlot => status[ref[t]] # "Free"
  /\ \A t \in Threads : pc[t] \in {"wait", "check"} => status[scan] # "Free"
  /\ \A s \in Slots : writer[s] # NoThread \/ readers[s] # {} => status[s] # "Free"

(* Whoever has been handed a cache has a complete index: it was published, *)
(* and no builder is about to clear it (extract and list check the status  *)
(* and walk the blocks without the lock init writes under).                *)
GrantedIndexComplete ==
  \A t \in Threads : pc[t] \in Granted =>
    /\ status[ref[t]] \in {"Ready", "Zombie"}
    /\ content[ref[t]] # 0
    /\ pc[t] = "open" => writer[ref[t]] = NoThread

(* A ready cache whose recorded size and times are those of the file on    *)
(* disk indexes what is on disk, in every item, although attributes and    *)
(* contents are read at different moments through different handles.       *)
ReadyMeansCurrent ==
  \A s \in Slots :
    status[s] = "Ready" /\ attr[s] = version[file[s]] => content[s] = version[file[s]]

(* get_cache never spins in vain: while the status it waits on is short of *)
(* ready, another thread is inside cache::init for that very cache, at a   *)
(* point where it needs neither of the locks the spinning thread holds.    *)
WaitedForBuilder ==
  \A t \in Threads :
    pc[t] = "wait" /\ status[scan] \in {"Alloc", "Init"} =>
      \E u \in Threads \ {t} : ref[u] = scan /\ pc[u] \in {"build"} \cup Scanning

(* Once the plugin is unloaded no cache object and no count is left, the   *)
(* archives the host forgot to close included.                             *)
NothingLeft ==
  (\A t \in Threads : pc[t] = "gone") =>
    \A s \in Slots : status[s] = "Free" /\ refcount[s] = 0

(* A published index is never rebuilt or edited in place: its cache can    *)
(* only be marked a zombie, once, and then be deleted as a whole.          *)
PublishedFrozen ==
  [][\A s \in Slots :
       status[s] = "Ready" =>
         \/ status'[s] = "Free"
         \/ /\ status'[s] \in {"Ready", "Zombie"}
            /\ file'[s] = file[s] /\ attr'[s] = attr[s] /\ content'[s] = content[s]]_vars

(* Every open_file and every close_file returns: no thread spins for ever  *)
(* in get_cache or on a lock.                                              *)
CallReturns ==
  \A t \in Threads : pc[t] \notin {"idle", "open", "gone"} ~> pc[t] \in {"idle", "open"}

-----------------------------------------------------------------------------
(* What open_file and close_file promise their caller (IndexService).      *)
RequestOf(t) ==
  IF pc[t] \in Opening THEN [file |-> ask[t].file, from |-> ask[t].attr]
                       ELSE [file |-> NoFile, from |-> 0]
SessionOf(t) ==
  IF pc[t] = "open" THEN [file |-> file[ref[t]], content |-> content[ref[t]]]
                    ELSE [file |-> NoFile, content |-> 0]

Service == INSTANCE IndexService WITH
  request <- [t \in Threads |-> RequestOf(t)],
  session <- [t \in Threads |-> SessionOf(t)]

(* The cache list implements the abstract index service.                   *)
ImplementsIndexService == Service!Spec

=============================================================================
