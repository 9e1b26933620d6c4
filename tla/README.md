# A verification development for the PAXZ plugin

PAXZ is a packer plugin of Total Commander: a Windows DLL the host loads, and
whose functions it calls from several threads to list, unpack and create
archives (`.pax`, `.pax.lz4`, `.pax.zst`, and plain LZ4 or Zstandard files taken
as archives of one item). This directory holds TLA+ models of the parts of the
plugin where concurrency, failure and ordering decide whether it is correct,
the TLC configurations that check them on small instances, and proofs, checked
by TLAPS, of what holds for every value of the constants. Paths below are
relative to the repository's `src/src/`.

## Running it

    tlc -workers 2 -config MCCacheListSafety.cfg MCCacheList    # every run is listed below
    tlapm CacheListProofs.tla                               # and the other modules named ...Proofs

## 1. The system

| component | code | state it keeps | operations | hard parts |
|---|---|---|---|---|
| WCX entry points | `main.cpp` | one global `plugin`, `DllMain` | `OpenArchiveW`, `ReadHeaderExW`, `ProcessFileW`, `CloseArchive`, `PackFilesW`, setters of callbacks | called from several threads: `GetBackgroundFlags` offers background packing and unpacking |
| plugin | `wcx_plugin.cpp` | main thread id, list of open archives, list of packers, cache list, number of packers | `init`, `destroy`, `check_file`, `open_file`, `close_file`, `pack_files` | the exits of a failed open; unloading with archives left open |
| cache list | `wcx_cache.cpp` 685-922 | array of cache objects, a reference count for each, one lock | `get_cache`, `release`, `delete_zombies`, `clear` | shared by all threads; spins under its lock; stale and dead caches |
| cache | `wcx_cache.cpp` 1-668 | status, the archive's identity and attributes, blocks of items, its own lock | `init` (scan), `clear`, `get_next_file` | built by one thread while others look at its status |
| archive reader | `wcx_archive.cpp` | handle, cursor into the cache, delete-the-file flag | `init`, `list`, `extract` and one extractor per kind | errors and cancels in the middle of an output file |
| packer | `wcx_packer.cpp` | output file, frames being written, delete flag | `pack_files`, frame writers | as above; sizes known only at the end of a frame |
| progress callback | `wcx_callback.cpp` | bytes told so far, totals | `by_reading`, `by_writing`, `skip`, `reset` | 64-bit differences told in 32 bits |
| archive identity and type | `wcx_arcfile.cpp` | name, volume and file id, size and times, type | `init`, `update_attr`, `update_type`, `is_same_*` | a file changes between two looks at it |
| configuration | `wcx_cfg.cpp` | settings behind a lock, the ini file | `load_from_ini`, `copy`, `get_cfg`, setters, dialog | copied by several threads; one file for all processes of the host, read and written setting by setting |
| tar and pax codec | `tar.cpp` | none | `create_header`, `add_header`, `parse_header` | number formats, times, records that count their own length, fields that are too small |
| PAXZ frames | `paxz.h` | none | frame header, end marker | sizes and checksums |
| LZ4, Zstandard wrappers | `lz4lib.cpp`, `zstd_lib.cpp` | codec contexts | frame header walk, block calls | truncated and foreign input |
| slim reader-writer lock | `bst/srw_lock.cpp` | one word, wait blocks on the stacks of waiting threads | acquire and release, exclusive and shared | lock-free updates of a shared structure of pointers |
| mutexes, scoped locks | `bst/mutex.hpp`, `bst/scoped_lock.hpp` | | wrappers | |
| owning list | `bst/list.hpp` | linked list behind a lock | `add`, `del`, `clear` | the object's destructor runs under the list's lock |
| paths, NT calls, strings, log | `utils.cpp`, `winntapi.cpp`, `bst/string.hpp`, `log.cpp` | | | below the level of the models |

How they interact. A thread of the host calls `plugin::open_file`; it reads the
archive's attributes (`arcfile`), asks the cache list for an index of that file,
which is either one that exists (its count goes up) or one this thread creates,
adds to the list's array and then builds with the list unlocked; an `archive`
object takes the reference over, is added to the list of open archives, and the
cache is locked for reading until `close_file`. Nothing passes between threads
but this shared memory; the only other party is the file system, where any
program may rewrite an archive at any time, because the plugin opens everything
with full sharing.

What makes the core correct:

- the count of a slot is exactly what is owed to it, on every exit of every call;
- a cache is deleted only when nobody holds, locks or spins on it;
- whoever is given a cache sees a complete index that never changes again;
- an index that passes for up to date is up to date;
- a spin under the list's lock always ends, and so does every call;
- after the plugin is unloaded nothing is left;
- what is listed of an archive is what was packed: names, order, sizes, places,
  attributes, times;
- the memory of an index is read as it was written, over all block borders;
- a thread works with one configuration, not with parts of two.

`PROJECT.json` lists every component with what is modelled of it, and every
hazard with its line and the properties that would catch it.

## 2. Modules

| module | what it is |
|---|---|
| `CacheList` | `cache_list`, the life of each `cache`, and `open_file`, `close_file`, `destroy` around them |
| `IndexService` | what `open_file` and `close_file` promise, with no cache at all |
| `MCCacheList` | instances for TLC |
| `CacheListProofs` | the theorems about `CacheList` |
| `SrwLock` | the reader-writer lock of `bst/srw_lock.cpp`, one action per access to shared memory |
| `RwLock` | what a reader-writer lock promises |
| `MCSrwLock`, `SrwLockProofs` | its instances for TLC and its theorems |
| `Callback` | the progress told to the host, by writing |
| `MCCallback`, `CallbackProofs` | its instance for TLC and its theorems |
| `Extract` | `archive::list` and `archive::extract`, with the extractor of each kind of archive |
| `MCExtract`, `ExtractProofs` | its instances for TLC and its theorems |
| `Packer` | `plugin::pack_files` and `packer::pack_files`: threads that pack to one name, and the process killed |
| `PackScan` | `Packer`, and an open of the archive that reads it meanwhile: the detection of the type and the scanners |
| `MCPackScan`, `ScanProofs` | instances for TLC; the theorems about `Packer` and `PackScan` |
| `PaxHeader` | the header of a file: what `pax_encode::create_header` writes and `pax_decode` makes of it, as operators |
| `ItemStore` | the blocks of memory a cache keeps its items in, and the enumerations that read them |
| `ItemList` | what the store promises: a list |
| `ItemStoreProofs` | its theorems |
| `PaxIndex` | `PaxHeader` and `ItemStore` together: files are packed, scanned by `scan_pax_file` into the store, and enumerated |
| `MCPaxIndex`, `PaxIndexProofs` | its instances for TLC and its theorems |
| `IniCfg` | the configuration: processes that share an ini file, the dialog, threads that copy the settings |
| `MCIniCfg`, `IniCfgProofs` | its instance for TLC and its theorems |

### CacheList

One action is one step between two accesses to state that other threads can
see. Where the code holds a lock and nothing that happens meanwhile can be seen
or can interfere, the whole critical section is one action guarded by the lock
being free (`DeleteZombies`, `Release`, `ArclistAdd`). `get_cache` holds the
list's lock over many steps during which builders change statuses, so its lock
has an owner (`listOwner`) and each turn of its loop is a step.

| code | model |
|---|---|
| `m_object[i]`, `m_status` | `status[i]`; `"Free"` for a null pointer |
| `m_refcount[i]` | `refcount[i]` |
| `m_arcfile` of a cache: name and id; size and times | `file[i]`; `attr[i]` |
| the blocks of items | `content[i]`: the version that one item was read from |
| `m_last_used_time` | `aged[i]`: it lies a cache lifetime or more back |
| the cache's lock | `writer[i]`, `readers[i]` |
| `m_mutex` of the list, local `i` of `get_cache` | `listOwner`, `scan` |
| `m_arclist` and its lock | `arclist`, `arcOwner` |
| the point a thread has reached, its `arcfile`, its pointer to a cache | `pc`, `ask`, `ref` |
| `open_file` | `BeginOpen`, `DeleteZombies` (main thread only), `ArcfileInit`, `get_cache`, `ArchiveInit`, `ArclistAdd`, `ReadLock`, `DropArchive` |
| `get_cache` | `GetCacheLock`, `Search`, `WaitReady`, `Reuse`, `MarkStale`, `Miss`, `Create`, `CreateFail`, then `init`, `GetCacheError` |
| `cache::init` | `InitBegin`, `InitOpen`, `InitScan`, `InitFallback`, `InitReady`, `InitUnlock`, `InitFail` |
| `close_file` | `CloseFile`, `ArclistDel`, `DeleteArchive` |
| `destroy` | `Destroy` |

Abstractions, and why they keep what the properties tell apart:

- Locks are atomic and hand over in order of arrival. This is what `srw_lock`
  is meant to give; `SrwLock` shows the algorithm and where it falls short
  (section 5). What is said of the cache list below is said of it with a lock
  that works.
- A file is its name and id at once, so `is_same_file` is equality. Its size and
  times are a version number, so `is_same_attr` compares versions; every rewrite
  changes the size or the times.
- The type of a file is a constant of the file.
- A scan reads an archive piece by piece, so one index can mix two states of the
  file. `content` follows one item, any of them, read at any moment of the scan.
- Whether the disk, the memory or a format check fails is nondeterministic at
  each place where the code tests it.
- `aged` starts TRUE when a cache is made, because its time is then zero, and is
  cleared when a reference is given back. `update_release_time` and the decrement
  are one step: the time is read only of caches whose count is zero. The status
  write on `get_cache`'s error exit is merged with the release in the same way.
- A thread has at most one archive open at a time. `m_count` is never read.
- `Destroy` runs with no call in progress, as when the host unloads the DLL.

### IndexService

An open names a file and ends in a refusal or in a session; a session shows
each item in a state the file had between the start of the open and its end, and
does not change until it is closed. `CacheList` implements it (`Service` in
`CacheList` is the instance with the mapping; `ImplementsIndexService` the
property): a request is a thread inside `open_file` past `arcfile::init`, a
session is an archive returned to the host. That an open can be answered from a
cache another thread filled long ago, under a different request, is what the
refinement hides.

### SrwLock

The lock is one word, and a queue of wait blocks on the stacks of the threads
that wait. One action is one access to the word, or to a block that other
threads may have reached or left by then.

| code | model |
|---|---|
| `SRWLock->Ptr` | `word`: its set of bits, and the number of shared owners or the first wait block above them |
| `RTLP_SRWLOCK_WAITBLOCK` on a thread's stack | `block[t]` |
| its union of `Wake` and `SharedWakeChain` | `flag`: 0 or 1, or a thread; `Wild` when a 1 was stored over a pointer |
| `RTLP_SRWLOCK_SHARED_WAKE` on a thread's stack | `wake[t]` |
| `CurrentValue`, `NewValue` | `cur[t]` |
| the first wait block; `WakeChain`, `NextWake` while waking | `first[t]`, `after[t]` |
| `FirstWait` | `lead[t]`: the thread waits on a block of its own |
| acquire | `BeginLock`, `TryExclusive`, `LookExclusive`, `LookShared`, `CasLock`, `LockChain`, `BackOff`, `AppendExclusive`, `AppendShared`, `UnlockChain`, `WaitWord`, `WaitFlag`, `WaitLead` |
| release | `BeginUnlock`, `LookUnlock`, `CasUnlock`, `LockChain`, `Pick`, `Leave`, `Publish`, then `ReadKind`, `WakeExclusive`, `ReadNext`, `WakeShared` |

- A block is named by its thread, and keeps its values when the call returns:
  what a late access of another thread finds there is the last value, or that of
  the thread's next call, whose frame lies at the same depth of its stack.
- What a thread does to the queue while it has the contention bit is one step:
  the bit keeps others away (`ChainLockExclusive` checks that it does). So is
  filling a block nobody else has a pointer to yet.
- A thread that would follow an overwritten pointer (`Wild`) has no next step.
- Memory is sequentially consistent: every access is an interlocked operation or
  a volatile one with a full barrier on x86, for which the plugin is built.

`RwLock` is the promise: a call of `lock_exclusive` returns only when nobody else
has the lock, one of `lock_shared` only when nobody has it exclusively.

### Callback

`tell_process_data` of `wcx_callback.cpp` as the extractors of PAX archives and
the packer call it. `prevRead`, `readSize` and `tellSize` are the members;
`told` is the sum of what the host received and `step` the last difference,
before the cut to an int. `mode`, `size`, `pos` and `past` describe the caller: a
file that is copied in chunks (`BeginFile`, `Data`), ends, perhaps before its
size is reached (`EndFile`), or fails in the middle (`Fail`); a file the packer
leaves out (`BeginSkip`, `Skip`). At every call to the host the answer may be
to cancel, after which the caller may begin another file. Whether half a second
has passed, and whether the caller forces the call, are nondeterministic.
Counters wrap at `Word`.

### Extract

An archive that is open, from the host's side: it lists, skips and extracts in
any order, and another thread may meanwhile find that the file has changed and
make the cache a zombie (`MarkStale`), which `list` and `extract` look at once
per call.

| code | model |
|---|---|
| `m_cache->get_type()`, `m_open_mode`, `m_cache->get_status()` | `kind`, `openMode`, `status` |
| `m_cenum`, `m_cur_dir`, `m_cur_file` | `cursor`, `curDir`, `curFile`: places in `Items`, 0 for none |
| `m_dst_dir` is not empty | `dstDir` |
| `m_delete_out_file` | `deleteOut` |
| `hDstFile` and the file it stands for | `out`: none, open, kept or deleted |
| what was written, and for which item | `written`, `item` |
| `pos` in `extract_native` | `pos` |
| the value returned to the host | `result` |
| `list` | `List`: `ShowItem` or `EndList` |
| `extract` to the choice of the extractor | `Skip`, `ExtractBegin` |
| `extract_pax`, `extract_paxlz4`, `extract_paxzst` | `Seek`, `CreateOut`, `TellNew`, `Copy`, `Complete` |
| `extract_native` | `Seek`, `CreateOut`, `TellNew`, `NativeFrame` |
| `fin:` of `extract` | `Leave` |

- Data is counted in chunks, as much as one turn of a copy loop handles. `size`
  is `data_size`; `room` is what the archive has for the item: the bytes up to its
  end, or what the item's frame decodes to. `packed` says that there is anything behind
  the item's header: the frame extractors return with an empty file, kept, when
  `pack_size` is the header's alone (`NoContent`, `wcx_archive.cpp:528`, `:618`).
- An item with less room than its size is extracted as far as it goes, without an
  error: `extract_pax` cuts the size (`may be ERROR ???`, `wcx_archive.cpp:291`),
  and a frame that ends early ends the copy. `Whole` is defined accordingly: a file
  that is kept has everything the archive has for it.
- An LZ4 or Zstandard file is unpacked as far as it can be read and kept, as
  `extract_native` says (504). `KeptIsWhole` leaves these kinds out.
- Hidden items are those marked deleted and those whose name does not fit the
  host's header; `E_SMALL_BUF` (118) cannot be reached after that test.
- Every call of the callback may answer that the user cancelled; every read,
  write and decoding step may fail where the code tests it.
- The times and attributes given to files and directories are left out.

### Packer and PackScan

A file is a sequence of units, one for each `WriteFile` of the packer, which is
where a kill, an error or a reader can fall: the beginning, the data and the end
of a frame, the PAX frame, the END frame.

| code | model |
|---|---|
| extension and compression level: type and `m_cpr_level` | `kind`; `Framed` for a level of 0 or more |
| the file of the archive's name, its contents | `disk`, `data`; `made` counts its creations |
| `m_outFile`, `m_delete_out_file` | `owner`, `delete[p]` |
| `fn`, what is left to write for it | `next[p]`, `todo[p]` |
| `plugin::pack_files` to the packer's creation | `Check` |
| `packer::pack_files` | `CreateArchive`, then for each file `SkipFile` or `TakeFile` and `WriteUnit`; `Fail`, `Finish` |
| `packer::~packer` | `Close` |
| `arcfile::init` | `ScanBegin` (the size), `ScanType` (`update_type`) |
| `cache::init` | `ScanOpen`, `ScanItem` for each turn of a scanner, `ScanFinish`, `ScanFail` |
| `m_size`; `pos` or `read_size`; the items | `limit`, `pos`, `listed` |
| the host's process dies | `KillAll` |

`taken`, `mine`, `seen` and `broken` are history: what a packer put into the
archive, which creation was its own, what a scan began with, whether a read failed.

- A file is a directory or has a size in reads of the copy loop. A frame without
  compression has no beginning and no end (`frame_create` and `frame_close` return).
  The beginning of a Zstandard frame may have no bytes yet; its scanner demands
  the end of every frame, and cannot tell.
- The packer opens the archive with sharing for reading, a reader with full
  sharing, so an open can fall at any moment of a packing. A file deleted while a
  reader has it open is `"pending"` until the reader closes it: it can be neither
  opened nor created.
- The size is measured once, before the type; the file is closed after that and
  opened again by its name for the scan. Only the LZ4 scanner compares with the
  size, and the end of a frame of blocks is read past it.
- What the scanners check in a header frame beyond its being whole, checksums and
  the tar header, holds for what the packer writes.
- A cancel returns zero to the host, as a success does, and the file is deleted.
- An archive that cannot be read as one is shown as a stream of one item
  (`"single"`); reading that item is `Extract`'s subject. Of an LZ4 file
  `get_lz4_content_size` reads 19 bytes, more than the frame that opens a PAX-LZ4
  archive has, so a file of only that frame is refused (`IsStream`).
- There is one scan at a time: scans only read. Nothing is waited for: every loop
  goes through the files or the units, so there is no liveness to state.

### PaxHeader

Operators, no state. A file is what the system tells of it: name, size,
attributes, times. A name is an identity with its length in bytes and in wide
characters; a record is a keyword, a value and the length it announces; a time in
text is a sign, seconds and the digits behind the point. What a definition computes
is what the code computes, including what it loses:

- `Fraction`, `CodeTime`: the zeros at the end go, and the point with them; before
  1970 the fraction is dropped, because a negative number of ticks taken as unsigned
  is not below a billion (`tar.cpp:109-116`).
- `DecodeTime`: without a point, the fraction is whatever the variable held (`junk`).
- `RecordSize`: the loop of `add_param_str` that looks for a length that counts its
  own digits; `Readable` is the parser's side, which goes where the length says.
- `CreateHeader`: which records are written under a configuration, and what the
  fields of the block of the file keep: the name cut, the size capped, the time
  without its fraction.
- `HeaderSize` is what the decoder takes for the end of the header, `WrittenSize`
  what the encoder wrote: `HeadersAccepted` and `SizesAndPlaces` need them to agree.
- `Fields`, `Param`, `ParseHeader`: records override the fields, attributes are
  added to those the permissions gave.

`SCHILY.realsize` is never written by the packer (it sets the size to zero,
`wcx_packer.cpp:323`) and is left out, as is the text of the ustar fields that
nothing reads back (user, group, checksum as digits).

### ItemStore and ItemList

| code | model |
|---|---|
| the blocks from `m_root_blk` on | `blocks`: for each a function from byte positions to items; where it is not defined the block has the zeros it was filled with |
| `m_block_pos`, `m_item_count` | `pos`, `count` |
| `stReady` | `ready`: after it nothing is added, only then is anything read |
| `cache_enum` | `cursor[r]`: block and position, or nothing |
| `add_file_internal`, `clear`, `get_next_file`, `cache_enum::reset` | `AddFile` or `AddFails`, `Clear`, `GetNext`, `Reset` |

`log`, `read` and `got` are history: where the items were put, how many an
enumeration was given, and what its last call returned. `ItemList` is the promise:
a list grows at its end while it is not ready, and an enumeration is given its
items one by one. The mapping (`Listed`) reads the items at the places of `log`;
that no item is lost, skipped or overwritten is the refinement. Adding and clearing
happen in `cache::init`, before the status is ready, and `CacheList` shows that
nobody enumerates until then, so the lock of `get_next_file` is not modelled here.

### PaxIndex

An archive is a sequence of headers with the place each was written at. It is
packed by `PackFile`, and opened as it is, or after somebody ended it with two
blocks of zeros, cut it at a block, inside a header or inside a content, or damaged
a header (`Open`). Then `ScanHeader` is one turn of the loop of `scan_pax_file` with
`add_pax_info` in it; `ScanEnd`, `ScanRefuses` and `ScanFault` are its other exits;
`Again` is `cache::init` on the same cache; `Ready` publishes. `readSize` is
`read_size`, `phase` says where the scan is.

- An archive cut shorter than a block is refused, before the scan or by it, and never
  listed as empty (`AtEnd`): `cache::init` tests the size and `update_type` reads a
  block.
- A checksum that is wrong and a header that is cut are the ways an archive can be
  unreadable. Archives that other programs wrote, and GNU tar, which the code
  refuses (`TODO`, `wcx_cache.cpp:308`), are outside.
- What a block of zeros in the middle of a content would do is not: a scan is never
  in the middle of a content unless a header lied, which `HeadersAccepted` excludes.
- The name that is listed loses the `./` the packer put in front. That the code takes
  a dot off any name (`wcx_cache.cpp:321`) shows only with foreign archives.

### IniCfg

| code | model |
|---|---|
| the ini file | `hasIni`, `ini` (-1: the setting is not there), `setup`: its language and the language files |
| `m_cfg`, `m_lang` of a process | `cfg[p]`, `lang[p]` |
| `m_mutex` of `inicfg` | the guards of `TakeLock` and `BeginCopy` |
| `config` in `load_from_ini`, `m_cfg` of the dialog | `dlg[p]` |
| `init` | `Start`, then a load |
| `load_from_ini` | `BeginLoad`, `ReadKey` for each setting, `TakeLock`, `AssignField` for each field, `Loaded` |
| `show_cfg_dialog` | `Configure`, a load, `Loaded` (shows a copy), `Ok` or `Cancel`, `TakeLock`, `AssignField`, `BeginSave` (is there an ini?), `SaveKey` for each setting |
| `copy`, `get_cfg` of an archive or a packer | `BeginCopy`, `CopyField`, `EndCopy` |

- A setting is read or written by one call of the system, which is atomic; nothing
  joins two of them, so another process can come in between, and a process can die
  there (`Crash`). `ByHand` is a user with an editor.
- One thread of a process has the dialog: it is modal, and the host calls from its
  main thread. Any number of threads copy.
- `shown` and `touched` say what the dialog began with and what the user changed;
  `whole` which configurations `m_cfg` has been; `calm`, `known` and `saved` what
  stands in the ini, as long as nobody interfered. They are history.
- The ini may go between the look for it and the first setting that is saved; the
  system then creates it again.
- The debug level is a setting of debug builds only. `update`,
  `set_compression_level` and `set_lang` have no caller.

## 3. Runs

| run | instance | shows |
|---|---|---|
| `cache_safety` | 3 threads (one the main thread), 2 slots, 1 framed archive rewritten once | every safety property, the action property and the refinement |
| `cache_liveness` | 3 threads, 1 slot, a PAX archive and one of unknown type | every call returns |
| `srw` | 3 threads, one lock call each | the lock's invariants, the refinement of `RwLock`, every call returns |
| `srw_stray` | 4 threads, one lock call each | two owners at once (finding) |
| `srw_reuse` | 3 threads, two lock calls each | a new wait is ended by a late wake-up (finding) |
| `callback` | files of 20 bytes in all, a factor of 3, chunks of up to 2 | progress is neither cut, nor lost, nor told twice |
| `extract` | every kind of archive, seven items, a stream of three chunks | what is left on the disk, what is extracted, every call returns |
| `pack_scan` | 2 packers of a file of two reads, a directory and an empty file, one scan at a time | what packings leave, and what an open shows of it |
| `pack_empty` | the same | an empty last file cannot be unpacked (finding) |
| `pax_index` | up to three of six files, two configurations, archives whole, cut, ended or damaged, two enumerations | what is listed is what was packed; the store is a list |
| `pax_time` | the same | the time of a whole second is listed wrong (finding) |
| `ini_cfg` | two processes, a thread that copies, one dialog in each, one crash or change by hand | no torn copy, no lost setting |

The properties:

- `RefcountExact`, `NoUseAfterFree`, `GrantedIndexComplete`, `ReadyMeansCurrent`,
  `WaitedForBuilder`, `NothingLeft`: the six points of section 1.
- `PublishedFrozen`: a ready cache can only become a zombie, unchanged, or be
  deleted.
- `ImplementsIndexService`: the refinement.
- `CallReturns`, in three modules: no thread spins, and no extract runs, for ever.
- `WordAccounts`: the word and the counts of the queued blocks account for every
  owner and waiter, wherever a hand-over has moved the counts to.
- `ChainLockExclusive`: one thread at a time works on the queue, and has the bit.
- `CodeAssertions`: the assertions in `srw_lock.cpp` that hold.
- `ImplementsRwLock`: the refinement.
- `DeltaFits`: the branch that logs "CRITICAL ERROR" (`wcx_callback.cpp:42`) is
  never taken.
- `KeptIsWhole`: an output file that survives an extract is whole, wherever an
  error or a cancel fell.
- `ErrorLeavesNothing`: a call that reports an error has left no file, and no call
  leaves one open.
- `ExtractsListed`: what is extracted is the file the host was shown last; not a
  directory, not a file listed before, not the same file twice.
- `NoDebris`: a packing that failed or was cancelled leaves no archive, whoever
  reads it meanwhile.
- `CompleteIsListed`: an open that began after a packing succeeded shows exactly
  the files that were packed, in order, unless a read failed.
- `PaxzAllOrNothing`: a PAXZ archive shows all its items or none, so one that is
  being written, or was torn by a kill, is never taken for a complete one.
- `ListedIsWhole`: what an open shows of a compressed archive at any moment is the
  beginning of what is packed, and no item is cut.
- `NoOverrun`: items in a block are apart, and the size behind the last of them can be
  read without leaving the block.
- `IsItemList`: the refinement of `ItemList`.
- `ListedInOrder`: all files of a whole archive, the first ones of one that was cut,
  in order and under their names.
- `SizesAndPlaces`: the size of each content and where it begins; and the total with
  the header, where the size field can hold the size (section 5 says what else).
- `AttributesKept`: the attributes that were to be saved, and `readonly`, which travels
  in the permissions, and no others.
- `FractionKept`: a time since 1970 that is not a whole second is listed to the tick.
- `HeadersAccepted`: a scan refuses only what was cut or damaged.
- `NoTornCopy`: a copy of the configuration is one that was in memory as a whole.
- `LoadsWhole`: a load nobody interfered with finds what the last undisturbed save, of
  any process, has written.
- `DialogKeepsUntouched`: a setting the user did not touch is not changed by OK.
- `TypeOK` of `IniCfg` says that every setting in memory is legal, whatever stands in
  the ini.
- `ToldKeepsUp`: the host was told at most what was processed, less than
  `tell_size_factor` short of it, and all of the files before the current one.

Bounds. `MaxItems = 3` leaves two slots (the code's array has 1024 and starts at
1). With two slots one file can have two caches at once, a stale one in use and a
fresh one, and with three threads the list can be full. `MaxVersion = 2` is one
rewrite; a rewrite can fall between any two steps, and two rewrites differ from
one only in versions nobody compares. A third thread is needed for a spin on a
cache while another thread closes. A framed archive has the longest path through
`init`: the fall-back is the only step that takes a status back. Threads `t1` and
`t2` are interchangeable: they are model values that no definition names; `main`
is not in the symmetry set. The liveness run uses no symmetry.

For the lock, three threads with one call each are enough for a queue of two
blocks behind an owner, for shared waiters that join a block, for a shared and an
exclusive block in either order, and for every hand-over (every action fires).
They are also as many as the lock can be checked with: a fourth thread, or a
second call on the same stack, breaks mutual exclusion (`srw_stray`,
`srw_reuse`). `SrwLockProofs` shows that nothing else does.

For the callback, the sizes keep the order they have in the code: `Chunk`, the
buffer of a copy loop, is not more than `Factor`, which is at most half of
`IntMax`. Twenty bytes hold several files of several factors each.

For `extract`, the seven items are a directory, a file of two chunks, a file with a
name too long, one the archive has too little data for, an empty one, one
that lies beyond the end, and one of which only the header is packed: each takes
another way through the extractors. Two
chunks put an error or a cancel before, between and after the data. Three chunks
of a stream are a frame, a frame after it, and trash.

For the packers, a file of two reads has a kill between its blocks; the
directory and the empty file have no content, so that headers follow each other
and one ends the archive. Two packers are enough for a creation to fall between
the test and the creation of another, and a second archive under the name a scan
has begun with. Every one of the three kinds is an initial state.

For the index, six files stand for the borders of the format: records that fill one
block exactly, a length that becomes a digit longer by counting itself, a name that
fills its field, a size the field cannot hold, a file of which the system knows
nothing, a directory. Any three of them, in any order and repeated, put every one
first, in the middle and last. Scaled down are the size field (4 octal digits for
11), the fraction of a second (2 digits for 7), the beginning of 1970 (200 seconds
after time zero, which leaves times before it) and the blocks of the store (400 bytes
for a megabyte, so that three items need up to three blocks and two can fill one to
the last byte that is allowed). The sizes of the link, the item's head, the slack and
the size field are the code's.

For the configuration, two processes are what a save and a load need to meet; all
settings are there, with one value by hand that the dialog does not offer and one
with unknown flags; the user picks, types and leaves settings alone. Each process
shows one dialog after its first load; `MaxFaults = 1` puts a crash or a change by
hand between any two steps.

Fairness. A call in progress runs on (`WF` on a thread's steps inside a call):
the host's threads are scheduled. A step that takes a lock is strongly fair: the
lock hands over to its waiters in order of arrival, so a thread for which it
comes free again and again gets it. Nothing obliges the host to open, close or
unload, so `BeginOpen`, `CloseFile` and `Destroy` have no fairness; `Modify` and
`Age` neither. In `SrwLock` a thread inside a lock or unlock call runs on, and one
that owns the lock releases it, because the plugin locks through scoped locks
that end with their block; a thread need never call again. An `extract` in progress runs on: it reads a
finite archive, and the host answers each call of its callback.

## 4. Proofs

`CacheListProofs` proves every safety property above for any finite set of
threads, any set of files of any types, and any number of slots and versions,
from three assumptions on the constants (`ThreadsAssumption`,
`FilesAssumption`, `BoundsAssumption`).

None of the properties is inductive alone. `IInv` is the conjunction of
`TypeOK`, `RefcountExact` and eight parts:

- `ControlInv`: which of `ask`, `ref`, `listOwner`, `scan`, `arcOwner` are set at
  which step of a thread;
- `LiveInv`: a slot somebody refers to or waits on is not free, and a free slot
  holds nothing;
- `BuildInv`: a slot under construction has one builder, its only referrer, and
  its status is the one that step of `init` leaves;
- `UnreadyInv`: a status short of ready means that there is such a builder;
- `GrantInv`: what a thread past `get_cache` was given is complete;
- `AskInv`: the attributes a thread asked for are not newer than the file, and
  what it holds is not older than what it asked for;
- `LockInv`: the owners of a cache's lock are at the steps that hold it;
- `GoneInv`: what is left after the unload.

`InitIInv` and one lemma per action and part give `Invariance`; each safety
property follows from `IInv`. The refinement theorem (`Implementation`) has one
lemma per action: most stutter, `ArcfileInit` maps to `Ask`, `ReadLock` to
`Grant`, the error exits to `Refuse`, `CloseFile` to `Close`, `Destroy` to
`Unload`.

| theorem | states |
|---|---|
| `Invariance` | `SafetySpec => []IInv` |
| `TypeCorrect`, `ReferencesCounted`, `NeverFreedInUse`, `IndexesComplete`, `ReadyIsCurrent`, `SpinHasBuilder`, `UnloadLeavesNothing` | the invariants of `cache_safety` |
| `PublishedStaysFrozen` | the action property |
| `Implementation` | the refinement |

`SrwLockProofs` proves the safety properties of `srw` and the refinement of `RwLock` for
any finite set of threads and any number of calls (`ThreadsAssumption`: no thread is the
null pointer, the overwritten one or a number). In general they are false: section 5
shows two races that break the lock. So the theorems are about `RegularSpec`, the
behaviours in which neither of two steps occurs:

- a `BackOff` while some thread has the contention bit in earnest (`NoStrayUnlock`);
- a `BeginLock` of a thread whose last block or record a waker has still to look at
  (`NoReuse`). `Touched(u)` is what a waker `u` still looks at: the block it took, and
  the records it can reach from where it stands in their list.

Every other interleaving is in `RegularSpec`, with wait blocks used again by the next
call, back-offs, and threads that leave before they are woken. The behaviours of `srw`
are all regular: with three threads that call once neither step can occur. `MCSrwLock`'s
other runs are each a behaviour that takes one of them. What the theorems add to the
runs is that there is no third way: whenever the lock fails, for any number of threads,
one of these two steps came first.

None of the properties is inductive: they say nothing of what hangs on the word. `Inv`
says that there are two functions, `home`, the queued block at which a thread waits (its
own, or one it joined), and `rank`, the order of the queued blocks, with

- `Places`, `Front`, `Links`: different ranks, the word points to the first block, that
  block to the last, each other one to the one ranked next, which is exclusive if it is
  behind a block of shared waiters; behind shared owners the first block is exclusive;
- `Waiters`, `Blocks`: who waits at a block has not been woken; a block of shared waiters
  counts them, its list begins and ends among them and does not leave them;
- `Counts`, `OneOwner`: the word, or the first block behind shared owners, counts those
  who share the lock and wait nowhere; at most one thread owns it alone, then nobody
  shares it, and if the bits say so there is one;
- `ChainLock`, `Handing`: one thread at most has the contention bit in earnest; the value
  a release is about to give away fits the first block, and the next has its count and end;
- `Filled`: a thread has set up its own block before it shows it to others, and a value it
  is about to exchange against was not contended;
- `Phases`, `Wakers`: which calls can stand where; whom a waker still looks at waits
  nowhere, and if it is in a lock call it stands at the wait loop or behind it.

A step that queues a block extends both functions, one that gives the lock away takes the
first block from `home`, all others leave them. The invariant, with the functions computed
from the blocks, was checked by TLC before it was proved: three threads with one and with
two calls, four threads with one, each without the two steps. `Accounts` needs that the
pointers from the word lead to exactly the threads with `home[x] = x` (`QueueIs`, by the
least gap of ranks), and counts the waiters one by one against the blocks' numbers
(`CountedJoined`, a bijection).

| theorem | states, for `RegularSpec` |
|---|---|
| `Invariance` | `[]Inv` |
| `MutualExclusion` | `WokenOwns` |
| `TypeCorrect`, `Accounts`, `ChainLocked`, `Assertions` | the invariants of `srw` |
| `Implementation` | the refinement of `RwLock` |

`CallbackProofs` proves the properties of `callback` for files of any sizes, any
number of them, and any constants with `2 * Factor <= IntMax`, `Chunk <= Factor` and
totals below `Word` (`SizesAssumption`). The argument: what the callback counted is
what its caller reported, what it believes was told was told, and less than a
factor is untold (`Accounting`); a caller stays within its file (`Room`). Then a
call that reports at most a factor more has a difference of less than two factors
(`TellStep`), which fits an int, and a new file leaves nothing untold.

| theorem | states |
|---|---|
| `Invariance` | `Spec => []IInv` |
| `TypeCorrect`, `NeverClamped`, `HostKeepsUp` | the invariants of `callback` |

`ExtractProofs` proves the invariants of `extract` for any sequence of items of any
sizes and a stream of any length (`ItemsAssumption`). `KeptIsWhole` needs to know
where the flag and the file are at each point of a call: `Stage` says that the
output file is open, belongs to the current item and is to be deleted from its
creation to the last chunk, unless the archive is a stream, and that no more is
written than there is; `Shown` that the current file is the one listed last.
Every way out of `extract` is one lemma (`LeaveStep`), whose hypothesis is that a
file left open without an error and without the flag is whole.

| theorem | states |
|---|---|
| `Invariance` | `SafetySpec => []IInv` |
| `TypeCorrect`, `NoTruncatedFile`, `FailureCleansUp`, `OnlyListed` | the invariants of `extract` |

`ScanProofs` proves `NoDebris` for any number of packers and any list of files, with
opens and kills at any moment. `OwnerInv` ties the flag to the file: who packs owns
the last creation and has the flag set; who is leaving owns it still, unless it was
never created, and the flag is cleared exactly if the packing succeeded. `Creations`
keeps the creations of different packers apart.

| theorem | states |
|---|---|
| `Invariance` | `Spec => []IInv` |
| `NothingLeftBehind` | `NoDebris` |

The same module proves what an open shows of such an archive, for any number of packers
(a finite set: their creations are counted), any list of files of any sizes, and all
three kinds of archive. None of the three properties speaks of how far a packer is, so
the invariant has to say what the bytes in the file are at every moment, and where a
scan stands in them. For the packer that made the file there is (`Single`: exactly
one), there are places `h` such that (`Laid`)

- `Places`: the entries of the files taken lie one behind the other, entry `n` behind
  `h[n]`;
- `Filled`: the file holds those entries, the last as far as `todo` says what is still
  to come, and the footer if and only if the packing succeeded;
- `Scanned`: a scan of this file stands at a border of entries and has listed the
  files of the entries before it; if the packing had succeeded when it began, all of
  the file is within its limit.

The places are a function that exists and not one that is computed, so that a step
only has to extend it; the step of the packer that takes the next file is the long
one. A file that was there before the last creation says nothing: `Scanned` asks that
the scan is of this creation.

| theorem | states |
|---|---|
| `ScanInvariance` | `Spec => [](IInv /\ ScanInv)` |
| `PaxzWhole` | `PaxzAllOrNothing` |
| `PackedIsListed` | `CompleteIsListed` |
| `ShownIsWhole` | `ListedIsWhole` |
| `ScanTypeCorrect` | `TypeOK` |

`ItemStoreProofs` proves the two properties of the store for items and blocks of any
sizes, any number of items and enumerations (`StoreAssumption`: the longest item and
the slack fit in a block, and the slack is not smaller than the size field). Neither
is inductive. `Logged` and `Chained` say where the items are: the first at the start
of the first block, every other behind the one before it or, when there is nothing
behind that one, at the start of the next block; `LastKnown` that `m_block_pos` is
behind the last; `Fits` that the items of a block are apart and end before the slack;
`Standing` that an enumeration stands at the item it was given last. `GetStep` then
shows that whatever `get_next_file` finds is the next place of the log. The lemmas are
about a store of any set of items that fit in a block (`Fitting`), so that they hold also
for the items a scan makes.

| theorem | states |
|---|---|
| `StoreInvariance` | `StoreSpec => []StoreInv(Items)` |
| `ItemsStayInBlocks` | `NoOverrun` |
| `StoreIsList` | the refinement |

`PaxIndexProofs` proves the properties of `pax_index` for any files, names, times,
attributes and configurations, files of any size, any number of them, and an archive that
is cut or damaged anywhere. It assumes what the code says of its constants
(`HeaderAssumption`: the ticks of a second can be told with `FracDigits` digits, and the
largest time has no more digits than a number of 64 bits), of its files (`FilesAssumption`: a
name of at most 32767 characters, at most three bytes each; times up to `NoTime`,
which is `_I64_MAX`, and sizes below it: a larger one is refused, `tar.cpp:890`) and of its blocks (`StoreAssumption`). The
argument has four layers:

- Numbers. `Shift` divides by ten again and again, so `Digits` never falls when a number
  grows and rises by at most one when it is multiplied by ten. From that, `RecordFact`:
  for a text of up to 99000 bytes the loop of `add_param_str` ends, and the length it ends
  with counts its own digits. The longest record is a path of `LongestName` bytes, which
  leaves some room. `TimeKeeps`: the digits `code_time` leaves out at the end are those
  `decode_time` puts back.
- A header. `RecordsFact`: a file's records have different keywords, and which are there.
  `SumsBounded` adds them up: they stay below `HeaderLimit`, so `HeaderFact`: what
  `create_header` writes is `Readable`, and its length is the one `add_header` computes.
- What it says. `ParseHeaderKnown` follows the parser record by record; `Known` is what the
  first `n` records have told, in closed form, and `Info` the fields that nothing has
  overridden yet. At the last record it gives `ParseFact`: name, size, attributes, and the
  times with a fraction are those of the file.
- The scan. None of the properties is inductive: they say what was listed, not where the
  scan stands. `IInv` adds `Stored` (an item of the log lies in a block, before the place
  of the next one, so that adding another leaves it), `Laid` (headers and contents lie end
  to end, each header as `create_header` makes it), `Sized` (how long the archive is after
  what happened to it) and `Scanned` (the scan stands at the header behind the last listed
  file, or at the end). `Faithful` is what holds of every listed item.

The definitions by recursion over records and digits are recursive functions; each is used
through its defining equation, after a proof that a function with that equation exists
(`Iterates`, `RestsExist`, `ValuesExist`, `SumsExist`).

| theorem | states |
|---|---|
| `Invariance` | `Spec => []IInv` |
| `IndexIsInOrder` | `ListedInOrder` |
| `ItemsSayWhere` | `SizesAndPlaces` |
| `AttributesTravel` | `AttributesKept` |
| `FractionsTravel` | `FractionKept` |
| `OwnHeadersAccepted` | `HeadersAccepted` |
| `ScanStaysInBlocks` | `NoOverrun` |
| `IndexIsList` | `IsItemList` |

The last two compose the scan with the store. `ScanItems` is the set of the items that can
be made of the files; they fit in a block because a name that is read back is the name
that was packed (`ScanItemsFit`, from `ParseFact`). Every step of `PaxIndex` is then a step
of a store of these items, or leaves the store alone (`StoreSteps`).

`IniCfgProofs` proves the four invariants of `ini_cfg` for any processes, threads,
languages, bounds and picks of the user, any lists of lifetimes below `Unlimited`, and
anything that may stand in the ini by hand (`CfgAssumption`: `Unlimited` is more than
the longest lifetime a setter lets through, as `INT_MAX` is).

- No torn copy. `CfgParts` says that `m_cfg` is whole except while it is assigned, when
  its first fields agree with the new configuration; `CopyParts` that what a thread has
  copied so far is still in `m_cfg`, because no process it belongs to can be assigning.
- Types. `Sound` adds `Values` (what is in memory, on its way there or in the dialog is
  legal), `Counts` (how often a process has loaded, by the step it is at), `Langs`,
  and `Untouched`. The settings that a user leaves alone come back from the controls of the
  dialog unchanged, and of these the box of lifetimes is the hard one: it is filled by a
  loop, which puts the lifetime that is set at its place among those of the list.
  `BoxesEnd` is an induction over that loop: either the lifetime still waits, and is less
  than what comes, or it has been put and selected (`Waits`, `Chosen`). The last turn puts
  `Unlimited`, so it was chosen (`LifetimeChosen`).
- Loads and saves. `Known`: while no process saves, the ini, read with the defaults for
  what is missing, is what the last undisturbed save wrote. `Undisturbed`: what a load
  nobody interfered with has read so far agrees with that, and what a save nobody
  interfered with has written so far stands in the ini. Neither is inductive without
  the other: a process that begins to save takes away the calm of all others.

| theorem | states |
|---|---|
| `Invariance`, `Soundness`, `IniSoundness` | `[]IInv`, `[]Sound`, `[]IniSound` |
| `CopiesAreWhole` | `NoTornCopy` |
| `TypeCorrect` | `TypeOK` |
| `UntouchedKept` | `DialogKeepsUntouched` |
| `LoadUndoesSave` | `LoadsWhole` |

Inductions over numbers (the box of lifetimes, the places of entries) are over sets: the
least element of the set of counterexamples (`SetInduction`, from `WFMin` of the
library), because a theorem that takes a predicate as a parameter cannot be used by the
provers here.

Only model-checked:

- every `CallReturns`, which is liveness;
- the safety of `SrwLock` without the hypothesis of `RegularSpec`: it holds for the three
  threads and one call each of `srw`, and is false for more (`srw_stray`, `srw_reuse`);
- `PackedExtracts`, `TimesKept` and, without that hypothesis, `WokenOwns`: they are false.

## 5. What the runs found

`AcquireWaitBlockLock` (`bst/srw_lock.cpp:159-180`) sets the contention bit first
and looks afterwards whether there is still a wait block; if there is none it
takes the bit back.

- Meanwhile the bit is in a lock that is not contended, where the fast path of a
  release reads it although it asserts that nothing but the owned bit is set
  (548-551).
- Taking it back is a plain clearing of the bit. If the word has been exchanged in
  between for one that points to a new wait block, and another thread has set the
  bit there, it is that thread's bit that goes. Two threads then work on the queue
  at once, a block queued by one is dropped by the other, and two waiters leave as
  exclusive owners (`srw_stray`).

`ReleaseWaitBlockLockExclusive` (82-126) gives the word away and then wakes the
block's waiter, which may have seen the new word and returned already. If that
thread has queued again, at the same place of its stack, the late wake-up ends
its new wait while somebody else owns the lock (`srw_reuse`).

Both need several threads of the host inside the lock within a few instructions
of each other.

An archive without compression ends after its last file, without blocks of
zeros. If that file is empty, its data position is the archive's size, which
`extract_pax` takes for an error (`wcx_archive.cpp:285`, `pack_empty`).

`decode_epoch_time` (`tar.cpp:743-754`) adds `nsec`, which `decode_time` sets only if
the text has a point. The time of a whole second is written without one, so it is
listed, and given to the extracted file, with a fraction that was left on the stack
(`pax_time`).

Seen in the models, with no run of their own:

- `cache::init` starts with `clear()`, which stores `stZombie`; a second open in that
  moment does not wait for the index, as `wcx_cache.cpp:813` means it to, but builds a
  duplicate. The safety properties hold all the same.
- `archive::extract` ORs `E_EREAD` into every error (`wcx_archive.cpp:218`): `E_EOPEN`
  becomes 31, which is no code of `wcxhead.h`, and `E_ECREATE` becomes `E_EREAD`.
- `plugin::pack_files` tests that the name is free (`wcx_plugin.cpp:161`), and
  `packer::pack_files` creates the file later, replacing what is there: a second
  packing that passed the test earlier replaces an archive the first has finished.
- For a file the size field cannot hold, the total of header and content is computed
  from that field (`wcx_cache.cpp:406`), so the packed size that is listed is wrong.
- A lifetime typed into its box has no selection and becomes one minute
  (`wcx_cfg.cpp:458`, `:661`).

## 6. Plan, and what is not modelled

Done: `CacheList` and `IndexService` with proofs, `SrwLock` and `RwLock` with proofs,
`Callback` and `Extract` with proofs, `Packer` and `PackScan` with proofs, `PaxHeader` and `PaxIndex`
with proofs, `ItemStore` and `ItemList` with proofs, `IniCfg` with proofs.

Left: names and ids of files told apart in `CacheList`, for caches matched by id after
a rename and opened by name.

Not modelled, and why:

- archives that other programs wrote: entry types, global headers, frames with other
  flags. The code reads a few forms of them and refuses the rest; what matters is
  how much of the format it takes, for which there is nothing here to compare with;
- the looks and texts of the settings dialog, logging: output only;
- `bst/string.hpp`, `bst/memory.hpp`, `utils.cpp`, `winntapi.cpp`: containers and
  system calls, below the level of these models;
- `main.cpp`: each entry point is one call of the plugin, modelled as that call;
- LZ4 and Zstandard themselves, `fake_ntdll/`, `build/`, `extlibs/` and `res/`:
  libraries, declarations, build files and resources. `fake_ntdll/ntstatus.h` alone,
  a list of constants, is most of the repository's lines.
