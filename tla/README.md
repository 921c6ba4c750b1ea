# TLA+ models of monofs

This directory holds TLA+ specifications of the monofs code under `src/`, and the TLC configurations that check them. `PROJECT.json` lists:

- the components;
- the runs and their expected outcome;
- the mutants that show each checked property can fail;
- which definition models which source lines;
- the findings and the hazards.

## The system

monofs is a FUSE file system. It has these parts.

| Part | Source | What it does |
|---|---|---|
| Record codec | `src/kvstore/record.go` | A log record is `flags(1), key length(4), value length(4), key, value, crc32(4)`, little endian (13 bytes of metadata). `Read` reads `maxRecordSize+13` bytes at the file position and decodes them. |
| Record scanner | `src/kvstore/scaner.go` | A `bufio.Scanner` whose split function decodes one record at a time from a buffer of `((max+13) % 4096 + 1) * 4096` bytes. |
| Ordered index | `src/kvstore/index.go` | A btree from key to a 4-byte little-endian offset. |
| KV store | `src/kvstore/kvstore.go` | An append-only log in one `*os.File`, plus the index. `Put` and `Delete` (`set`) take the write lock, seek to the end, write a record and update the index. A tombstone removes the key from the index. `Get` reads the index *without* the lock, then `recordAt` seeks and reads under the *read* lock. `RebuildIndex` scans the log at start-up. |
| File handle and data engine | `src/fs/file/file.go`, `fileEngine.go` | Each open file gets an `FsFile` backed by its own `KVStore` of 4 KiB blocks (`maxRecordSize` 8192). `WriteAt` only fills an in-memory buffer. `ReadAt` runs `PickBlocks` and `AllocateBlocks` and returns 0 bytes. |
| Inode and handle layer | `src/fs/fileoper.go` | The FUSE handlers for files, links and handles. They use the metadata database, the per-inode hash lock `fsHashLock`, and the handle map `fs.fileHandles`. |
| Metadata database `fsdb` | not in `src/` | The entry store `(parent, name) -> inode` and the attribute store `inode -> attributes`. The models use it as described in spec.md 4.F. |
| Inode cache `monocache` | not in `src/` | spec.md 4.E |
| Stat server | `src/monoserver/stat/server.go` | `Start` listens, builds TLS credentials from `--cert_dir` (or insecure ones under `MONOFS_DEV_RUN`) and serves a gRPC `Stat` that returns capacity numbers. |
| Command line and mount | `src/main.go` | Checks the flags. In development mode with no `--statAddress` it picks a port with `getFreePort` and starts the stat server on a goroutine. Then it connects to the stat address, mounts through the worker and waits. Every error is `log.Fatalf`. |
| Protobufs | `src/proto/` | Generated code. |

How the parts interact:

- The kernel sends one request per FUSE operation. jacobsa/fuse serves each request on its own goroutine.
- Before a directory-changing request reaches monofs, the kernel's VFS has already:
  - looked up the names;
  - taken the lock of the parent directory (both parents for a rename).
- The handlers update `fsdb` under `fsHashLock(parent)`.
- Create and open build an `FsFile` and store it in `fs.fileHandles` under `op.Handle`. The kernel echoes that handle id in every later request on the file.
- An `FsFile`'s engine is a `KVStore`. The KV store's concurrency is only the goroutines of one process, sharing one file descriptor.

## Modules

| Module | Models |
|---|---|
| `KVStore.tla` (`MCKVStore.tla`) | the KV store's concurrency: locks, shared file position, crashes, rebuild |
| `KVMap.tla` | what the KV store promises: an atomic map |
| `RecordLog.tla` (`MCRecordLog.tla`) | the KV store's byte layout: record sizes, offsets, the scanner buffer |
| `RecordCodec.tla` (`MCRecordCodec.tla`) | one record at byte level: `Encode`, CRC-32, `Decode`, `Record.Read`, under bit rot |
| `Startup.tla` (`MCStartup.tla`) | `main` and the stat server's goroutine at start-up |
| `MonoFS.tla` (`MCMonoFS.tla`) | the FUSE handlers over `fsdb` and the handle map |

### `KVStore.tla`: the KV store, index, scanner and record reads

State:

- `log` is the file: a sequence of records. Each record is whole (`key`, `val`, `tomb`) or `broken`, the bytes of a short write.
- `index` maps key to log position.
- `filePos` is the shared position of `kv.file`. It is `Unknown` while a writer's append is in flight.
- `writer` and `rlocked` are the `RWMutex`.
- `up` and `crashes` model the process.
- `pc`, `req` and `off` are the per-goroutine program counters, requests and offsets.
- `res` holds the value each `Get` returned, or `Listed` when a `Search` returned.
- `items` holds the offsets a `Search` still has to read, and `found` the values it has read.

Two history variables record what the code should deliver:

- `kv` is the map that the acknowledged Puts and Deletes define.
- `seen` is, for each Get, every value its key held while the Get was running. This is the linearizability witness.
- `snap` is, for each Search, the values its range held in `kv` when it read the index.

Actions, with the code lines they model:

| Action | Code |
|---|---|
| `Lock` | `set` lines 59-61 |
| `WriteRecord` | lines 62-74: seek to the end, then a write that succeeds, fails or is short |
| `IndexUpdate` | lines 75-79: a tombstone deletes the key, a Put adds its offset |
| `GetLookup` | `Get` lines 46-51: the unlocked index read. A missing key returns `ErrItemNotFound`. |
| `GetRLock`, `GetSeek`, `GetRead` | `recordAt` and `Record.Read`. Reading at another goroutine's position gives another record, an error, or the `Decode` panic, which ends the process. |
| `SearchLookup` | `Search` lines 135-137 and `Index.Search` (index.go 60-77): the ascending or descending offsets of the keys from the pivot, read from the index without the lock |
| `SearchRead` | lines 138-147: `recordAt` for each offset in turn, taking and releasing the read lock each time. The first error ends the Search. |
| `Crash` | the process can die at any step |
| `Restart` | `NewKVStore` plus `RebuildIndex` (lines 90-113) |

`ScannedPrefix` is the scanner's `split`. `RebuildIndex` is the index the scan builds: the last offset of every key in the scanned prefix, tombstones included, as line 107 does.

`Restart` is the start-up `kvstore_test.go` performs: a new `KVStore` on the same file, then `RebuildIndex`. It is the only caller of `RebuildIndex` in the repository; the data engine (`fileEngine.go:22`) opens its store with an empty index. The recovery runs check the store's contract for a caller that rebuilds.

### `KVMap.tla`: the abstract map, and the refinement

`KVMap` is what spec.md 4.D promises a caller:

- `store` maps each key to a value or `NotFound`.
- `pending` holds each client's call in progress.
- `Call` starts a Put or Delete.
- `Commit` applies the call at one instant and returns nil.
- `Abort` returns an error and leaves the map unchanged.

`KVStore` instantiates it as `AbstractMap`, with this refinement mapping:

- `store` is `KVMapView`, the value Get yields for each key on an idle store;
- `pending` is `KVMapCalls`, the Put or Delete each writer is running.

`ImplementsKVMap == AbstractMap!Spec` is checked as a `PROPERTY`. Under the mapping:

- `Lock` is a `Call`;
- `IndexUpdate` is a `Commit`;
- a failed or short `WriteRecord` is an `Abort`;
- every other step is a stutter.

### `RecordLog.tla`: sizes, offsets and the scanner buffer

One goroutine. Concurrency is `KVStore`'s subject; this module is about arithmetic.

State:

- `log` is the file: a sequence of `[key, vlen, tomb]`.
- `index` maps key to a byte offset, `OffsetBits` wide.
- `phase` is `open`, `scanning` (inside `RebuildIndex`) or `panicked`.
- `sc` is the `bufio.Scanner` (`base`, `start`, `end`, `eof`) plus `RebuildIndex`'s running offset `off`.
- `got` is what the last `Get` returned.

Definitions and actions:

- **`RawSize`** is `Record.RawSize`: 13 + key length + value length.
- **`StartOf(n)`** is the byte offset of record n+1, a `FoldLeft` over the sizes.
- **`DecodeFits(r, capacity)`** is `Record.Decode`'s slice bound. Decode slices `data[:valEndPos+4]`, which panics when the slice's capacity is shorter than the record.
- **`Set`** (Put/Delete) stores `ToOffset(FileSize)`, the `uint32` of the end-of-file offset.
- **`Get`** is `recordAt` and `Record.Read` into a `maxRecordSize+13` buffer. `ReadOutcomes` is the set of results:
  - EOF past the end of the file;
  - CRC error or panic at an offset that is not a record start;
  - panic for an oversized record;
  - otherwise the value.
- **`Restart`** is a new process: `NewKVStore` and `RebuildIndex`.
- **`ScanFill`** is `Scan` reading into the buffer when no unread byte is left. It first moves the unread bytes to the front when the buffer is full or more than half consumed, as `bufio` does. A read of 0 bytes is EOF.
- **`ScanSplit`** is `split` plus the loop body of `RebuildIndex`:
  - a whole record is indexed at the running offset, which then advances by its size;
  - a record cut by the buffer end panics in `Decode`.

TLC's integers are 32-bit signed, so `2^32` cannot be computed. `OffsetBits` is therefore a constant, 32 in the code, and 16 or 30 in the runs.

### `RecordCodec.tla`: one record at byte level

A record is a sequence of bytes, built the way `Record.Encode` builds it.

- **`ChecksumIEEE`** is `crc32.ChecksumIEEE`: the reflected table-driven CRC-32 with polynomial `0xEDB88320`. TLC's integers stop at `2^31-1`, so the 32-bit register is held as its four bytes. `MCRecordCodec` checks the standard value: the CRC of `"123456789"` is `0xCBF43926`.
- **`Encode`** writes flags, the two lengths, key, value and the CRC of all of them.
- **`Decode`** reads the two lengths and slices the buffer by them, with no bounds check, then compares the CRC. An end past the buffer is an index-out-of-range panic.
- **`Read`** is `Record.Read`: a zero-filled `maxRecordSize+13` buffer, filled from the file at the position, then decoded.
- The flag helpers keep their `int8` type. `NewRecord` ignores its flags argument. `Tombstoned` is a bit position, so a tombstone's flag byte is 2.

The state machine is one store file:

- `Set` is `set`: it appends the encoded record and updates the index.
- `BitRot` flips one bit of the file.
- `Get` reads the record at the key's offset with `Read`.

### `Startup.tla`: `main` and the stat server

Two goroutines and the host:

- **main** (`MainParse`, `MainAddress`, `MainConnect`, `MainWorker`, `Unmount`) follows `main()`. Each of its `log.Fatalf` calls is the action `Fatal`, which ends the whole process. `getFreePort` is the set of free ports. The port it returns is free again, because the function closes its listener.
- **the stat server's goroutine** (`SrvListen`, `SrvCreds`, `SrvServe`) follows `Server.Start`. `main.go` 92-94 makes any error it returns fatal.
- **the host:** `OtherBind` is another process taking a free port. `StatFS`, `Stat` and `StatFails` are the kernel's statfs, the server's answer, and the client's error when nothing serves the port yet.

The flags are chosen in `Init` from every combination of:

- `--dev`;
- `--mount_point`;
- `--statAddress`;
- `MONOFS_DEV_RUN`;
- five states of `--cert_dir`: unset, no CA file, a CA file with no certificate, a bad key pair, and good.

The worker, the stat client and the FUSE mount are not in `src/`. Their calls succeed or fail.

### `MonoFS.tla`: the inode and handle layer over `fsdb`

State:

- `dentry` (fsdb dstore) and `attrs` (astore), holding each inode's kind and `Nlink`;
- `nextId`, the inode allocator;
- `fileHandles`, the map `fs.fileHandles` from handle id to `FsFile` (`ino`, `written`);
- `kfiles`, the kernel's open files: the inode each one opened and the handle id the handler returned;
- `inMap`, the access to `fs.fileHandles` each goroutine has in progress, and the errno it will return;
- `req`, the request each goroutine serves;
- `hung`, the directories a hung Rename keeps locked;
- `moving`, the inode a Rename has deleted and will add back;
- `last`, the errno of the last answer.

There is one action per handler:

- `CreateFile`, `CreateLink`, `CreateSymlink`, `ReadSymlink`, `Unlink`, and `RenameDelete` and `RenameAdd` for the two halves of `Rename`;
- `OpenFile`, `ReadFile`, `WriteFile`, `FlushFile`, `SyncFile` and `ReleaseFileHandle`.

Helpers and the kernel's side:

- `MkDir` and `RmDir` are in `spec.md` 4.H, but their source is not in the repository. They are modelled from the spec.
- `Issue` gives a goroutine a request. The kernel sends nothing on a file whose open or release is in flight.
- `KernelAdmits` is what the VFS has already checked.
- `KernelRefuses` answers a request that fails those checks (ENOENT, EEXIST, ENOTDIR...).
- `ReadAtResult`, `AllocateBlocks` and `PickBlocks` are `FsFile.ReadAt` and the engine calls it makes. A read whose length is smaller than its offset is an error, which the kernel gets as EIO. Otherwise `PickBlocks` gives the first and last block, and `AllocateBlocks` gives each a zeroed buffer: nothing calls `WriteBlock`, so the engine's store is always empty.
- `NewFsFile` is `monofile.New`: an `FsFile` with no data, over a newly opened store whose index is empty.
- `WriteAt` is `FsFile.WriteAt`.
- `OpHandle` is `op.Handle` as the handlers leave it: 0, because no handler assigns it.

The VFS holds the parent directory locks around a handler, so a handler is one atomic step. `fsHashLock` is then always free when the handler takes it.

A handler that touches `fs.fileHandles` is different. The map has no lock, so the handler ends in two steps:

1. The handler's own step begins the access (`BeginMapAccess`).
2. `EndMapAccess` ends the access and answers.

Between the two, other goroutines run, and the handler's directory stays locked.

Rename is the other exception, and takes two steps, as the code does:

1. `RenameDelete` (lines 157-169): under the old parent's `fsHashLock`, `GetInode` and `DeleteInode`, which remove the entry and the attribute row. Then it unlocks the old parent, and the goroutine keeps the inode in `moving`.
2. `RenameAdd` (lines 175-188): under the new parent's lock, `AddInode` of the saved inode with its new parent and name.

Between the two steps the kernel still holds both parent directories, but any other name of the inode, and any request by inode id, sees the inode gone. After `RenameAdd`, the `defer fs.fsHashLock.Lock(op.NewParent)` blocks forever, so the goroutine is hung. Its directories then stay locked, and the requests that need them wait.

## Properties

| Property | Module | What it says |
|---|---|---|
| `GetLinearizable` | KVStore | A Get returns a value its key held at some moment during the Get. |
| `IndexView` | KVStore | While the process is up, the index yields exactly the last acknowledged Put or Delete of every key, across crashes and rebuilds. |
| `ImplementsKVMap` | KVStore | Refinement: the index, seen through Get, behaves as `KVMap`. It changes only when a Put or Delete returns nil, by that call's effect. |
| `RebuildScansWholeLog` | RecordLog | Action property: `RebuildIndex` ends only by returning, after the scanner consumed the whole file. |
| `DentriesResolve` | MonoFS | Every entry in a directory no handler holds names an inode with attributes (spec.md 4.F invariant 1; spec.md 5 and 9 on Rename's window). |
| `NlinkCountsNames` | MonoFS | `Nlink` of a file or symlink equals the number of entries naming it. |
| `HandlesResolve` | MonoFS | The handle id of every open file names that file's `FsFile`. |
| `HandleTableExclusive` | MonoFS | No goroutine accesses `fs.fileHandles` while another writes it. |
| `SearchSnapshot` | KVStore | A Search returns exactly the values its range held when it read the index, ascending or descending as asked. |
| `ReadFailsCleanly` | RecordCodec | A `Get` of a damaged record returns an error and never panics (spec.md 4.A, and section 8 invariant 1). |
| `StatServerStarts` | Startup | Liveness: the stat server `main` starts either serves or ends the process (spec.md 6). |

Each module also has one type invariant, `TypeOK`.

## Runs

| Run | Expect | Bounds | Shows |
|---|---|---|---|
| `kv_online` | pass | 1 reader running Get and Search, 2 writers, 2 keys, 2 values, ok/fail/partial writes, 3 records, no crash | A Get is linearizable against two writers. A Search returns its range as of its index read. The store implements `KVMap`. About 414k states. |
| `kv_recovery` | pass | 2 readers, 1 writer, Puts only, ok/fail writes, 3 records, 2 crashes | `IndexView`: the rebuild restores every acknowledged Put, including a Put whose record reached the file before the crash. Two readers let the `Decode` panic end the process mid-Get. |
| `log_layout` | pass | 2 keys; value sizes 2027, 8171 and 8200; 4096-byte scanner buffer; 4 records; put, delete, get | `TypeOK` only. It is the passing run of the byte-level actions that `log_scan_buffer`'s trace uses, after Puts, Deletes, oversized records, Get panics and rebuilds whose scans cross the buffer end both on and off record boundaries. |
| `kv_shared_offset` | violation | 2 readers, 1 writer | `GetLinearizable` fails: a Get reads at the position the other Get seeked. |
| `kv_rebuild_tombstone` | violation | put, delete, 1 crash | `IndexView` fails: a Delete is undone by the rebuild. |
| `log_scan_buffer` | violation | the data engine's sizes: `maxRecordSize` 8192, 4096-byte blocks, 8-byte keys; 14 Puts | `RebuildScansWholeLog` fails: the 14th record crosses the 57344-byte buffer's end and `Decode` panics. |
| `fs_tree` | pass | 2 goroutines, 2 names, 1 file, 3 inodes; every request kind, rename and link included; reads at offsets 0 and 2; `monofile.New` may fail | `TypeOK`, with every handler and both steps of Rename fired. About 2.4M states. Deadlock is not checked: every rename hangs its goroutine, so with bounded goroutines the system stops. |
| `fs_handle_race` | violation | 2 goroutines, create, open, release | `HandleTableExclusive` fails: a create and a release write the map at once. |
| `fs_rename_window` | violation | 1 goroutine, 3 names, 3 inodes; mkdir, create, link, rename | `DentriesResolve` fails: mkdir a, create b, link a/b to it, then the first step of renaming b to c leaves a/b naming an inode with no attribute row. |
| `fs_hardlink_unlink` | violation | 1 goroutine, 2 names; create, link, unlink | `NlinkCountsNames` fails: create a, link b, unlink a leaves two names on an inode of `Nlink` 1. |
| `codec_bit_flip` | violation | `maxRecordSize` 8; keys `k`, `k2`; values `v`, `00 ff`; 2 records; 1 bit flip | `ReadFailsCleanly` fails: one flipped bit of a key length makes `Get` panic. |
| `startup_stat_hang` | violation | every flag combination; 2 ports | `StatServerStarts` fails: a CA file with no certificate leaves a mounted process with a stat server that never serves. |

### Findings

Each finding below has a violation run.

1. **Two Gets share the file position** (`kvstore.go:120`). `recordAt` seeks and reads the shared `*os.File` under only the read lock.
2. **Deletes come back after a restart** (`kvstore.go:107`). `RebuildIndex` indexes tombstones.
3. **Large logs panic on rebuild** (`scaner.go:36`). `split` decodes a record cut by the end of the scanner buffer instead of asking for more data.
   - The data engine's 57344-byte buffer holds 13 block records of 4117 bytes.
   - The rebuild of any file with 14 or more blocks therefore panics.
   - Only `kvstore_test.go` calls `RebuildIndex`: `NewFsFileEngine` (`fileEngine.go:22`) opens its store with an empty index and never rebuilds it. No data engine reaches the panic today; the sizes are the ones a rebuild of a data engine's store would meet.
4. **Rename's window** (`fileoper.go:169`). Rename deletes the inode under the old parent's lock and unlocks it before it locks the new parent and adds the inode back. In between, a hard link in another directory names an inode with no attribute row, and a lookup through it answers ENOENT. spec.md 5 and 9 call this window a bug.
5. **Unlink of a hard-linked name keeps the name** (`fileoper.go:211`). Unlink with `Nlink > 1` only decrements `Nlink` and keeps the entry. A second unlink of the same name then deletes the attribute row while the other name still points at it.
6. **`fs.fileHandles` has no lock** (`fileoper.go:250`). Concurrent create, open and release write it together, and the Go runtime aborts on concurrent map writes.
7. **One flipped bit panics `Get`** (`record.go:84`). `Decode` slices the buffer by the lengths it reads before checking the CRC.
   - TLC's trace: Put `k`=`v` writes a 15-byte record.
   - The lowest bit of the second key-length byte flips, which turns key length 1 into 257.
   - `Get(k)` slices past its 21-byte buffer and panics.
   - spec.md section 8, invariant 1, says any single flipped bit must give `CorruptRecord`. An oversized `Put` reaches the same panic without any fault.
8. **A bad CA file is not fatal** (`server.go:67`). When `AppendCertsFromPEM` finds no certificate, `Start` returns `err`, which is the nil of the `ReadFile` that succeeded.
   - `main` sees no error and mounts.
   - The process runs on with the listener open and unserved, and every StatFS fails.

Three more code bugs were found while modelling. Each is reachable by a short sequence of calls on one goroutine, so none has a run of its own:

- **Every rename hangs** (`fileoper.go:176`). Rename defers `fsHashLock.Lock` where it means `Unlock`. `RenameAdd` leaves the goroutine hung, and `fs_tree` therefore does not check deadlock.
- **Symlinks cannot be removed** (`fileoper.go:210`). Unlink of a symlink answers success and changes nothing.
- **Every open file has handle id 0** (`fileoper.go:62, 250`). No handler sets `op.Handle`. With one goroutine and two files, TLC violates `HandlesResolve` after two CreateFile calls: the second stores its `FsFile` under the first file's handle id 0. A release of either then removes the handle the other still uses (spec.md 3 asks for distinct handle ids).

### Why these bounds are enough

- **Two keys** let one key's record be read for another's.
- **Two values** tell an old write from a new one.
- **Three records** allow a short write followed by whole records, and a value changing during a Get.
- **Two crashes** cover a crash during recovery work.
- **Record sizes** (log runs) are chosen against a one-page scanner buffer:
  - 2048-byte records tile the buffer;
  - 22-byte tombstones and 8192-byte records do not;
  - the 8200-byte value does not fit `Record.Read`'s buffer.

  The scanner code is the same for any buffer size, so one page covers its cases. `log_scan_buffer` uses the data engine's exact sizes.
- **On the filesystem side:**
  - two names and three inodes allow a directory holding a file, a hard link of a file, and a rename onto an existing name;
  - `fs_rename_window` needs a third name, so that the renamed name and its target differ from the link's;
  - two goroutines allow two map accesses at once, and a request waiting on a directory held by a hung rename;
  - one kernel file in `fs_tree` keeps the state space within five minutes; two open files are in `fs_handle_race`.
- **Codec:** with `maxRecordSize` 8, a record of a 1-byte key and a 1-byte value is 15 bytes, and `Read`'s buffer is 21 bytes. A flip can therefore move a length both inside and past the buffer. The two-byte value `00 ff` puts a zero byte and a 255 byte under the CRC. One flip is the fault spec.md section 8, invariant 1, names.
- **Start-up:** two ports let another process take one port before `getFreePort` runs and leave it the other, or take the returned port before the stat server listens. `Init` enumerates all 80 flag combinations.

### Symmetry

Symmetry over goroutines, names, files and values is used only in the safety runs. The liveness run (`startup_stat_hang`) uses no symmetry, because symmetry with liveness is unsound in TLC.

## Fairness

The KV, log and codec runs check only safety, so those specs have no fairness.

`Startup` assumes weak fairness of main's steps, of the stat server goroutine's steps and of `Stat`: the Go scheduler runs both goroutines, and gRPC serves a call it has accepted. The user's unmount, the kernel's StatFS and the other process get no fairness. `startup_stat_hang` does not check deadlock: a process that has exited, or `main` waiting in `worker.Wait`, really stops.

MonoFS checks only safety and has no fairness. Every rename hangs, so the only progress property worth stating fails at the first rename. `fsHashLock` is not modelled, so the property would not show that the other handlers release it.

## Mutants

Each property of a passing run has a mutant in `PROJECT.json`. A mutant is a variant of the mapped definition, defined just before it, with a plausible bug:

- a reader that ignores the write lock;
- the offset taken after the write;
- a tombstone indexed like a value;
- the recovery scan stopping one record early;
- `split` skipping one byte past a token;
- the id allocator skipping;
- Search's range excluding its pivot key.

## Not modelled

- **Offsets past 4 GiB:** the `uint32` wrap is modelled (`ToOffset`), but no run writes `2^OffsetBits` bytes. Below `2^OffsetBits` every index offset starts a record whatever the scan does, so no invariant about it is checked.
- **Oversized Puts:** `Put` never checks `maxRecordSize`. `log_layout` reaches the resulting `Get` panic, and `ReadFailsCleanly` states the property it breaks.
- **`Flush` and `Close` of the KV store:** `file.Sync` and `file.Close` change no state a property tells apart. `Record.ReadAt`, `Untombstone` and `ClearBit` are never called. `HasBit(n, 7)` is always false, because `1 << 7` as an `int8` is -128, but nothing asks for bit 7.
- **CreateLink's read of the target's attributes:** CreateLink writes back `Nlink+1` from attributes it read under only the new parent's lock. The kernel holds the target inode's lock across link and unlink, so no other handler changes those attributes in between, and the model keeps CreateLink one step.
- **Leaked store descriptors:** `ReleaseFileHandle` (`fileoper.go:299`) drops an `FsFile` without closing its engine's `KVStore`, and so does an open that replaces handle 0. Each open leaks one descriptor. `MonoFS` models only the resulting failure of `NewKVStore`, as the `fail` outcome of `NewFsFile`, and counts no descriptors.
- **A mount left behind:** when the stat server's `Listen` fails after `worker.Start` has mounted (another process took the port `getFreePort` released), `Fatalf` exits without unmounting. `Startup` reaches this. It does not model the kernel's mount table, so it cannot tell a clean exit from a stale mount.
- **`AllocateBlocks`' block set:** `PickBlocks` returns only the first and last block of a range. `ReadAt` discards the blocks and returns 0 bytes, and nothing ever writes a block, so no read result can be checked while that code is a stub. `ReadFile` models `PickBlocks`' error.
- **Directory renames, the inode cache and `fsdb` internals:** their sources are not in the repository.
- **`fsHashLock`:** the kernel's directory locks, which the model keeps, already serialize every handler that takes it. Rename's hang leaves it locked, and the kernel keeps both directories locked with it.
- **Rename onto an existing file leaks the replaced inode** (`fileoper.go:184`). `fs_tree` reaches it, but no run checks a no-leak invariant.
- **Progress of requests:** see Fairness.
- **`version()`, the loggers and the mount config:** formatting and logging. The stat response's numbers are constants.
- **The protobuf code:** generated.
