------------------------------- MODULE KVStore -------------------------------
(***************************************************************************)
(* The append-only record-log key-value store of src/kvstore (KVStore,     *)
(* Index, Scanner, Record).                                                *)
(*                                                                         *)
(* The file is a sequence of records; a byte offset is abstracted to the   *)
(* position of the record that starts there.  The in-memory index maps a *)
(* key to such a position.  The store's single *os.File has ONE shared     *)
(* file position, `filePos`, moved by Seek and used by Read and Write:     *)
(* readers hold the RWMutex only in shared mode while they Seek and Read.  *)
(*                                                                         *)
(* Writer threads run set() (Put and Delete); reader threads run Get.      *)
(* The process may crash at any step and restart; the restart opens the    *)
(* file afresh and runs RebuildIndex.  A Write may fail outright or after *)
(* writing part of the record (a partial write: short write + error).      *)
(*                                                                         *)
(* `kv` is a history variable: the map the store promises (the last        *)
(* acknowledged Put or Delete of each key); `seen` collects, per running   *)
(* Get, every value its key had while the Get was in progress.             *)
(***************************************************************************)
EXTENDS Naturals, Sequences, SequencesExt, FiniteSets, TLC

CONSTANTS
    Keys,           \* keys, ordered as the byte strings they stand for
    Vals,           \* values a Put may write
    Zero,           \* the value []byte{0} that Delete writes into a tombstone
    NotFound,       \* ErrItemNotFound
    Readers,        \* threads calling Get and Search
    ReaderOps,      \* operations readers issue: a subset of {"get", "search"}
    Writers,        \* threads calling Put / Delete
    Ops,            \* operations writers issue: a subset of {"put", "delete"}
    WriteOutcomes,  \* outcomes of record.Write: subset of {"ok","fail","partial"}
    MaxLog,         \* bound on the number of records in the file
    MaxCrashes      \* bound on process crashes

ASSUME Zero \notin Vals /\ NotFound \notin Vals \cup {Zero}
ASSUME Ops \subseteq {"put", "delete"} /\ Ops # {}
ASSUME ReaderOps \subseteq {"get", "search"} /\ ReaderOps # {}
ASSUME WriteOutcomes \subseteq {"ok", "fail", "partial"} /\ "ok" \in WriteOutcomes
ASSUME MaxLog \in Nat /\ MaxCrashes \in Nat

VARIABLES
    log,        \* contents of the store file: a sequence of records
    index,      \* kv.index: a function from the indexed keys to positions
    filePos,    \* the shared position of kv.file
    writer,     \* holder of the write lock of kv.wmutex, or NoThread
    rlocked,    \* threads holding the read lock of kv.wmutex
    up,         \* the process is running (FALSE between Crash and Restart)
    crashes,    \* number of crashes so far
    pc,         \* program counter of every thread
    req,        \* request of every thread: [op, key, val]
    off,        \* offset a reader took from the index
    items,      \* offsets a running Search has still to read
    res,        \* result of a reader's last Get or Search
    found,      \* values of the records a Search has read so far
    kv,         \* history: the abstract map the store promises
    seen,       \* history: values the key of a running Get has had
    snap        \* history: what a running Search's range held when it began

vars == <<log, index, filePos, writer, rlocked, up, crashes, pc, req, off,
          items, res, found, kv, seen, snap>>

Threads  == Readers \cup Writers
NoThread == "none"          \* no holder of the write lock
NoResult == "none"          \* no Get has returned yet
ReadError == "error"        \* Get returned the error of Read or Decode
Listed   == "listed"        \* Search returned its records, nil
\* Position a Read leaves the file at: past the bytes it read.  Every user
\* of the file seeks before it reads or writes, so the value is never used.
Unknown  == 0
Records  == [key : Keys, val : Vals \cup {Zero}, tomb : BOOLEAN, whole : BOOLEAN]

-----------------------------------------------------------------------------
(* Helpers                                                                 *)

\* Value the index currently yields for k: Get on an otherwise idle store.
\* recordAt does not look at the tombstone flag, it returns record.Value.
StoredValue(k) == IF k \in DOMAIN index THEN log[index[k]].val ELSE NotFound

\* The abstract effect of a request on the promised map.
Effect(r) == IF r.op = "put" THEN r.val ELSE NotFound

\* A thread's new view of key k after the promised map changed.
SeenAfter(t, k, v) ==
    IF t \in Readers /\ pc[t] # "idle" /\ req[t].key = k
    THEN seen[t] \cup {v} ELSE seen[t]

\* kv.index.Add(key, offset) and kv.index.Delete(key) (index.go).
IndexAdd(ix, k, p) == (k :> p) @@ ix
IndexDelete(ix, k) == [x \in DOMAIN ix \ {k} |-> ix[x]]

\* Mutation: the scan ends one record early.
ScannedPrefixShort(l) ==
    LET torn == SelectInSeq(l, LAMBDA r : ~r.whole)
    IN  1 .. (IF torn = 0 THEN Len(l) - 1 ELSE torn - 1)

\* The records the Scanner yields: split decodes one record at a time and
\* returns Decode's error at the first record that does not decode (a
\* partial record fails the CRC check), which ends Scan.
ScannedPrefix(l) ==
    LET torn == SelectInSeq(l, LAMBDA r : ~r.whole)
    IN  1 .. (IF torn = 0 THEN Len(l) ELSE torn - 1)

\* RebuildIndex: Add every scanned record at its offset, tombstoned or not;
\* the later record of a key replaces the earlier one.  Scan's error is not
\* checked: RebuildIndex returns nil.
RebuildIndex(l) ==
    LET scanned == ScannedPrefix(l)
        last(k) == CHOOSE i \in scanned :
                      l[i].key = k /\ \A j \in scanned : l[j].key = k => j <= i
    IN  [k \in {l[i].key : i \in scanned} |-> last(k)]

-----------------------------------------------------------------------------
Init ==
    /\ log = << >>
    /\ index = << >>
    /\ filePos = 1
    /\ writer = NoThread
    /\ rlocked = {}
    /\ up = TRUE
    /\ crashes = 0
    /\ pc = [t \in Threads |-> "idle"]
    /\ req = [t \in Threads |-> [op |-> "get", key |-> CHOOSE k \in Keys : TRUE,
                                 val |-> Zero]]
    /\ off = [t \in Readers |-> 0]
    /\ items = [t \in Readers |-> << >>]
    /\ res = [t \in Readers |-> NoResult]
    /\ found = [t \in Readers |-> << >>]
    /\ kv = [k \in Keys |-> NotFound]
    /\ seen = [t \in Readers |-> {}]
    /\ snap = [t \in Readers |-> << >>]

-----------------------------------------------------------------------------
(* Writers: Put, Delete -> set (kvstore.go 59-88)                           *)

\* Put(key, value) calls set(key, value, false); Delete(key) calls
\* set(key, []byte{0}, true).
SetArgs(op, k, v) == [op |-> op, key |-> k, val |-> IF op = "put" THEN v ELSE Zero]

\* Mutation: the write lock does not wait for readers.
LockIgnoringReaders(t) ==
    /\ up /\ pc[t] = "idle" /\ writer = NoThread
    /\ Len(log) < MaxLog
    /\ \E op \in Ops, k \in Keys, v \in Vals :
          req' = [req EXCEPT ![t] = SetArgs(op, k, v)]
    /\ writer' = t
    /\ pc' = [pc EXCEPT ![t] = "append"]
    /\ UNCHANGED <<log, index, filePos, rlocked, up, crashes, off, items, res, found,
                   kv, seen, snap>>

\* Put or Delete is called; set takes kv.wmutex.Lock().
Lock(t) ==
    /\ up /\ pc[t] = "idle" /\ writer = NoThread /\ rlocked = {}
    /\ Len(log) < MaxLog
    /\ \E op \in Ops, k \in Keys, v \in Vals :
          req' = [req EXCEPT ![t] = SetArgs(op, k, v)]
    /\ writer' = t
    /\ pc' = [pc EXCEPT ![t] = "append"]
    /\ UNCHANGED <<log, index, filePos, rlocked, up, crashes, off, items, res, found,
                   kv, seen, snap>>

\* Seek(0, 2), build the record, tombstone it for Delete, record.Write.
\* A failed Write returns the error; the deferred Unlock releases the lock.
\* A short write leaves the bytes it did write at the end of the file.
WriteRecord(t) ==
    LET r == req[t]
        rec(whole) == [key |-> r.key, val |-> r.val, tomb |-> r.op = "delete",
                       whole |-> whole]
    IN
    /\ up /\ pc[t] = "append"
    /\ \E outcome \in WriteOutcomes :
         \/ /\ outcome = "ok"
            /\ log' = Append(log, rec(TRUE))
            /\ filePos' = Len(log) + 2
            /\ pc' = [pc EXCEPT ![t] = "index"]
            /\ UNCHANGED writer
         \/ /\ outcome = "fail"
            /\ filePos' = Len(log) + 1
            /\ pc' = [pc EXCEPT ![t] = "idle"]
            /\ writer' = NoThread
            /\ UNCHANGED log
         \/ /\ outcome = "partial"
            /\ log' = Append(log, rec(FALSE))
            /\ filePos' = Len(log) + 2
            /\ pc' = [pc EXCEPT ![t] = "idle"]
            /\ writer' = NoThread
    /\ UNCHANGED <<index, rlocked, up, crashes, req, off, items, res, found, kv, seen,
                   snap>>

\* Mutations: the offset is taken after the Write (the new end of file);
\* a tombstone is Added like any other record.
IndexUpdateOffsetAfterWrite(t) ==
    LET r == req[t] IN
    /\ up /\ pc[t] = "index"
    /\ index' = IF r.op = "delete" THEN IndexDelete(index, r.key)
                                   ELSE IndexAdd(index, r.key, Len(log) + 1)
    /\ writer' = NoThread
    /\ pc' = [pc EXCEPT ![t] = "idle"]
    /\ kv' = [kv EXCEPT ![r.key] = Effect(r)]
    /\ seen' = [u \in Readers |-> SeenAfter(u, r.key, Effect(r))]
    /\ UNCHANGED <<log, filePos, rlocked, up, crashes, req, off, items, res, found, snap>>

IndexUpdateAddsTombstone(t) ==
    LET r == req[t] IN
    /\ up /\ pc[t] = "index"
    /\ index' = IndexAdd(index, r.key, Len(log))
    /\ writer' = NoThread
    /\ pc' = [pc EXCEPT ![t] = "idle"]
    /\ kv' = [kv EXCEPT ![r.key] = Effect(r)]
    /\ seen' = [u \in Readers |-> SeenAfter(u, r.key, Effect(r))]
    /\ UNCHANGED <<log, filePos, rlocked, up, crashes, req, off, items, res, found, snap>>

\* After a successful Write: Delete the key from the index for a tombstone,
\* otherwise Add(key, offset); return; the deferred Unlock runs.
IndexUpdate(t) ==
    LET r == req[t]
        p == Len(log)      \* the record this writer appended is the last one
    IN
    /\ up /\ pc[t] = "index"
    /\ index' = IF r.op = "delete" THEN IndexDelete(index, r.key)
                                   ELSE IndexAdd(index, r.key, p)
    /\ writer' = NoThread
    /\ pc' = [pc EXCEPT ![t] = "idle"]
    /\ kv' = [kv EXCEPT ![r.key] = Effect(r)]
    /\ seen' = [u \in Readers |-> SeenAfter(u, r.key, Effect(r))]
    /\ UNCHANGED <<log, filePos, rlocked, up, crashes, req, off, items, res, found, snap>>

-----------------------------------------------------------------------------
\* The process dies: memory (index, locks, threads) is lost, the file stays.
\* A Put or Delete whose record is already in the file takes effect.
Die ==
    /\ crashes < MaxCrashes
    /\ up' = FALSE
    /\ crashes' = crashes + 1
    /\ kv' = [k \in Keys |->
                IF \E t \in Writers : pc[t] = "index" /\ req[t].key = k
                THEN Effect(req[CHOOSE t \in Writers : pc[t] = "index"])
                ELSE kv[k]]
    /\ index' = << >>
    /\ writer' = NoThread
    /\ rlocked' = {}
    /\ pc' = [t \in Threads |-> "idle"]
    /\ items' = [t \in Readers |-> << >>]
    /\ res' = [t \in Readers |-> NoResult]
    /\ seen' = [t \in Readers |-> {}]
    /\ UNCHANGED <<log, filePos, req, off, found, snap>>

-----------------------------------------------------------------------------
(* Readers: Get -> recordAt (kvstore.go 46-57, 119-129)                    *)

\* Get(key): kv.index.Get(key) without holding kv.wmutex; a missing key
\* returns ErrItemNotFound at once.
GetLookup(t) ==
    /\ up /\ pc[t] = "idle" /\ "get" \in ReaderOps
    /\ \E k \in Keys :
         /\ req' = [req EXCEPT ![t] = [op |-> "get", key |-> k, val |-> Zero]]
         /\ seen' = [seen EXCEPT ![t] = {kv[k]}]
         /\ found' = [found EXCEPT ![t] = << >>]
         /\ snap' = [snap EXCEPT ![t] = << >>]
         /\ IF k \in DOMAIN index
            THEN /\ off' = [off EXCEPT ![t] = index[k]]
                 /\ pc' = [pc EXCEPT ![t] = "rlock"]
                 /\ UNCHANGED res
            ELSE /\ res' = [res EXCEPT ![t] = NotFound]
                 /\ UNCHANGED <<off, pc>>
    /\ UNCHANGED <<log, index, filePos, writer, rlocked, up, crashes, items, kv>>

\* recordAt: kv.wmutex.RLock().
GetRLock(t) ==
    /\ up /\ pc[t] = "rlock" /\ writer = NoThread
    /\ rlocked' = rlocked \cup {t}
    /\ pc' = [pc EXCEPT ![t] = "seek"]
    /\ UNCHANGED <<log, index, filePos, writer, up, crashes, req, off, items, res, found,
                   kv, seen, snap>>

\* kv.file.Seek(offset, 0).
GetSeek(t) ==
    /\ up /\ pc[t] = "seek"
    /\ filePos' = off[t]
    /\ pc' = [pc EXCEPT ![t] = "read"]
    /\ UNCHANGED <<log, index, writer, rlocked, up, crashes, req, off, items, res, found,
                   kv, seen, snap>>

\* record.Read(kv.file, ...) reads maxRecordSize+13 bytes at the CURRENT
\* file position and decodes them; the deferred RUnlock runs and Get returns
\* record.Value.  At the end of the file Read returns io.EOF.  Inside a
\* record (another reader's Read left the position past its own record)
\* Read decodes garbage: Decode fails its CRC check, or its lengths slice
\* past the buffer and the process panics.
GetRead(t) ==
    LET done == /\ rlocked' = rlocked \ {t}
                /\ pc' = [pc EXCEPT ![t] = "idle"]
                /\ filePos' = Unknown
                /\ UNCHANGED <<log, index, writer, up, crashes, req, off, items, found,
                               kv, seen, snap>>
        atRecord == filePos \in 1 .. Len(log) /\ log[filePos].whole
    IN
    /\ up /\ pc[t] = "read" /\ req[t].op = "get"
    /\ \/ /\ atRecord
          /\ res' = [res EXCEPT ![t] = log[filePos].val]
          /\ done
       \/ /\ ~atRecord
          /\ res' = [res EXCEPT ![t] = ReadError]
          /\ done
       \/ /\ filePos = Unknown
          /\ Die

-----------------------------------------------------------------------------
(* Readers: Search (kvstore.go 135-147, index.go 60-77)                    *)

\* Mutation: the pivot key itself is left out of the range.
IndexSearchExclusive(ix, key, descend) ==
    LET inRange(k) == IF descend THEN k < key ELSE k > key
        before(a, b) == IF descend THEN a > b ELSE a < b
        keys == SetToSortSeq({k \in DOMAIN ix : inRange(k)}, before)
    IN  [i \in 1 .. Len(keys) |-> ix[keys[i]]]

\* kv.index.Search(key, descend): the btree's Ascend(key) visits the items
\* whose key is >= key in ascending order, Descend(key) those <= key in
\* descending order; the offsets of the visited items, in visiting order.
IndexSearch(ix, key, descend) ==
    LET inRange(k) == IF descend THEN k <= key ELSE k >= key
        before(a, b) == IF descend THEN a > b ELSE a < b
        keys == SetToSortSeq({k \in DOMAIN ix : inRange(k)}, before)
    IN  [i \in 1 .. Len(keys) |-> ix[keys[i]]]

\* Search(key, revert): the index is searched without holding kv.wmutex and
\* then every item's record is read by recordAt in turn; with no items,
\* Search returns an empty slice at once.  `snap` records what the range
\* held in the promised map at this moment (the history for SearchSnapshot).
SearchLookup(t) ==
    /\ up /\ pc[t] = "idle" /\ "search" \in ReaderOps
    /\ \E k \in Keys, descend \in BOOLEAN :
         LET offs == IndexSearch(index, k, descend)
             from(x) == IF descend THEN x <= k ELSE x >= k
             order(a, b) == IF descend THEN a > b ELSE a < b
             present == SetToSortSeq({x \in Keys : from(x) /\ kv[x] # NotFound}, order)
         IN
         /\ req' = [req EXCEPT ![t] = [op |-> "search", key |-> k, val |-> Zero]]
         /\ snap' = [snap EXCEPT ![t] = [i \in 1 .. Len(present) |-> kv[present[i]]]]
         /\ found' = [found EXCEPT ![t] = << >>]
         /\ seen' = [seen EXCEPT ![t] = {}]
         /\ IF offs = << >>
            THEN /\ res' = [res EXCEPT ![t] = Listed]
                 /\ UNCHANGED <<off, items, pc>>
            ELSE /\ off' = [off EXCEPT ![t] = Head(offs)]
                 /\ items' = [items EXCEPT ![t] = Tail(offs)]
                 /\ pc' = [pc EXCEPT ![t] = "rlock"]
                 /\ res' = [res EXCEPT ![t] = NoResult]
    /\ UNCHANGED <<log, index, filePos, writer, rlocked, up, crashes, kv>>

\* recordAt's Read for a Search item: the record joins the result and the
\* next item's recordAt begins, or Search returns; an error of Read or
\* Decode makes Search return nil and that error.
SearchRead(t) ==
    LET atRecord == filePos \in 1 .. Len(log) /\ log[filePos].whole
        rest == <<log, index, writer, up, crashes, req, kv, seen, snap>>
    IN
    /\ up /\ pc[t] = "read" /\ req[t].op = "search"
    /\ \/ /\ atRecord
          /\ found' = [found EXCEPT ![t] = Append(@, log[filePos].val)]
          /\ rlocked' = rlocked \ {t}
          /\ filePos' = Unknown
          /\ IF items[t] = << >>
             THEN /\ pc' = [pc EXCEPT ![t] = "idle"]
                  /\ res' = [res EXCEPT ![t] = Listed]
                  /\ UNCHANGED <<off, items>>
             ELSE /\ off' = [off EXCEPT ![t] = Head(items[t])]
                  /\ items' = [items EXCEPT ![t] = Tail(@)]
                  /\ pc' = [pc EXCEPT ![t] = "rlock"]
                  /\ UNCHANGED res
          /\ UNCHANGED rest
       \/ /\ ~atRecord
          /\ res' = [res EXCEPT ![t] = ReadError]
          /\ rlocked' = rlocked \ {t}
          /\ filePos' = Unknown
          /\ pc' = [pc EXCEPT ![t] = "idle"]
          /\ items' = [items EXCEPT ![t] = << >>]
          /\ UNCHANGED <<off, found>> /\ UNCHANGED rest
       \/ /\ filePos = Unknown
          /\ Die

\* The process is killed at an arbitrary step.
Crash == up /\ Die

\* NewKVStore opens the file at offset 0 with an empty index, then
\* RebuildIndex scans it under the write lock, as kvstore_test.go does (the
\* only caller of RebuildIndex; the data engine never rebuilds).
Restart ==
    /\ ~up
    /\ up' = TRUE
    /\ index' = RebuildIndex(log)
    /\ filePos' = 1
    /\ UNCHANGED <<log, writer, rlocked, crashes, pc, req, off, items, res, found, kv,
                   seen, snap>>

-----------------------------------------------------------------------------
Next ==
    \/ \E t \in Writers : Lock(t) \/ WriteRecord(t) \/ IndexUpdate(t)
    \/ \E t \in Readers : \/ GetLookup(t) \/ GetRLock(t) \/ GetSeek(t) \/ GetRead(t)
                          \/ SearchLookup(t) \/ SearchRead(t)
    \/ Crash
    \/ Restart

Spec == Init /\ [][Next]_vars

-----------------------------------------------------------------------------
(* Properties                                                              *)

TypeOK ==
    /\ log \in Seq(Records) /\ Len(log) <= MaxLog
    /\ DOMAIN index \subseteq Keys
    /\ \A k \in DOMAIN index : index[k] \in 1 .. Len(log)
    /\ filePos \in 0 .. MaxLog + 1
    /\ writer \in Writers \cup {NoThread}
    /\ rlocked \subseteq Readers
    /\ up \in BOOLEAN /\ crashes \in 0 .. MaxCrashes
    /\ pc \in [Threads -> {"idle", "append", "index", "rlock", "seek", "read"}]
    /\ items \in [Readers -> Seq(1 .. MaxLog)]
    /\ res \in [Readers -> Vals \cup {Zero, NotFound, NoResult, ReadError, Listed}]
    /\ found \in [Readers -> Seq(Vals \cup {Zero})]
    /\ kv \in [Keys -> Vals \cup {NotFound}]

\* Get is linearizable: the value a Get(k) returned is a value that k had
\* in the promised map at some moment while that Get was running.  This is
\* what recordAt's Seek+Read under a shared RLock must preserve.
GetLinearizable ==
    \A t \in Readers :
        pc[t] = "idle" /\ req[t].op = "get" /\ res[t] # NoResult => res[t] \in seen[t]

\* Search is a snapshot: although it reads the index once and then each
\* record under a separate RLock, while writers append and re-index, the
\* values it returns are exactly those of the keys the promised map held
\* in the chosen range, in the chosen order, when Search read the index.
\* It rests on records never being overwritten and on set() updating the
\* index only after its record is whole in the file.
SearchSnapshot ==
    \A t \in Readers :
        pc[t] = "idle" /\ req[t].op = "search" /\ res[t] # NoResult
            => res[t] = Listed /\ found[t] = snap[t]

\* The index yields the promised map: for every key, what Get returns on an
\* idle store is the value of the last acknowledged Put, or ErrItemNotFound
\* after a Delete, including after a crash and RebuildIndex.
IndexView == up => \A k \in Keys : StoredValue(k) = kv[k]


\* The refinement mapping: the map Get yields, and the Put or Delete each
\* writer is running, in KVMap's terms.
KVMapView == [k \in Keys |-> StoredValue(k)]

KVMapCalls ==
    [t \in Writers |->
        IF pc[t] = "idle" THEN {}
        ELSE {[req[t] EXCEPT !.val = IF req[t].op = "put" THEN @ ELSE NotFound]}]

AbstractMap == INSTANCE KVMap WITH store <- KVMapView, pending <- KVMapCalls,
                                   Clients <- Writers

\* KVStore implements the map KVMap promises: seen through Get on an idle
\* store, the index changes only when a Put or Delete in progress returns
\* nil, by exactly that call's effect, and a call that returns an error
\* (a failed or short record.Write) leaves it unchanged.  Checked with the
\* process up throughout: a crash loses the calls in progress.
ImplementsKVMap == AbstractMap!Spec

=============================================================================
