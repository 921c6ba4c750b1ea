------------------------------ MODULE RecordLog ------------------------------
(***************************************************************************)
(* The byte layout of a KVStore log file (src/kvstore): records of         *)
(* RawSize = 13 + len(key) + len(value) bytes appended by set, the offsets *)
(* kept in the index as uint32, Get's recordAt/Record.Read of a fixed      *)
(* maxRecordSize+13-byte buffer, and RebuildIndex driving a bufio.Scanner  *)
(* whose split function decodes one record from the bytes buffered so far. *)
(*                                                                         *)
(* One goroutine: the concurrency of set and Get is the subject of         *)
(* KVStore.tla; here the subject is the arithmetic of sizes, offsets and   *)
(* the scanner buffer.  A record's key and value are abstracted to a key   *)
(* and a value length.                                                     *)
(***************************************************************************)
EXTENDS Naturals, Sequences, SequencesExt, FiniteSets

CONSTANTS
    Keys,           \* keys, all of KeyLen bytes
    KeyLen,         \* len(key): 8 for the data engine's Uint64ToBytes keys
    ValueSizes,     \* value lengths a Put is given
    MaxRecordSize,  \* NewKVStore's maxRecordSize (8192 in NewFsFileEngine)
    OffsetBits,     \* width of the index offsets (32 in the code)
    MaxLog,         \* bound on the number of records written
    Ops             \* operations the clients call: "put", "delete", "get"

MetaSize   == 13      \* record.go: flags, two uint32 lengths, crc32
PageSize   == 4096    \* scaner.go: the unit of the scanner buffer
OffsetMod  == 2 ^ OffsetBits

\* NewScanner: bufSize := ((maxRecordSize + metaSize) % 4096 + 1) * 4096
BufSize == (((MaxRecordSize + MetaSize) % PageSize) + 1) * PageSize

\* Record.Read's buffer: make([]byte, maxRecordSize+metaSize)
ReadSize == MaxRecordSize + MetaSize

VARIABLES
    log,    \* the file: a sequence of [key, vlen, tomb]
    index,  \* kv.index: key -> uint32 offset
    phase,  \* "open", "scanning" (inside RebuildIndex) or "panicked"
    sc,     \* bufio.Scanner state and RebuildIndex's running offset
    got     \* what the last Get returned

vars == <<log, index, phase, sc, got>>

-----------------------------------------------------------------------------
(* Record sizes and positions                                              *)

\* Record.RawSize: metaSize + len(Key) + len(Value)
RawSize(r) == MetaSize + KeyLen + r.vlen

Plus(a, b) == a + b

\* Bytes taken by the first n records: the file offset of record n + 1.
StartOf(n) == FoldLeft(Plus, 0, [i \in 1 .. n |-> RawSize(log[i])])

FileSize == StartOf(Len(log))

\* The record whose first byte is at file position p, as a log position.
RecordsAt(p) == {i \in 1 .. Len(log) : StartOf(i - 1) = p}

\* Record.Decode of a slice with `capacity` bytes from the record's start:
\* it slices data[:valEndPos+4] for the crc, which panics with a slice
\* bound out of range when the record is longer than the capacity.
DecodeFits(r, capacity) == RawSize(r) <= capacity

\* uint32(x) with the model's width
ToOffset(x) == x % OffsetMod

\* The loop body of RebuildIndex: index.Add(record.Key, offset).
RebuildAdd(ix, r, off) == (r.key :> off) @@ ix

ScanInit == [base |-> 0, start |-> 0, end |-> 0, eof |-> FALSE, off |-> 0]

-----------------------------------------------------------------------------
Init ==
    /\ log   = << >>
    /\ index = << >>
    /\ phase = "open"
    /\ sc    = ScanInit
    /\ got   = "none"

\* set(key, value, deleted): Seek(0, 2) gives the end of the file, the
\* encoded record is written there, then a tombstone deletes the key from
\* the index and a live record adds uint32(offset).  Delete writes the
\* one-byte value []byte{0}.
Set(k, vlen, tomb) ==
    LET offset == FileSize IN
    /\ phase = "open" /\ Len(log) < MaxLog
    /\ log' = Append(log, [key |-> k, vlen |-> vlen, tomb |-> tomb])
    /\ index' = IF tomb THEN [x \in DOMAIN index \ {k} |-> index[x]]
                        ELSE (k :> ToOffset(offset)) @@ index
    /\ UNCHANGED <<phase, sc, got>>

Put(k, vlen) == Set(k, vlen, FALSE)

Delete(k) == Set(k, 1, TRUE)

\* Get: the index lookup (ErrItemNotFound when absent), then recordAt:
\* Seek to the offset and Record.Read, which reads up to ReadSize bytes
\* into a zeroed buffer of that length and decodes it.  At the end of the
\* file Read fails with EOF.  Decode slices the buffer up to the record's
\* RawSize: a record longer than the buffer panics with a slice bound out
\* of range.  An offset that is not a record start decodes garbage: the
\* CRC check fails or the garbage lengths run past the buffer.
ReadOutcomes(p) ==
    CASE p >= FileSize      -> {"error"}
      [] RecordsAt(p) = {}  -> {"error", "panic"}
      [] OTHER -> IF DecodeFits(log[CHOOSE i \in RecordsAt(p) : TRUE], ReadSize)
                  THEN {"value"} ELSE {"panic"}

Get(k) ==
    /\ phase = "open"
    /\ \E o \in IF k \in DOMAIN index THEN ReadOutcomes(index[k]) ELSE {"notfound"} :
          /\ got' = o
          /\ phase' = IF o = "panic" THEN "panicked" ELSE phase
    /\ UNCHANGED <<log, index, sc>>

\* A new process: NewKVStore (empty index) and RebuildIndex, which opens
\* the file afresh and starts the scanner with an empty buffer.
Restart ==
    /\ phase \in {"open", "panicked"}
    /\ phase' = "scanning"
    /\ index' = << >>
    /\ sc' = ScanInit
    /\ UNCHANGED <<log, got>>

\* bufio.Scanner.Scan when the buffer holds no unread byte: first move the
\* unread bytes to the front when start > 0 and the buffer is full or
\* more than half consumed, then Read into buf[end:]; a Read of 0 bytes at
\* the end of the file sets io.EOF.
ScanFill ==
    LET shift == sc.start > 0 /\ (sc.end = BufSize \/ sc.start > BufSize \div 2)
        base  == IF shift THEN sc.base + sc.start ELSE sc.base
        start == IF shift THEN 0 ELSE sc.start
        end   == IF shift THEN sc.end - sc.start ELSE sc.end
        n     == Min({BufSize - end, FileSize - (base + end)})
    IN
    /\ phase = "scanning" /\ sc.start = sc.end /\ ~sc.eof
    /\ sc' = [sc EXCEPT !.base = base, !.start = start, !.end = end + n,
                        !.eof = (n = 0)]
    /\ UNCHANGED <<log, index, phase, got>>

\* Mutation: split advances one byte past the token.
ScanSplitPastToken ==
    LET r    == log[CHOOSE i \in RecordsAt(sc.base + sc.start) : TRUE]
        size == RawSize(r)
    IN
    /\ phase = "scanning" /\ (sc.end > sc.start \/ sc.eof)
    /\ IF sc.eof /\ sc.end = sc.start
       THEN phase' = "open" /\ UNCHANGED <<index, sc>>
       ELSE IF DecodeFits(r, sc.end - sc.start)
       THEN /\ index' = RebuildAdd(index, r, sc.off)
            /\ sc' = [sc EXCEPT !.start = @ + size + 1, !.off = ToOffset(@ + size)]
            /\ UNCHANGED phase
       ELSE phase' = "panicked" /\ UNCHANGED <<index, sc>>
    /\ UNCHANGED <<log, got>>

\* Scan calls split(buf[start:end], atEOF) while bytes are buffered or EOF
\* was seen.  At EOF with no bytes Scan returns false and RebuildIndex
\* returns nil.  Otherwise split Decodes the record at the scan position:
\* a whole record is the token, and the loop body of RebuildIndex adds it
\* to the index (tombstones too) and adds its RawSize to the uint32
\* offset.  A record cut by the end of the buffer is decoded from a slice
\* whose capacity ends there: Decode slices past it and panics.
ScanSplit ==
    LET r    == log[CHOOSE i \in RecordsAt(sc.base + sc.start) : TRUE]
        size == RawSize(r)
    IN
    /\ phase = "scanning" /\ (sc.end > sc.start \/ sc.eof)
    /\ IF sc.eof /\ sc.end = sc.start
       THEN phase' = "open" /\ UNCHANGED <<index, sc>>
       ELSE IF DecodeFits(r, sc.end - sc.start)
       THEN /\ index' = RebuildAdd(index, r, sc.off)
            /\ sc' = [sc EXCEPT !.start = @ + size, !.off = ToOffset(@ + size)]
            /\ UNCHANGED phase
       ELSE phase' = "panicked" /\ UNCHANGED <<index, sc>>
    /\ UNCHANGED <<log, got>>

Next ==
    \/ "put" \in Ops /\ \E k \in Keys, n \in ValueSizes : Put(k, n)
    \/ "delete" \in Ops /\ \E k \in Keys : Delete(k)
    \/ "get" \in Ops /\ \E k \in Keys : Get(k)
    \/ Restart \/ ScanFill \/ ScanSplit

Spec == Init /\ [][Next]_vars

-----------------------------------------------------------------------------
(* Properties                                                              *)

TypeOK ==
    /\ log \in Seq([key : Keys, vlen : ValueSizes \cup {1}, tomb : BOOLEAN])
    /\ DOMAIN index \subseteq Keys
    /\ \A k \in DOMAIN index : index[k] \in 0 .. OffsetMod - 1
    /\ phase \in {"open", "scanning", "panicked"}
    /\ sc.start <= sc.end /\ sc.end <= BufSize
    /\ sc.base + sc.end <= FileSize

\* RebuildIndex ends only by returning, after the scanner has consumed the
\* whole file: it neither panics nor stops at a buffer boundary.
RebuildScansWholeLog ==
    [][phase = "scanning" /\ phase' # "scanning" =>
         phase' = "open" /\ sc.base + sc.start = FileSize]_vars

=============================================================================
