----------------------------- MODULE RecordCodec -----------------------------
(***************************************************************************)
(* The byte layout of one record of src/kvstore/record.go and the way     *)
(* Record.Read decodes it:                                                 *)
(*                                                                         *)
(*     flags(1) | keyLen(4, LE) | valueLen(4, LE) | key | value | crc32(4)  *)
(*                                                                         *)
(* Bytes are naturals 0..255 and a buffer is a sequence of them; index i   *)
(* of a sequence is Go index i-1.  Record.Flags is an int8.  CRC-32 is     *)
(* computed as crc32.ChecksumIEEE does (reflected polynomial 0xEDB88320), *)
(* on a 32-bit register held as its four bytes, because TLC's integers    *)
(* stop at 2^31 - 1.                                                       *)
(*                                                                         *)
(* The state machine is one store file under bit rot: set() appends       *)
(* encoded records, a fault flips one bit of the file, and Get's           *)
(* recordAt reads a record with Record.Read at the offset set stored.     *)
(***************************************************************************)
EXTENDS Naturals, Sequences, SequencesExt, Bitwise

CONSTANTS
    MaxRecordSize,  \* kv.maxRecordSize: Read's buffer is MaxRecordSize + 13
    KeySet,         \* keys a Put or Delete may write: byte sequences
    ValueSet,       \* values a Put may write: byte sequences
    MaxRecords,     \* bound on the records set() appends
    MaxFlips        \* bound on bit-rot faults

Byte       == 0 .. 255
Tombstoned == 1             \* iota + 1: the bit POSITION of the tombstone flag
metaSize   == 13
headerSize == 9

-----------------------------------------------------------------------------
(* Flags: int8 and its bits (record.go 25-51)                              *)

\* int8(b) and byte(n): two's complement conversions.
Int8(b)   == IF b >= 128 THEN b - 256 ELSE b
ByteOf(n) == (n + 256) % 256

\* 1 << pos takes the type of n, int8: at pos 7 it is -128.
SetBit(n, pos)   == Int8(ByteOf(n) | 2^pos)
HasBit(n, pos)   == Int8(ByteOf(n) & 2^pos) > 0

\* NewRecord drops its flags argument: every record starts with Flags 0.
NewRecord(key, value, flags) == [flags |-> 0, key |-> key, value |-> value]
IsTombstoned(r) == HasBit(r.flags, Tombstoned)
Tombstone(r)    == [r EXCEPT !.flags = SetBit(@, Tombstoned)]
RawSize(r)      == metaSize + Len(r.key) + Len(r.value)

\* The record set() writes: NewRecord(key, value, 0), tombstoned for Delete
\* (whose value is []byte{0}).
SetRecord(key, value, deleted) ==
    IF deleted THEN Tombstone(NewRecord(key, <<0>>, 0))
               ELSE NewRecord(key, value, 0)

-----------------------------------------------------------------------------
(* utils.Uint32ToBytes / BytesToUint32: little endian                       *)

Uint32ToBytes(n) == <<n % 256, (n \div 256) % 256, (n \div 65536) % 256,
                      n \div 16777216>>

\* A length field as Decode uses it.  From 2^24 on every length is past any
\* buffer here, and so is every uint32 sum headerSize + keyLen + valueLen
\* that wraps (a wrapped end is below its start, which slicing also
\* rejects), so all of them are the one value Huge.
Huge == 16777216
BytesToUint32(b) == IF b[4] = 0 THEN b[1] + 256 * b[2] + 65536 * b[3] ELSE Huge

-----------------------------------------------------------------------------
(* crc32.ChecksumIEEE (record.go 57-59), table driven                       *)

\* The 32-bit register is four bytes, least significant first, as
\* Uint32ToBytes lays it out.
Xor32(a, b) == [j \in 1 .. 4 |-> a[j] ^^ b[j]]
Poly        == <<32, 131, 184, 237>>                \* 0xEDB88320

\* crc >> 1, and one bit of the reflected shift register.
Shr1(c) == [j \in 1 .. 4 |-> c[j] \div 2 + (IF j < 4 THEN (c[j + 1] % 2) * 128 ELSE 0)]
CrcBit(c) == IF c[1] % 2 = 1 THEN Xor32(Shr1(c), Poly) ELSE Shr1(c)

\* crc32's table: entry i is the register i shifted through eight bits.
CrcTable ==
    [i \in Byte |->
        LET r[n \in 0 .. 8] == IF n = 0 THEN <<i, 0, 0, 0>> ELSE CrcBit(r[n - 1])
        IN  r[8]]

\* One byte: crc = table[byte(crc) ^ b] ^ (crc >> 8).
CrcUpdate(c, b) == Xor32(CrcTable[c[1] ^^ b], <<c[2], c[3], c[4], 0>>)

\* crc32.ChecksumIEEE: the register starts at all ones, takes every byte of
\* data in turn and is complemented at the end.
ChecksumIEEE(data) ==
    LET r[n \in 0 .. Len(data)] ==
            IF n = 0 THEN <<255, 255, 255, 255>> ELSE CrcUpdate(r[n - 1], data[n])
    IN  [j \in 1 .. 4 |-> 255 - r[Len(data)][j]]

-----------------------------------------------------------------------------
(* Encode, Decode, Read (record.go 61-93, 114-121)                          *)

\* flags, the two lengths, key and value, then the CRC of all of them.
Encode(r) ==
    LET body == <<ByteOf(r.flags)>> \o Uint32ToBytes(Len(r.key))
                \o Uint32ToBytes(Len(r.value)) \o r.key \o r.value
    IN  body \o ChecksumIEEE(body)      \* Uint32ToBytes(crc): its bytes, LE

\* Record.Write: the encoding is written to the file, at its end here.
Write(f, r) == f \o Encode(r)

NoRecord == [flags |-> 0, key |-> << >>, value |-> << >>]
Outcome(kind, r) == [kind |-> kind, rec |-> r]

\* Decode slices data by the lengths it reads: an end past the buffer is an
\* index-out-of-range panic (make([]byte, keyLen) of a huge length may
\* already have died out of memory).  Then the CRC is checked.
KeyLen(data)   == BytesToUint32(SubSeq(data, 2, 5))
ValueLen(data) == BytesToUint32(SubSeq(data, 6, 9))
KeyEnd(data)   == headerSize + KeyLen(data)
ValEnd(data)   == KeyEnd(data) + ValueLen(data)

Decode(data) ==
    IF Len(data) < headerSize \/ ValEnd(data) + 4 > Len(data)
    THEN Outcome("panic", NoRecord)
    ELSE IF SubSeq(data, ValEnd(data) + 1, ValEnd(data) + 4)
              = ChecksumIEEE(SubSeq(data, 1, ValEnd(data)))
         THEN Outcome("ok", [flags |-> Int8(data[1]),
                             key   |-> SubSeq(data, headerSize + 1, KeyEnd(data)),
                             value |-> SubSeq(data, KeyEnd(data) + 1, ValEnd(data))])
         ELSE Outcome("crc", NoRecord)

\* Record.Read at byte position pos (1-based) of file: f.Read fills what it
\* can of a zeroed buffer of MaxRecordSize + 13 bytes, or returns io.EOF at
\* the end of the file; the buffer is decoded whatever n was.
Read(file, pos) ==
    LET size  == MaxRecordSize + metaSize
        avail == SubSeq(file, pos, IF Len(file) < pos + size - 1
                                   THEN Len(file) ELSE pos + size - 1)
    IN  IF pos > Len(file) THEN Outcome("eof", NoRecord)
        ELSE Decode(avail \o [i \in 1 .. size - Len(avail) |-> 0])

\* The buffer with bit b of byte i flipped.
FlipBit(data, i, b) == [data EXCEPT ![i] = @ ^^ (2^b)]

-----------------------------------------------------------------------------
(* One store file: set() appends, bit rot, Get (kvstore.go 46-88, 119-129) *)

VARIABLES
    file,       \* the bytes of the store file
    index,      \* kv.index: key -> byte position of its record (1-based)
    records,    \* number of records set() has appended
    flips,      \* number of bits bit rot has flipped
    got         \* the key and the Read outcome of the last Get, or NoGet

vars == <<file, index, records, flips, got>>

NoGet == [key |-> << >>, out |-> Outcome("none", NoRecord)]

Init ==
    /\ file = << >>
    /\ index = << >>
    /\ records = 0
    /\ flips = 0
    /\ got = NoGet

\* set(key, value, deleted) under the write lock: the offset is the end of
\* the file, the record is written whole, then a tombstone's key leaves the
\* index and any other key is Added at the offset.
Set(key, value, deleted) ==
    /\ records < MaxRecords
    /\ file' = Write(file, SetRecord(key, value, deleted))
    /\ index' = IF deleted THEN [k \in DOMAIN index \ {key} |-> index[k]]
                           ELSE (key :> Len(file) + 1) @@ index
    /\ records' = records + 1
    /\ UNCHANGED <<flips, got>>

\* The medium flips one bit of the file.
BitRot ==
    /\ flips < MaxFlips
    /\ \E i \in 1 .. Len(file), b \in 0 .. 7 : file' = FlipBit(file, i, b)
    /\ flips' = flips + 1
    /\ UNCHANGED <<index, records, got>>

\* Get(key): the offset from the index, then recordAt's Seek and Read.
Get(key) ==
    /\ key \in DOMAIN index
    /\ got' = [key |-> key, out |-> Read(file, index[key])]
    /\ UNCHANGED <<file, index, records, flips>>

Next ==
    \/ \E k \in KeySet, v \in ValueSet, d \in BOOLEAN : Set(k, v, d)
    \/ BitRot
    \/ \E k \in KeySet : Get(k)

Spec == Init /\ [][Next]_vars

-----------------------------------------------------------------------------
(* Properties                                                              *)

\* A Get on a damaged record fails cleanly: Decode returns CorruptRecord
\* when the CRC does not match or the buffer is shorter than
\* 13 + keyLen + valueLen (spec.md 4.A, and 8 invariant 1: flipping any single bit
\* of an encoded record yields CorruptRecord).  Record.Read must never take
\* the process down.
ReadFailsCleanly == got.out.kind # "panic"

=============================================================================
