\* A maxRecordSize of 8179 makes NewScanner's buffer one 4096-byte page.
\* Records of 2048 bytes tile it, 22-byte tombstones and 8192-byte records
\* do not: scans cross the buffer end on and off record boundaries.  A
\* Put of 8200 bytes is larger than Record.Read's buffer.
\* Offsets are 16 bits wide (TLC's integers cannot hold 2^32); the log
\* stays below 2^16 bytes.
CONSTANTS
    Keys = {k1, k2}
    KeyLen = 8
    ValueSizes = {2027, 8171, 8200}
    MaxRecordSize = 8179
    OffsetBits = 16
    MaxLog = 4
    Ops = {"put", "delete", "get"}
SPECIFICATION Spec
SYMMETRY MCSymmetry
INVARIANT TypeOK
