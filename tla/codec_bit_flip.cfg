\* One bit of a stored record flips, then Get reads it.  A maxRecordSize of
\* 8 gives Record.Read a 21-byte buffer; every record here fits it.
CONSTANTS
    MaxRecordSize = 8
    KeySet <- MCKeys
    ValueSet <- MCValues
    MaxRecords = 2
    MaxFlips = 1
SPECIFICATION Spec
INVARIANT ReadFailsCleanly
