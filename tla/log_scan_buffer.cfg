\* The data engine's store: maxRecordSize 8192 (a 57344-byte scanner
\* buffer) and 4096-byte blocks under 8-byte keys, 4117 bytes a record.
CONSTANTS
    Keys = {k1}
    KeyLen = 8
    ValueSizes = {4096}
    MaxRecordSize = 8192
    OffsetBits = 30
    MaxLog = 14
    Ops = {"put"}
SPECIFICATION Spec
PROPERTY RebuildScansWholeLog
