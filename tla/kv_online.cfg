\* Online operation without crashes: one reader, two writers, every write
\* outcome (ok, failed, partial).
CONSTANTS
    Keys <- MCKeys
    Vals = {v1, v2}
    Zero = Zero
    NotFound = NotFound
    Readers = {r1}
    ReaderOps = {"get", "search"}
    Writers = {w1, w2}
    Ops = {"put", "delete"}
    WriteOutcomes = {"ok", "fail", "partial"}
    MaxLog = 3
    MaxCrashes = 0
SPECIFICATION Spec
SYMMETRY MCSymmetry
INVARIANT TypeOK
INVARIANT GetLinearizable
INVARIANT SearchSnapshot
PROPERTY ImplementsKVMap
