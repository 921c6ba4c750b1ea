\* Delete followed by a crash: RebuildIndex indexes the tombstone record.
CONSTANTS
    Keys <- MCKeys
    Vals = {v1, v2}
    Zero = Zero
    NotFound = NotFound
    Readers = {r1}
    ReaderOps = {"get"}
    Writers = {w1}
    Ops = {"put", "delete"}
    WriteOutcomes = {"ok"}
    MaxLog = 2
    MaxCrashes = 1
SPECIFICATION Spec
SYMMETRY MCSymmetry
INVARIANT IndexView
